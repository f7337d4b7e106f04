------------------------------ MODULE ThreadPool ------------------------------
(***************************************************************************)
(* The thread pool that computes a graph on the CPU (ggml-cpu.c, without   *)
(* OpenMP, as lib/src/main/cpp/CMakeLists.txt builds it for x86_64).       *)
(*                                                                         *)
(* Thread 0 is the caller of ggml_graph_compute; the others poll or sleep  *)
(* until it kicks off a graph.  All threads of a graph walk through its    *)
(* nodes and meet at ggml_barrier between any two of them; the chunks of a *)
(* matrix product are claimed from a shared counter.  A step accesses one  *)
(* shared variable, or is a region under the pool's mutex into which no    *)
(* unlocked read can look.  Memory is sequentially consistent.             *)
(***************************************************************************)
EXTENDS Integers, Sequences

CONSTANTS
    NThreads,     \* threadpool->n_threads
    Graphs,       \* the graphs: sequences of nodes
    Chunks,       \* nchunk0 * nchunk1, as chosen by the size of the result
    PerThread,    \* chunks a thread must have at least (4 in the code)
    MaxGraphs     \* bound of the model: graphs computed by the pool

\* An empty node is skipped, a product is computed in chunks, anything else
\* (a fused group of nodes too) by all threads at once.
Kinds == {"empty", "plain", "product"}

ASSUME PoolAssumption ==
    /\ NThreads \in Nat \ {0}
    /\ Graphs \subseteq Seq(Kinds)
    /\ Chunks \in Nat /\ PerThread \in Nat \ {0}
    /\ MaxGraphs \in Nat

VARIABLES
    pc,         \* what each thread does next
    graph,      \* cgraph
    nGraph,     \* n_graph: how many graphs were kicked off, and for how many threads
    nBarrier,   \* n_barrier
    nPassed,    \* n_barrier_passed
    chunk,      \* current_chunk
    stop, pause,
    abort,
    locked,     \* thread 0 is inside a region under the mutex
    pending,    \* pending of each thread's state
    last,       \* last_graph of each thread's state
    node,       \* node_n of each thread, from 1
    loc,        \* other locals: cgraph, params.nth, current_chunk, those of ggml_barrier
    done,       \* history: phases of the graph each thread has finished
    claims      \* history: how often each chunk of each node was computed

flags   == <<stop, pause, locked>>
barrier == <<nBarrier, nPassed>>
work    == <<graph, chunk, abort>>
state   == <<pending, last>>
history == <<done, claims>>
vars    == <<pc, graph, nGraph, barrier, chunk, flags, abort, state, node, loc, history>>

Threads  == 0 .. NThreads - 1
Workers  == Threads \ {0}
Active   == 0 .. nGraph.threads - 1
ChunkIds == 0 .. (IF Chunks < NThreads THEN NThreads ELSE Chunks) - 1


Go(t, to) == pc' = [pc EXCEPT ![t] = to]

\* ggml_cond_broadcast: every sleeping thread goes for the mutex.
Awake(p) == [t \in Threads |->
    CASE p[t] = "asleep"       -> "locking"
      [] p[t] = "asleepPaused" -> "resuming"
      [] OTHER                 -> p[t]]

Init ==
    /\ pc = [t \in Threads |-> IF t = 0 THEN "idle" ELSE "top"]
    /\ graph = <<>> /\ nGraph = [count |-> 0, threads |-> 0]
    /\ nBarrier = 0 /\ nPassed = 0 /\ chunk = 0
    /\ stop = FALSE /\ pause \in BOOLEAN /\ abort = -1 /\ locked = FALSE
    /\ pending = [t \in Threads |-> FALSE]
    /\ last = [t \in Threads |-> nGraph]
    /\ node = [t \in Threads |-> 1]
    /\ loc = [t \in Threads |-> [job |-> <<>>, nth |-> 0, mine |-> 0,
                                 passed |-> 0, threads |-> 0, after |-> "end"]]
    /\ done = [t \in Threads |-> 0]
    /\ claims = <<>>

------------------------------------------------------------------------------
(***************************************************************************)
(* Thread 0: ggml_graph_compute, pause, resume and free.                   *)
(***************************************************************************)
\* ggml_graph_compute up to the kickoff; n_threads is cut to the pool's.
Submit(g, n) ==
    /\ pc[0] = "idle"
    /\ nGraph.count < MaxGraphs
    /\ graph' = g /\ chunk' = 0 /\ abort' = -1
    /\ loc' = [loc EXCEPT ![0].threads = n]
    /\ done' = [t \in Threads |-> 0]
    /\ claims' = [i \in DOMAIN g |-> [c \in ChunkIds |-> 0]]
    /\ Go(0, "kick")
    /\ UNCHANGED <<nGraph, barrier, flags, state, node>>

\* ggml_graph_compute_kickoff: n_graph is seen by the polling threads before
\* the mutex is released ...
KickStore ==
    /\ pc[0] = "kick"
    /\ locked' = TRUE
    /\ nGraph' = [count |-> nGraph.count + 1, threads |-> loc[0].threads]
    /\ Go(0, "signal")
    /\ UNCHANGED <<work, barrier, stop, pause, state, node, loc, history>>

\* Mutant: the sleeping threads are not signalled.
KickSignal_Silent ==
    /\ pc[0] = "signal"
    /\ locked' = FALSE /\ pause' = FALSE
    /\ Go(0, "begin")
    /\ UNCHANGED <<work, nGraph, barrier, stop, state, node, loc, history>>

\* ... and so is the end of a pause.
KickSignal ==
    /\ pc[0] = "signal"
    /\ locked' = FALSE /\ pause' = FALSE
    /\ pc' = [Awake(pc) EXCEPT ![0] = "begin"]
    /\ UNCHANGED <<work, nGraph, barrier, stop, state, node, loc, history>>

\* ggml_threadpool_pause and ggml_threadpool_resume.
SetPause(p) ==
    /\ pc[0] = "idle" /\ pause # p
    /\ pause' = p
    /\ pc' = Awake(pc)
    /\ UNCHANGED <<work, nGraph, barrier, stop, locked, state, node, loc, history>>

\* ggml_threadpool_free, up to the joins.
FreeStop ==
    /\ pc[0] = "idle"
    /\ locked' = TRUE /\ stop' = TRUE
    /\ Go(0, "freeing")
    /\ UNCHANGED <<work, nGraph, barrier, pause, state, node, loc, history>>

\* Mutant: a paused pool stays paused.
FreeSignal_StaysPaused ==
    /\ pc[0] = "freeing"
    /\ locked' = FALSE
    /\ pc' = [Awake(pc) EXCEPT ![0] = "join"]
    /\ UNCHANGED <<work, nGraph, barrier, stop, pause, state, node, loc, history>>

FreeSignal ==
    /\ pc[0] = "freeing"
    /\ locked' = FALSE /\ pause' = FALSE
    /\ pc' = [Awake(pc) EXCEPT ![0] = "join"]
    /\ UNCHANGED <<work, nGraph, barrier, stop, state, node, loc, history>>

Join ==
    /\ pc[0] = "join"
    /\ \A t \in Workers : pc[t] = "ended"
    /\ Go(0, "freed")
    /\ UNCHANGED <<work, nGraph, barrier, flags, state, node, loc, history>>

------------------------------------------------------------------------------
(***************************************************************************)
(* The other threads: ggml_graph_compute_secondary_thread.                 *)
(***************************************************************************)
\* while (threadpool->pause)
Top(t) ==
    /\ pc[t] = "top"
    /\ Go(t, IF pause THEN "lockingPaused" ELSE "stopping")
    /\ UNCHANGED <<work, nGraph, barrier, flags, state, node, loc, history>>

\* pause is read again under the mutex.
LockPaused(t) ==
    /\ pc[t] = "lockingPaused" /\ ~locked
    /\ Go(t, IF pause THEN "asleepPaused" ELSE "top")
    /\ UNCHANGED <<work, nGraph, barrier, flags, state, node, loc, history>>

Resume(t) ==
    /\ pc[t] = "resuming" /\ ~locked
    /\ Go(t, "top")
    /\ UNCHANGED <<work, nGraph, barrier, flags, state, node, loc, history>>

\* if (threadpool->stop) break;
LookStop(t) ==
    /\ pc[t] = "stopping"
    /\ Go(t, IF stop THEN "ended" ELSE "poll")
    /\ UNCHANGED <<work, nGraph, barrier, flags, state, node, loc, history>>

\* Mutant: threads the graph did not ask for join in.
TakeGraph_Everybody(t) ==
    /\ nGraph # last[t]
    /\ pending' = [pending EXCEPT ![t] = TRUE]
    /\ last' = [last EXCEPT ![t] = nGraph]

\* The last lines of thread_ready: a graph this thread has not seen.
TakeGraph(t) ==
    /\ nGraph # last[t]
    /\ pending' = [pending EXCEPT ![t] = t < nGraph.threads]
    /\ last' = [last EXCEPT ![t] = nGraph]

\* poll_for_work reads the flags, then n_graph, both without the mutex.
Poll(t) ==
    /\ pc[t] = "poll"
    /\ Go(t, IF stop \/ pause THEN "locking" ELSE "look")
    /\ UNCHANGED <<work, nGraph, barrier, flags, state, node, loc, history>>

Look(t) ==
    /\ pc[t] = "look"
    /\ \/ /\ TakeGraph(t)
          /\ Go(t, IF t < nGraph.threads THEN "dispatch" ELSE "locking")
       \/ /\ nGraph = last[t]
          /\ \/ Go(t, "poll")
             \/ Go(t, "locking")       \* n_rounds are over
          /\ UNCHANGED state
    /\ UNCHANGED <<work, nGraph, barrier, flags, node, loc, history>>

\* check_for_work under the mutex: leave, or sleep.
LockForWork(t) ==
    /\ pc[t] = "locking" /\ ~locked
    /\ \/ /\ stop \/ pause
          /\ Go(t, "dispatch") /\ UNCHANGED state
       \/ /\ ~stop /\ ~pause
          /\ TakeGraph(t) /\ Go(t, "dispatch")
       \/ /\ ~stop /\ ~pause /\ nGraph = last[t]
          /\ Go(t, "asleep") /\ UNCHANGED state
    /\ UNCHANGED <<work, nGraph, barrier, flags, node, loc, history>>

\* cond_wait may return without a signal.
WakeSpuriously(t) ==
    /\ \/ pc[t] = "asleep" /\ Go(t, "locking")
       \/ pc[t] = "asleepPaused" /\ Go(t, "resuming")
    /\ UNCHANGED <<work, nGraph, barrier, flags, state, node, loc, history>>

Dispatch(t) ==
    /\ pc[t] = "dispatch"
    /\ pending' = [pending EXCEPT ![t] = FALSE]
    /\ Go(t, IF pending[t] THEN "begin" ELSE "top")
    /\ UNCHANGED <<work, nGraph, barrier, flags, last, node, loc, history>>

------------------------------------------------------------------------------
(***************************************************************************)
(* All threads: ggml_graph_compute_thread, the matrix product, the barrier.*)
(***************************************************************************)
Kind(t) == loc[t].job[node[t]]

\* The chunks of a product: too few for the threads, and each gets one.
NChunks(n) == IF Chunks < n * PerThread THEN n ELSE Chunks

Meet(t, place) ==
    /\ Go(t, "enter")
    /\ loc' = [loc EXCEPT ![t].after = place]

Begin(t) ==
    /\ pc[t] = "begin"
    /\ loc' = [loc EXCEPT ![t].job = graph, ![t].nth = nGraph.threads]
    /\ node' = [node EXCEPT ![t] = 1]
    /\ Go(t, "node")
    /\ UNCHANGED <<work, nGraph, barrier, flags, state, history>>

\* Mutant: only thread 0 looks at abort.
Over_MainOnly(t) == node[t] > Len(loc[t].job) \/ (abort = node[t] /\ t = 0)

\* The condition of the loop over the nodes.
Over(t) == node[t] > Len(loc[t].job) \/ abort = node[t]

NextNode(t) ==
    /\ pc[t] = "node"
    /\ \/ Over(t) /\ Meet(t, "end") /\ UNCHANGED node
       \/ /\ ~Over(t)
          /\ \/ /\ Kind(t) = "empty"
                /\ node' = [node EXCEPT ![t] = @ + 1] /\ UNCHANGED pc
             \/ /\ Kind(t) = "plain"
                /\ Go(t, "work") /\ UNCHANGED node
             \/ /\ Kind(t) = "product"
                /\ Go(t, "prepare") /\ UNCHANGED node
          /\ UNCHANGED loc
    /\ UNCHANGED <<work, nGraph, barrier, flags, state, history>>

Work(t) ==
    /\ pc[t] = "work"
    /\ done' = [done EXCEPT ![t] = @ + 1]
    /\ Go(t, "step")
    /\ UNCHANGED <<work, nGraph, barrier, flags, state, node, loc, claims>>

\* Mutant: the counter starts at the first chunk.
Prepare_FromZero(t) ==
    /\ pc[t] = "prepare"
    /\ done' = [done EXCEPT ![t] = @ + 1]
    /\ chunk' = IF t = 0 THEN 0 ELSE chunk
    /\ Go(t, "enter")
    /\ loc' = [loc EXCEPT ![t].mine = t, ![t].after = "chunks"]
    /\ UNCHANGED <<graph, abort, nGraph, barrier, flags, state, node, claims>>

\* A product converts its input first; the counter starts behind the chunks
\* the threads take by their own number.
Prepare(t) ==
    /\ pc[t] = "prepare"
    /\ done' = [done EXCEPT ![t] = @ + 1]
    /\ chunk' = IF t = 0 THEN loc[t].nth ELSE chunk
    /\ Go(t, "enter")
    /\ loc' = [loc EXCEPT ![t].mine = t, ![t].after = "chunks"]
    /\ UNCHANGED <<graph, abort, nGraph, barrier, flags, state, node, claims>>

Chunk(t) ==
    /\ pc[t] = "chunk"
    /\ \/ /\ loc[t].mine < NChunks(loc[t].nth)
          /\ claims' = [claims EXCEPT ![node[t]][loc[t].mine] = @ + 1]
          /\ \/ /\ loc[t].nth < NChunks(loc[t].nth)
                /\ Go(t, "claim") /\ UNCHANGED done
             \/ /\ loc[t].nth >= NChunks(loc[t].nth)
                /\ Go(t, "step") /\ done' = [done EXCEPT ![t] = @ + 1]
       \/ /\ loc[t].mine >= NChunks(loc[t].nth)
          /\ Go(t, "step") /\ done' = [done EXCEPT ![t] = @ + 1]
          /\ UNCHANGED claims
    /\ UNCHANGED <<work, nGraph, barrier, flags, state, node, loc>>

Claim(t) ==
    /\ pc[t] = "claim"
    /\ loc' = [loc EXCEPT ![t].mine = chunk]
    /\ chunk' = chunk + 1
    /\ Go(t, "chunk")
    /\ UNCHANGED <<graph, abort, nGraph, barrier, flags, state, node, history>>

\* The abort callback is asked by thread 0; the last node has no barrier of
\* its own.
FinishNode(t) ==
    /\ pc[t] = "step"
    /\ node' = [node EXCEPT ![t] = @ + 1]
    /\ \/ abort' = abort
       \/ t = 0 /\ abort' = node[t] + 1
    /\ \/ node[t] < Len(loc[t].job) /\ Meet(t, "next")
       \/ node[t] >= Len(loc[t].job) /\ Go(t, "node") /\ UNCHANGED loc
    /\ UNCHANGED <<graph, chunk, nGraph, barrier, flags, state, history>>

\* Where a thread is after its barrier.
Leave(t) == Go(t, CASE loc[t].after = "chunks" -> "chunk"
                    [] loc[t].after = "next"   -> "node"
                    [] loc[t].after = "end"    -> IF t = 0 THEN "idle" ELSE "top")

\* Mutant: thread 0 leaves an aborted graph without the last barrier.
Enter_NotAfterAbort(t) ==
    /\ pc[t] = "enter"
    /\ \/ /\ \/ nGraph.threads = 1
             \/ t = 0 /\ loc[t].after = "end" /\ abort = node[t]
          /\ Leave(t) /\ UNCHANGED loc
       \/ /\ nGraph.threads # 1
          /\ loc' = [loc EXCEPT ![t].threads = nGraph.threads, ![t].passed = nPassed]
          /\ Go(t, "arrive")
    /\ UNCHANGED <<work, nGraph, barrier, flags, state, node, history>>

Enter(t) ==
    /\ pc[t] = "enter"
    /\ \/ nGraph.threads = 1 /\ Leave(t) /\ UNCHANGED loc
       \/ /\ nGraph.threads # 1
          /\ loc' = [loc EXCEPT ![t].threads = nGraph.threads, ![t].passed = nPassed]
          /\ Go(t, "arrive")
    /\ UNCHANGED <<work, nGraph, barrier, flags, state, node, history>>

\* Mutant: the last thread but one opens the barrier.
Arrive_OffByOne(t) ==
    /\ pc[t] = "arrive"
    /\ nBarrier' = nBarrier + 1
    /\ Go(t, IF nBarrier = loc[t].threads - 2 THEN "reset" ELSE "spin")
    /\ UNCHANGED <<work, nGraph, nPassed, flags, state, node, loc, history>>

Arrive(t) ==
    /\ pc[t] = "arrive"
    /\ nBarrier' = nBarrier + 1
    /\ Go(t, IF nBarrier = loc[t].threads - 1 THEN "reset" ELSE "spin")
    /\ UNCHANGED <<work, nGraph, nPassed, flags, state, node, loc, history>>

Reset(t) ==
    /\ pc[t] = "reset"
    /\ nBarrier' = 0
    /\ Go(t, "release")
    /\ UNCHANGED <<work, nGraph, nPassed, flags, state, node, loc, history>>

Release(t) ==
    /\ pc[t] = "release"
    /\ nPassed' = nPassed + 1
    /\ Leave(t)
    /\ UNCHANGED <<work, nGraph, nBarrier, flags, state, node, loc, history>>

Spin(t) ==
    /\ pc[t] = "spin"
    /\ nPassed # loc[t].passed
    /\ Leave(t)
    /\ UNCHANGED <<work, nGraph, barrier, flags, state, node, loc, history>>

------------------------------------------------------------------------------
Compute(t) ==
    \/ Begin(t) \/ NextNode(t) \/ Work(t) \/ Prepare(t) \/ Chunk(t) \/ Claim(t)
    \/ FinishNode(t) \/ Enter(t) \/ Arrive(t) \/ Reset(t) \/ Release(t) \/ Spin(t)

Wait(t) ==
    \/ Top(t) \/ LockPaused(t) \/ Resume(t) \/ LookStop(t)
    \/ Poll(t) \/ Look(t) \/ LockForWork(t) \/ Dispatch(t)

Carry == KickStore \/ KickSignal \/ FreeSignal \/ Join

Call ==
    \/ \E g \in Graphs, n \in 1 .. NThreads : Submit(g, n)
    \/ \E p \in BOOLEAN : SetPause(p)
    \/ FreeStop

Next ==
    \/ Call \/ Carry
    \/ \E t \in Threads : Compute(t)
    \/ \E t \in Workers : Wait(t) \/ WakeSpuriously(t)

Spec == Init /\ [][Next]_vars

\* Every thread runs on; nobody has to call, and a wait that returns without
\* a signal cannot be relied on.
LiveSpec ==
    /\ Spec /\ WF_vars(Carry)
    /\ \A t \in Threads : WF_vars(Compute(t))
    /\ \A t \in Workers : WF_vars(Wait(t))

------------------------------------------------------------------------------
InGraph == {"begin", "node", "work", "prepare", "chunk", "claim", "step",
            "enter", "arrive", "reset", "release", "spin"}
MainPC == {"idle", "kick", "signal", "freeing", "join", "freed"}

\* A thread about to work on a part of the graph reads what the phases before
\* wrote: every thread of the graph has finished them, those that have not
\* even noticed the graph included (ggml_barrier and its callers).
PhasesInOrder ==
    \A t \in Threads : pc[t] \in {"work", "prepare", "chunk", "claim"} =>
        \A u \in Active : done[u] >= done[t]

\* Between two graphs "no worker threads should be accessing" the parameters
\* that ggml_graph_compute resets (ggml-cpu.c:3333): a worker is at most on
\* its way out of the last barrier, and this graph's counts are settled.
NobodyReads ==
    pc[0] \in MainPC \ {"signal"} =>
        /\ nBarrier = 0
        /\ \A t \in Workers : pc[t] \in InGraph =>
               pc[t] = "spin" /\ loc[t].after = "end" /\ nPassed # loc[t].passed

\* Threads that compute work on the graph and the thread count of the last
\* kickoff, and are among the threads it asked for.
SameWork ==
    \A t \in Threads : pc[t] \in InGraph \ {"begin", "spin"} =>
        /\ t \in Active
        /\ loc[t].job = graph /\ loc[t].nth = nGraph.threads

\* Each chunk of a product is computed by one thread only; none is missing
\* when a thread works on a later node, or when the graph is over and the
\* product was begun.
ChunksOnce ==
    \A i \in DOMAIN claims : graph[i] = "product" =>
        /\ \A c \in ChunkIds : claims[i][c] <= 1
        /\ (\/ \E t \in Active : node[t] > i /\ pc[t] \in {"work", "prepare", "chunk"}
            \/ pc[0] = "idle" /\ \E c \in ChunkIds : claims[i][c] = 1)
           => \A c \in 0 .. NChunks(nGraph.threads) - 1 : claims[i][c] = 1

\* When a graph is over, aborted or not, its threads have done the same part
\* of it: all saw the abort at the same node.
AbortAgreed ==
    pc[0] = "idle" => \A t, u \in Active : done[t] = done[u]

\* ggml_graph_compute returns: no wakeup is lost between the poll, the sleep
\* and the kickoff, and no thread is left behind at a barrier.
GraphEnds == pc[0] = "kick" ~> pc[0] = "idle"

\* ggml_threadpool_free returns: every worker sees stop, from wherever it is.
FreeEnds == pc[0] = "freeing" ~> pc[0] = "freed"
==============================================================================
