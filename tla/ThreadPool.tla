------------------------------ MODULE ThreadPool ------------------------------
(***************************************************************************)
(* The thread pool of P-MOSS (src/threads/TPM.cc) and the part of main     *)
(* (src/erebus.cpp) that runs it.                                          *)
(*                                                                         *)
(* Routers draw queries, assign each to a grid cell and push it to the job *)
(* queue of the worker that owns the cell.  Workers execute queries on the *)
(* index (module BTreeOLC) and now and then leave a sample of hardware     *)
(* counters.  A core sweeper per NUMA node wakes up, pushes a token behind *)
(* the samples of each of its workers, takes the samples up to the token,  *)
(* and adds a row to its reels: the data view, the view of executed        *)
(* queries and, sweeper 0 only, the memory-channel view, whose samples     *)
(* come from the system sweeper.  After a while main stops the core        *)
(* sweepers, dumps the reels and exits while everybody else still runs.    *)
(*                                                                         *)
(* A query is the grid cell it was assigned to.  The correlation matrix    *)
(* and the qType counts of a cell are written and never read: left out.    *)
(* Sleeps are left out: a thread may take any time before any step.        *)
(***************************************************************************)
EXTENDS Naturals, FiniteSets, SequencesExt

CONSTANTS
  Routers,            \* router threads
  Cells,              \* grid cells
  NumaNodes,          \* NUMA nodes; each has one core sweeper
  FirstNode,          \* the node of sweeper 0
  NUMAToWorkerCPUs,   \* the workers of each node, in the order they are visited
  idCPU,              \* the worker that owns each cell
  Interval,           \* PERF_STAT_COLLECTION_INTERVAL
  UnsetType,          \* what a qType that was never assigned may read as
  MaxQueries,         \* bound on the queries that are routed
  MaxSweeps,          \* bound on the sweeps of each core sweeper
  MaxChannel,         \* bound on the samples of the system sweeper
  main                \* the main thread

WorkersOf(n) == ToSet(NUMAToWorkerCPUs[n])
Workers == UNION {WorkersOf(n) : n \in NumaNodes}
Threads == Routers \cup Workers \cup NumaNodes \cup {main}

ASSUME PlacementAssumption == idCPU \in [Cells -> Workers]
ASSUME NodesAssumption ==
  /\ FirstNode \in NumaNodes
  /\ \A m, n \in NumaNodes : m # n => WorkersOf(m) \cap WorkersOf(n) = {}
  /\ \A n \in NumaNodes : /\ NUMAToWorkerCPUs[n] \in Seq(WorkersOf(n))
                          /\ NUMAToWorkerCPUs[n] # <<>>
\* A core that runs a worker is listed once.
ASSUME WorkersAssumption == \A n \in NumaNodes : IsInjective(NUMAToWorkerCPUs[n])
ASSUME FiniteAssumption ==
  IsFiniteSet(Routers) /\ IsFiniteSet(NumaNodes) /\ IsFiniteSet(Cells)
\* Every thread does one job.
ASSUME ThreadsAssumption ==
  /\ Routers \cap (Workers \cup NumaNodes) = {} /\ Workers \cap NumaNodes = {}
  /\ main \notin Routers \cup Workers \cup NumaNodes
ASSUME BoundsAssumption ==
  MaxQueries \in Nat /\ MaxSweeps \in Nat /\ MaxChannel \in Nat
ASSUME IntervalAssumption == Interval \in Nat \ {0}
ASSUME UnsetAssumption == UnsetType # {} /\ UnsetType \subseteq {"sample", "token"}

VARIABLES
  pc,                  \* where each thread stands
  query,               \* a router's query, a worker's rec_pop
  reg,                 \* the counter value a thread is about to add one to
  freqQueryDistPushed, freqQueryDistCompleted,
  jobs,                \* queries in each worker's queue, by cell
  cnt,                 \* queries each worker has executed since its last sample
  perf_stats,          \* each worker's queue of samples and tokens
  qExecutedMice,       \* queries each worker has executed, by cell
  pcmCounters,         \* the system sweeper's queue of samples and tokens
  running,             \* may the core sweeper begin another sweep?
  at,                  \* the worker a core sweeper has come to
  ddSnap, qExecSnap, DRAMResUsageSnap,              \* the rows being built
  dataDistReel, queryExecReel, DRAMResUsageReel,    \* the rows so far
  rows,                \* rows main has dumped of each sweeper's three reels
  \* bounds and history
  unrouted, channel,   \* queries still to be drawn, channel samples taken
  routed,              \* queries pushed, by cell
  sampled, due         \* samples of each worker, and how many precede its token

counters == <<freqQueryDistPushed, freqQueryDistCompleted>>
work     == <<jobs, cnt, qExecutedMice>>
sweep    == <<at, ddSnap, qExecSnap, DRAMResUsageSnap>>
reels    == <<dataDistReel, queryExecReel, DRAMResUsageReel>>
control  == <<running, rows>>
history  == <<unrouted, channel, routed, sampled, due>>
vars == <<pc, query, reg, counters, work, perf_stats, pcmCounters, sweep, reels,
          control, history>>

Goto(t, label) == pc' = [pc EXCEPT ![t] = label]

NoQuery == "none"
ASSUME CellsAssumption == NoQuery \notin Cells
Zero    == [c \in Cells |-> 0]
Token   == [qType |-> "token", gIdx |-> NoQuery]

Init ==
  /\ pc = [t \in Threads |-> CASE t \in Routers -> "draw"
                               [] t \in Workers -> "poll"
                               [] t \in NumaNodes -> "check"
                               [] t = main -> "sleep"]
  /\ query = [t \in Routers \cup Workers |-> NoQuery]
  /\ reg = [t \in Routers \cup Workers |-> 0]
  /\ freqQueryDistPushed = Zero
  /\ freqQueryDistCompleted = Zero
  /\ jobs = [w \in Workers |-> Zero]
  /\ cnt = [w \in Workers |-> 0]
  /\ perf_stats = [w \in Workers |-> <<>>]
  /\ qExecutedMice = [w \in Workers |-> Zero]
  /\ pcmCounters = <<>>
  /\ running = [n \in NumaNodes |-> TRUE]
  /\ at = [n \in NumaNodes |-> 1]
  /\ ddSnap = [n \in NumaNodes |-> Zero]
  /\ qExecSnap = [n \in NumaNodes |-> Zero]
  /\ DRAMResUsageSnap = 0
  /\ dataDistReel = [n \in NumaNodes |-> <<>>]
  /\ queryExecReel = [n \in NumaNodes |-> <<>>]
  /\ DRAMResUsageReel = <<>>
  /\ rows = [n \in NumaNodes |-> <<>>]
  /\ unrouted = MaxQueries
  /\ channel = 0
  /\ routed = Zero
  /\ sampled = [w \in Workers |-> Zero]
  /\ due = [w \in Workers |-> Zero]

-------------------------------------------------------------------------------
(***************************************************************************)
(* Adding one to a counter of the grid manager.  The counters are plain    *)
(* integers shared by all routers and workers: the old value is loaded and *)
(* the new one stored, and updates of others in between are lost.          *)
(***************************************************************************)
LoadPushed(r) ==
  /\ pc[r] = "loadPushed"
  /\ reg' = [reg EXCEPT ![r] = freqQueryDistPushed[query[r]]]
  /\ Goto(r, "storePushed")
  /\ UNCHANGED <<query, counters, work, perf_stats, pcmCounters, sweep, reels,
                 control, history>>

StorePushed(r) ==
  /\ pc[r] = "storePushed"
  /\ freqQueryDistPushed' = [freqQueryDistPushed EXCEPT ![query[r]] = reg[r] + 1]
  /\ reg' = [reg EXCEPT ![r] = 0]
  /\ Goto(r, "loadCompleted")
  /\ UNCHANGED <<query, freqQueryDistCompleted, work, perf_stats, pcmCounters,
                 sweep, reels, control, history>>

LoadCompleted(t) ==
  /\ pc[t] = "loadCompleted"
  /\ reg' = [reg EXCEPT ![t] = freqQueryDistCompleted[query[t]]]
  /\ Goto(t, "storeCompleted")
  /\ UNCHANGED <<query, counters, work, perf_stats, pcmCounters, sweep, reels,
                 control, history>>

StoreCompleted(t) ==
  /\ pc[t] = "storeCompleted"
  /\ freqQueryDistCompleted' = [freqQueryDistCompleted EXCEPT ![query[t]] = reg[t] + 1]
  /\ reg' = [reg EXCEPT ![t] = 0]
  /\ Goto(t, IF t \in Routers THEN "push" ELSE "count")
  /\ UNCHANGED <<query, freqQueryDistPushed, work, perf_stats, pcmCounters,
                 sweep, reels, control, history>>

-------------------------------------------------------------------------------
\* A router draws a query.  One that lies in several cells goes to any of them;
\* one that lies in none is dropped.
DrawQuery(r) ==
  /\ pc[r] = "draw"
  /\ unrouted > 0
  /\ \E c \in Cells : query' = [query EXCEPT ![r] = c]
  /\ unrouted' = unrouted - 1
  /\ Goto(r, "loadPushed")
  /\ UNCHANGED <<reg, counters, work, perf_stats, pcmCounters, sweep, reels,
                 control, channel, routed, sampled, due>>

\* glb_worker_thrds[cpuid].jobs.push(query)
PushJob(r) ==
  /\ pc[r] = "push"
  /\ jobs' = [jobs EXCEPT ![idCPU[query[r]]][query[r]] = @ + 1]
  /\ routed' = [routed EXCEPT ![query[r]] = @ + 1]
  /\ query' = [query EXCEPT ![r] = NoQuery]
  /\ Goto(r, "draw")
  /\ UNCHANGED <<reg, counters, cnt, qExecutedMice, perf_stats, pcmCounters,
                 sweep, reels, control, unrouted, channel, sampled, due>>

Router(r) ==
  \/ DrawQuery(r)     \/ LoadPushed(r) \/ StorePushed(r) \/ LoadCompleted(r)
  \/ StoreCompleted(r) \/ PushJob(r)

-------------------------------------------------------------------------------
\* A worker takes a job and executes it.  The queue is ordered by a field that
\* is never assigned, so any job may come first.
PopJob(w) ==
  /\ pc[w] = "poll"
  /\ \E c \in Cells :
       /\ jobs[w][c] > 0
       /\ jobs' = [jobs EXCEPT ![w][c] = @ - 1]
       /\ query' = [query EXCEPT ![w] = c]
  /\ cnt' = [cnt EXCEPT ![w] = @ + 1]
  /\ Goto(w, IF cnt[w] + 1 = Interval THEN "sample" ELSE "loadCompleted")
  /\ UNCHANGED <<reg, counters, qExecutedMice, perf_stats, pcmCounters, sweep,
                 reels, control, history>>

\* perf_stats.push(perf_counter): every field is set but qType.
LeaveSample(w, count) ==
  /\ pc[w] = "sample"
  /\ \E type \in UnsetType :
       perf_stats' = [perf_stats EXCEPT
                        ![w] = Append(@, [qType |-> type, gIdx |-> query[w]])]
  /\ cnt' = [cnt EXCEPT ![w] = count]
  /\ sampled' = [sampled EXCEPT ![w][query[w]] = @ + 1]
  /\ Goto(w, "loadCompleted")
  /\ UNCHANGED <<query, reg, counters, jobs, qExecutedMice, pcmCounters, sweep,
                 reels, control, unrouted, channel, routed, due>>

NeverReset(w)   == LeaveSample(w, cnt[w])
KeepCounting(w) == LeaveSample(w, Interval - 1)
PushSample(w)   == LeaveSample(w, 0)

\* Count the query, or make an entry for the first one of its cell.
SetExecuted(w, count) ==
  /\ pc[w] = "count"
  /\ qExecutedMice' = [qExecutedMice EXCEPT ![w][query[w]] = count]
  /\ query' = [query EXCEPT ![w] = NoQuery]
  /\ Goto(w, "poll")
  /\ UNCHANGED <<reg, counters, jobs, cnt, perf_stats, pcmCounters, sweep, reels,
                 control, history>>

NoFirstEntry(w) ==
  LET count == qExecutedMice[w][query[w]]
  IN  SetExecuted(w, IF count = 0 THEN 0 ELSE count + 1)
CountExecuted(w) == SetExecuted(w, qExecutedMice[w][query[w]] + 1)

Worker(w) ==
  \/ PopJob(w)         \/ PushSample(w) \/ LoadCompleted(w)
  \/ StoreCompleted(w) \/ CountExecuted(w)

-------------------------------------------------------------------------------
\* The system sweeper pushes what it measured of the memory channels, by number;
\* qType is not set.
SysSweeper ==
  /\ channel < MaxChannel
  /\ channel' = channel + 1
  /\ \E type \in UnsetType :
       pcmCounters' = Append(pcmCounters, [qType |-> type, nr |-> channel + 1])
  /\ UNCHANGED <<pc, query, reg, counters, work, perf_stats, sweep, reels,
                 control, unrouted, routed, sampled, due>>

-------------------------------------------------------------------------------
\* A core sweeper: n is its NUMA node, w the worker it has come to.
Current(n) == NUMAToWorkerCPUs[n][at[n]]
IsLast(n)  == at[n] = Len(NUMAToWorkerCPUs[n])

\* On to the next worker, or to what follows the last one.
Advance(n, label) ==
  IF IsLast(n)
    THEN Goto(n, label) /\ at' = [at EXCEPT ![n] = 1]
    ELSE pc' = pc /\ at' = [at EXCEPT ![n] = @ + 1]

\* if (!running) break
CheckRunning(n) ==
  /\ pc[n] = "check"
  /\ running[n] => Len(dataDistReel[n]) < MaxSweeps
  /\ Goto(n, IF running[n] THEN "token" ELSE "stopped")
  /\ UNCHANGED <<query, reg, counters, work, perf_stats, pcmCounters, sweep,
                 reels, control, history>>

PushToken(n) ==
  /\ pc[n] = "token"
  /\ perf_stats' = [perf_stats EXCEPT ![Current(n)] = Append(@, Token)]
  /\ due' = [due EXCEPT ![Current(n)] = sampled[Current(n)]]
  /\ Advance(n, IF n = FirstNode THEN "pcmToken" ELSE "take")
  /\ UNCHANGED <<query, reg, counters, work, pcmCounters, ddSnap, qExecSnap,
                 DRAMResUsageSnap, reels, control, unrouted, channel, routed,
                 sampled>>

PushPcmToken(n) ==
  /\ pc[n] = "pcmToken"
  /\ pcmCounters' = Append(pcmCounters, [qType |-> "token", nr |-> 0])
  /\ Goto(n, "take")
  /\ UNCHANGED <<query, reg, counters, work, perf_stats, sweep, reels, control,
                 history>>

\* One round of the loop over a worker's queue: a token or an empty queue ends
\* it, a sample stands for Interval queries of the cell of the last of them.
TakeUntil(n, ended) ==
  LET queue == perf_stats[Current(n)]
      entry == Head(queue)
  IN  /\ pc[n] = "take"
      /\ perf_stats' = [perf_stats EXCEPT
                          ![Current(n)] = IF queue = <<>> THEN @ ELSE Tail(@)]
      /\ IF ended
           THEN Advance(n, "report") /\ UNCHANGED ddSnap
           ELSE /\ ddSnap' = IF entry = Token THEN ddSnap
                             ELSE [ddSnap EXCEPT ![n][entry.gIdx] = @ + Interval]
                /\ UNCHANGED <<pc, at>>
      /\ UNCHANGED <<query, reg, counters, work, pcmCounters, qExecSnap,
                     DRAMResUsageSnap, reels, control, history>>

Empty(n)      == perf_stats[Current(n)] = <<>>
TakeAll(n)    == TakeUntil(n, Empty(n))
TakeSample(n) ==
  TakeUntil(n, Empty(n) \/ Head(perf_stats[Current(n)]).qType = "token")

ReportSamples(n) ==
  /\ pc[n] = "report"
  /\ dataDistReel' = [dataDistReel EXCEPT ![n] = Append(@, ddSnap[n])]
  /\ ddSnap' = [ddSnap EXCEPT ![n] = Zero]
  /\ Goto(n, "exec")
  /\ UNCHANGED <<query, reg, counters, work, perf_stats, pcmCounters, at,
                 qExecSnap, DRAMResUsageSnap, queryExecReel, DRAMResUsageReel,
                 control, history>>

\* The executed queries of one worker, counted since the program started.
TakeExecuted(n) ==
  /\ pc[n] = "exec"
  /\ qExecSnap' = [qExecSnap EXCEPT
                     ![n] = [c \in Cells |-> @[c] + qExecutedMice[Current(n)][c]]]
  /\ Advance(n, "reportExec")
  /\ UNCHANGED <<query, reg, counters, work, perf_stats, pcmCounters, ddSnap,
                 DRAMResUsageSnap, reels, control, history>>

ReportExecuted(n) ==
  /\ pc[n] = "reportExec"
  /\ queryExecReel' = [queryExecReel EXCEPT ![n] = Append(@, qExecSnap[n])]
  /\ qExecSnap' = [qExecSnap EXCEPT ![n] = Zero]
  /\ Goto(n, IF n = FirstNode THEN "takePcm" ELSE "check")
  /\ UNCHANGED <<query, reg, counters, work, perf_stats, pcmCounters, at, ddSnap,
                 DRAMResUsageSnap, dataDistReel, DRAMResUsageReel, control, history>>

\* The last sample before the token; 0 stands for a row that was never filled.
TakePcm(n) ==
  /\ pc[n] = "takePcm"
  /\ pcmCounters' = IF pcmCounters = <<>> THEN <<>> ELSE Tail(pcmCounters)
  /\ IF pcmCounters = <<>> \/ Head(pcmCounters).qType = "token"
       THEN Goto(n, "reportPcm") /\ UNCHANGED DRAMResUsageSnap
       ELSE DRAMResUsageSnap' = Head(pcmCounters).nr /\ UNCHANGED pc
  /\ UNCHANGED <<query, reg, counters, work, perf_stats, at, ddSnap, qExecSnap,
                 reels, control, history>>

ReportPcm(n) ==
  /\ pc[n] = "reportPcm"
  /\ DRAMResUsageReel' = Append(DRAMResUsageReel, DRAMResUsageSnap)
  /\ DRAMResUsageSnap' = 0
  /\ Goto(n, "check")
  /\ UNCHANGED <<query, reg, counters, work, perf_stats, pcmCounters, at, ddSnap,
                 qExecSnap, dataDistReel, queryExecReel, control, history>>

Sweeper(n) ==
  \/ CheckRunning(n) \/ PushToken(n) \/ PushPcmToken(n) \/ TakeSample(n)
  \/ ReportSamples(n) \/ TakeExecuted(n) \/ ReportExecuted(n) \/ TakePcm(n)
  \/ ReportPcm(n)

-------------------------------------------------------------------------------
\* main: terminate_ncoresweeper_threads, dump_ncoresweeper_threads, exit.
Terminate(n) ==
  /\ pc[main] = "sleep"
  /\ running[n]
  /\ running' = [running EXCEPT ![n] = FALSE]
  /\ UNCHANGED <<pc, query, reg, counters, work, perf_stats, pcmCounters, sweep,
                 reels, rows, history>>

BeginDumpIf(stopped) ==
  /\ pc[main] = "sleep"
  /\ stopped
  /\ Goto(main, "dump")
  /\ UNCHANGED <<query, reg, counters, work, perf_stats, pcmCounters, sweep,
                 reels, control, history>>

BeginDumpAnyTime == BeginDumpIf(TRUE)
BeginDump == BeginDumpIf(\A n \in NumaNodes : ~running[n])

\* One loop over one reel of a sweeper: memory channels, samples, executed
\* queries.  The sweepers are dumped one after the other, in any order.
DumpReel(n) ==
  /\ pc[main] = "dump"
  /\ Len(rows[n]) < 3
  /\ \A m \in NumaNodes \ {n} : Len(rows[m]) \in {0, 3}
  /\ rows' = [rows EXCEPT ![n] = Append(@,
       CASE Len(@) = 0 -> IF n = FirstNode THEN Len(DRAMResUsageReel) ELSE 0
         [] Len(@) = 1 -> Len(dataDistReel[n])
         [] Len(@) = 2 -> Len(queryExecReel[n]))]
  /\ UNCHANGED <<pc, query, reg, counters, work, perf_stats, pcmCounters, sweep,
                 reels, running, history>>

\* exit(0) ends all threads wherever they are.
Exit ==
  /\ pc[main] = "dump"
  /\ \A n \in NumaNodes : Len(rows[n]) = 3
  /\ Goto(main, "exited")
  /\ UNCHANGED <<query, reg, counters, work, perf_stats, pcmCounters, sweep,
                 reels, control, history>>

Main ==
  \/ \E n \in NumaNodes : Terminate(n) \/ DumpReel(n)
  \/ BeginDump
  \/ Exit

Exited == pc[main] = "exited" /\ UNCHANGED vars

Next ==
  \/ /\ pc[main] # "exited"
     /\ \/ \E r \in Routers : Router(r)
        \/ \E w \in Workers : Worker(w)
        \/ \E n \in NumaNodes : Sweeper(n)
        \/ SysSweeper
        \/ Main
  \/ Exited

Spec == Init /\ [][Next]_vars
-------------------------------------------------------------------------------
Label == {"draw", "loadPushed", "storePushed", "loadCompleted", "storeCompleted",
          "push", "poll", "sample", "count", "check", "token", "pcmToken", "take",
          "report", "exec", "reportExec", "takePcm", "reportPcm", "stopped",
          "sleep", "dump", "exited"}

PerCell == [Cells -> Nat]

TypeOK ==
  /\ pc \in [Threads -> Label]
  /\ query \in [Routers \cup Workers -> Cells \cup {NoQuery}]
  /\ reg \in [Routers \cup Workers -> Nat]
  /\ freqQueryDistPushed \in PerCell
  /\ freqQueryDistCompleted \in PerCell
  /\ jobs \in [Workers -> PerCell]
  /\ cnt \in [Workers -> 0..Interval]
  /\ perf_stats \in [Workers ->
       Seq([qType : {"sample", "token"}, gIdx : Cells \cup {NoQuery}])]
  /\ qExecutedMice \in [Workers -> PerCell]
  /\ pcmCounters \in Seq([qType : {"sample", "token"}, nr : Nat])
  /\ running \in [NumaNodes -> BOOLEAN]
  /\ at \in [NumaNodes -> Nat \ {0}]
  /\ ddSnap \in [NumaNodes -> PerCell]
  /\ qExecSnap \in [NumaNodes -> PerCell]
  /\ DRAMResUsageSnap \in Nat
  /\ dataDistReel \in [NumaNodes -> Seq(PerCell)]
  /\ queryExecReel \in [NumaNodes -> Seq(PerCell)]
  /\ DRAMResUsageReel \in Seq(Nat)
  /\ rows \in [NumaNodes -> Seq(Nat)]
  /\ unrouted \in Nat
  /\ channel \in Nat
  /\ routed \in PerCell
  /\ sampled \in [Workers -> PerCell]
  /\ due \in [Workers -> PerCell]

\* The queries of cell c that the first i rows of a sweeper's data view stand for.
Sampled(n, i, c) == SumFunctionOnSet([j \in 1..i |-> dataDistReel[n][j][c]], 1..i)
\* The samples of cell c that preceded the last tokens of node n.
Due(n, c) == SumFunctionOnSet([w \in WorkersOf(n) |-> due[w][c]], WorkersOf(n))

(***************************************************************************)
(* Every query a router has pushed is in a queue, in the hands of one      *)
(* worker, or counted as executed by exactly one.                          *)
(***************************************************************************)
InHand(c) == Cardinality({w \in Workers : query[w] = c})
NoQueryLost ==
  \A c \in Cells :
    routed[c] = InHand(c)
                + SumFunction([w \in Workers |-> jobs[w][c] + qExecutedMice[w][c]])

(***************************************************************************)
(* The counters of the grid manager lose updates, but never run ahead of   *)
(* what happened: a stale value that is stored is never too large.         *)
(***************************************************************************)
CountersNeverAhead ==
  \A c \in Cells :
    LET handed   == Cardinality({r \in Routers : query[r] = c})
        executed == SumFunction([w \in Workers |-> qExecutedMice[w][c]])
    IN  /\ freqQueryDistPushed[c] <= routed[c] + handed
        /\ freqQueryDistCompleted[c] <= routed[c] + handed + executed + InHand(c)

(***************************************************************************)
(* The exact counts add up and the racing ones stay behind them, in every  *)
(* interleaving of routers and workers.                                    *)
(***************************************************************************)
QueriesAccountedFor == NoQueryLost /\ CountersNeverAhead

(***************************************************************************)
(* "QueryDistribution: Outstanding" (GridManager::printQueryDistOstanding) *)
(* is pushed - completed: no more queries are completed than were pushed.  *)
(***************************************************************************)
NoneOutstandingTwice ==
  \A c \in Cells : freqQueryDistCompleted[c] <= freqQueryDistPushed[c]

(***************************************************************************)
(* The rows of the data view cut the samples of each worker into           *)
(* consecutive windows: once a row is reported, the rows together hold     *)
(* each sample that preceded the node's last tokens, once, and no sample   *)
(* pushed since, however fast the workers go on sampling.                  *)
(***************************************************************************)
WindowExact ==
  \A n \in NumaNodes :
    pc[n] \notin {"token", "pcmToken", "take", "report"} =>
      \A c \in Cells :
        Sampled(n, Len(dataDistReel[n]), c) = Interval * Due(n, c)

(***************************************************************************)
(* Even when a sample is taken for a token no sample is reported twice or  *)
(* ahead of its token.                                                     *)
(***************************************************************************)
WindowNeverAhead ==
  \A n \in NumaNodes, c \in Cells :
    Sampled(n, Len(dataDistReel[n]), c) + ddSnap[n][c] <= Interval * Due(n, c)

(***************************************************************************)
(* The token ends the window it was pushed for: between two sweeps no      *)
(* token is left in a queue (TPM.cc: "First, push the token to the worker  *)
(* cpus to get the DataView").                                             *)
(***************************************************************************)
NoStaleToken ==
  \A n \in NumaNodes :
    pc[n] \in {"check", "stopped"} =>
      \A w \in WorkersOf(n) :
        \A i \in DOMAIN perf_stats[w] : perf_stats[w][i] # Token

(***************************************************************************)
(* Row by row the two views of a sweep fit together: the queries the data  *)
(* view stands for up to a row have been executed by the time the same     *)
(* sweep counts the executed ones, except one per worker that is sampled   *)
(* before it is counted.                                                   *)
(***************************************************************************)
ViewsAgree ==
  \A n \in NumaNodes : \A i \in DOMAIN queryExecReel[n] :
    SumFunction([c \in Cells |-> Sampled(n, i, c)])
      <= SumFunction(queryExecReel[n][i]) + Cardinality(WorkersOf(n))

(***************************************************************************)
(* main dumps without waiting for the sweepers to stop.  What it dumps of  *)
(* the reels of one sweeper still differs by one row at most, because a    *)
(* sweeper that was told to stop begins no other sweep.                    *)
(***************************************************************************)
DumpedRowsAgree ==
  \A n \in NumaNodes : \A i, j \in DOMAIN rows[n] :
    n = FirstNode \/ (i > 1 /\ j > 1) => rows[n][i] <= rows[n][j] + 1
===============================================================================
