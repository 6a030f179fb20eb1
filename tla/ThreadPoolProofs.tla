--------------------------- MODULE ThreadPoolProofs ---------------------------
(***************************************************************************)
(* Proofs about ThreadPool, for any number of routers, workers, NUMA nodes *)
(* and cells and any bounds.                                               *)
(*                                                                         *)
(* The rows main dumps of a sweeper's reels are read at different times,   *)
(* while the sweeper may still run.  What holds them together is that      *)
(* every sweeper was told to stop before the dump began: it completes the  *)
(* sweep it is in, so each reel has, whenever it is read, the rows it will *)
(* have in the end or one less (Dumped).                                   *)
(*                                                                         *)
(* Then what the counts add up to (FiniteSums).  Queries are conserved,    *)
(* and a count that loses updates stays behind what happened because what  *)
(* happened only grows (CountInv).                                         *)
(*                                                                         *)
(* Last what the rows of a sweeper's two views hold.  The data view holds  *)
(* the samples before the token of their sweep, whoever goes on sampling,  *)
(* because a worker pushes behind the token and a sweeper takes from the   *)
(* front up to it (Window).  The view of executed queries, counted after   *)
(* that, covers them but for one query per worker, because a worker takes  *)
(* a sample of a query it is about to execute and counts every query it    *)
(* executes (Settled, View).                                               *)
(***************************************************************************)
EXTENDS ThreadPool, FiniteSums

RouterLabels  == {"draw", "loadPushed", "storePushed", "loadCompleted", "storeCompleted",
                  "push"}
WorkerLabels  == {"poll", "sample", "loadCompleted", "storeCompleted", "count"}
SweeperLabels == {"check", "token", "pcmToken", "take", "report", "exec", "reportExec",
                  "takePcm", "reportPcm", "stopped"}
MainLabels    == {"sleep", "dump", "exited"}

\* Each thread is where threads of its kind are, with a query in its hand if it is
\* past drawing or taking one; a worker's count stays below the interval.
Located ==
  /\ \A r \in Routers : /\ pc[r] \in RouterLabels
                        /\ pc[r] # "draw" => query[r] \in Cells
  /\ \A w \in Workers : /\ pc[w] \in WorkerLabels
                        /\ pc[w] # "poll" => query[w] \in Cells
                        /\ pc[w] # "sample" => cnt[w] < Interval
  /\ \A n \in NumaNodes : /\ pc[n] \in SweeperLabels
                          /\ at[n] \in 1..Len(NUMAToWorkerCPUs[n])
  /\ pc[main] \in MainLabels

\* How far the reels of a sweeper are apart, by where it stands.
InStep(n) ==
  /\ Len(dataDistReel[n]) =
       Len(queryExecReel[n]) + IF pc[n] \in {"exec", "reportExec"} THEN 1 ELSE 0
  /\ n = FirstNode =>
       Len(dataDistReel[n]) =
         Len(DRAMResUsageReel)
           + IF pc[n] \in {"exec", "reportExec", "takePcm", "reportPcm"} THEN 1 ELSE 0
  /\ n # FirstNode => pc[n] \notin {"pcmToken", "takePcm", "reportPcm"}

\* The rows a sweeper will have when it has completed the sweep it is in.
Final(n) ==
  Len(dataDistReel[n]) + IF pc[n] \in {"token", "pcmToken", "take", "report"} THEN 1 ELSE 0

Dumped(n) ==
  /\ pc[main] # "sleep" => ~running[n]
  /\ pc[main] = "sleep" => rows[n] = <<>>
  /\ \A i \in 1..Len(rows[n]) :
       n = FirstNode \/ i > 1 => rows[n][i] <= Final(n) /\ Final(n) <= rows[n][i] + 1

PoolInv ==
  /\ TypeOK /\ Located
  /\ \A n \in NumaNodes : InStep(n) /\ Dumped(n)

-------------------------------------------------------------------------------
LEMMA GoingTo ==
  ASSUME TypeOK, NEW t \in Threads, NEW label \in Label, Goto(t, label)
  PROVE  /\ pc' \in [Threads -> Label] /\ pc'[t] = label
         /\ \A s \in Threads \ {t} : pc'[s] = pc[s]
BY DEF TypeOK, Goto

\* Something is pushed to a queue, or to a reel, of one of several.
LEMMA Appended ==
  ASSUME NEW S, NEW D, NEW f \in [D -> Seq(S)], NEW d \in D, NEW x \in S,
         NEW g, g = [f EXCEPT ![d] = Append(@, x)]
  PROVE  /\ g \in [D -> Seq(S)]
         /\ Len(g[d]) = Len(f[d]) + 1
         /\ \A e \in D \ {d} : g[e] = f[e]
OBVIOUS

\* A step of a router or a worker.
LEMMA SweepersUnmoved ==
  ASSUME PoolInv, NEW t \in Routers \cup Workers,
         \A s \in Threads \ {t} : pc'[s] = pc[s],
         \A s \in (Routers \cup Workers) \ {t} : query'[s] = query[s],
         \A w \in Workers \ {t} : cnt'[w] = cnt[w],
         t \in Routers => /\ pc'[t] \in RouterLabels
                          /\ pc'[t] # "draw" => query'[t] \in Cells,
         t \in Workers => /\ pc'[t] \in WorkerLabels
                          /\ pc'[t] # "poll" => query'[t] \in Cells
                          /\ pc'[t] # "sample" => cnt'[t] < Interval,
         UNCHANGED <<at, reels, control>>, TypeOK'
  PROVE  PoolInv'
<1>1. \A s \in NumaNodes \cup {main} : pc'[s] = pc[s]
  BY ThreadsAssumption DEF Threads
<1>2. Located'
  BY <1>1, ThreadsAssumption DEF PoolInv, Located, Threads
<1>3. \A n \in NumaNodes : InStep(n)' /\ Dumped(n)'
  BY <1>1 DEF PoolInv, InStep, Dumped, Final, reels, control
<1>4. QED
  BY <1>2, <1>3 DEF PoolInv

LEMMA CompletedStep ==
  ASSUME PoolInv, NEW t \in Routers \cup Workers, LoadCompleted(t) \/ StoreCompleted(t)
  PROVE  PoolInv'
<1>1. t \in Threads /\ TypeOK /\ Located
  BY DEF Threads, PoolInv
<1>2. query[t] \in Cells
  BY <1>1 DEF LoadCompleted, StoreCompleted, Located
<1>3. CASE LoadCompleted(t)
  <2>1. /\ pc' \in [Threads -> Label] /\ pc'[t] = "storeCompleted"
        /\ \A s \in Threads \ {t} : pc'[s] = pc[s]
    BY <1>1, <1>3, GoingTo DEF LoadCompleted, Label
  <2>2. reg' \in [Routers \cup Workers -> Nat]
    BY <1>1, <1>2, <1>3 DEF LoadCompleted, TypeOK, PerCell
  <2>3. TypeOK'
    BY <1>1, <1>3, <2>1, <2>2 DEF LoadCompleted, TypeOK, counters, work, sweep, reels, control, history
  <2>4. QED
    BY <1>1, <1>2, <1>3, <2>1, <2>3, SweepersUnmoved
       DEF LoadCompleted, Located, RouterLabels, WorkerLabels, work, sweep
<1>4. CASE StoreCompleted(t)
  <2>1. PICK label \in {"push", "count"} :
          Goto(t, label) /\ label = IF t \in Routers THEN "push" ELSE "count"
    BY <1>4 DEF StoreCompleted
  <2>2. /\ pc' \in [Threads -> Label] /\ pc'[t] = label
        /\ \A s \in Threads \ {t} : pc'[s] = pc[s]
    BY <1>1, <2>1, GoingTo DEF Label
  <2>3. reg' \in [Routers \cup Workers -> Nat] /\ freqQueryDistCompleted' \in PerCell
    BY <1>1, <1>2, <1>4 DEF StoreCompleted, TypeOK, PerCell
  <2>4. TypeOK'
    BY <1>1, <1>4, <2>2, <2>3 DEF StoreCompleted, TypeOK, work, sweep, reels, control, history
  <2>5. QED
    BY <1>1, <1>2, <1>4, <2>1, <2>2, <2>4, SweepersUnmoved, ThreadsAssumption
       DEF StoreCompleted, Located, RouterLabels, WorkerLabels, work, sweep
<1>5. QED
  BY <1>3, <1>4

LEMMA RouterStep ==
  ASSUME PoolInv, NEW r \in Routers, Router(r)
  PROVE  PoolInv'
<1>1. r \in Threads /\ r \notin Workers /\ TypeOK /\ Located
  BY ThreadsAssumption DEF Threads, PoolInv
<1> USE <1>1
<1>2. CASE DrawQuery(r)
  <2>1. PICK c \in Cells : query' = [query EXCEPT ![r] = c]
    BY <1>2 DEF DrawQuery
  <2>2. /\ pc' \in [Threads -> Label] /\ pc'[r] = "loadPushed"
        /\ \A s \in Threads \ {r} : pc'[s] = pc[s]
    BY <1>2, GoingTo DEF DrawQuery, Label
  <2>3. /\ query' \in [Routers \cup Workers -> Cells \cup {NoQuery}] /\ query'[r] = c
        /\ \A s \in (Routers \cup Workers) \ {r} : query'[s] = query[s]
    BY <2>1 DEF TypeOK
  <2>4. unrouted' \in Nat
    BY <1>2 DEF DrawQuery, TypeOK
  <2>5. TypeOK'
    BY <1>2, <2>2, <2>3, <2>4 DEF DrawQuery, TypeOK, counters, work, sweep, reels, control
  <2>6. QED
    BY <1>2, <2>2, <2>3, <2>5, SweepersUnmoved DEF DrawQuery, RouterLabels, work, sweep
<1>3. CASE LoadPushed(r)
  <2>1. /\ pc' \in [Threads -> Label] /\ pc'[r] = "storePushed"
        /\ \A s \in Threads \ {r} : pc'[s] = pc[s]
    BY <1>3, GoingTo DEF LoadPushed, Label
  <2>2. query[r] \in Cells
    BY <1>3 DEF LoadPushed, Located
  <2>3. reg' \in [Routers \cup Workers -> Nat]
    BY <1>3, <2>2 DEF LoadPushed, TypeOK, PerCell
  <2>4. TypeOK'
    BY <1>3, <2>1, <2>3 DEF LoadPushed, TypeOK, counters, work, sweep, reels, control, history
  <2>5. QED
    BY <1>3, <2>1, <2>2, <2>4, SweepersUnmoved DEF LoadPushed, RouterLabels, work, sweep
<1>4. CASE StorePushed(r)
  <2>1. /\ pc' \in [Threads -> Label] /\ pc'[r] = "loadCompleted"
        /\ \A s \in Threads \ {r} : pc'[s] = pc[s]
    BY <1>4, GoingTo DEF StorePushed, Label
  <2>2. query[r] \in Cells
    BY <1>4 DEF StorePushed, Located
  <2>3. reg' \in [Routers \cup Workers -> Nat] /\ freqQueryDistPushed' \in PerCell
    BY <1>4, <2>2 DEF StorePushed, TypeOK, PerCell
  <2>4. TypeOK'
    BY <1>4, <2>1, <2>3 DEF StorePushed, TypeOK, work, sweep, reels, control, history
  <2>5. QED
    BY <1>4, <2>1, <2>2, <2>4, SweepersUnmoved DEF StorePushed, RouterLabels, work, sweep
<1>5. CASE PushJob(r)
  <2>1. /\ pc' \in [Threads -> Label] /\ pc'[r] = "draw"
        /\ \A s \in Threads \ {r} : pc'[s] = pc[s]
    BY <1>5, GoingTo DEF PushJob, Label
  <2>2. query[r] \in Cells /\ idCPU[query[r]] \in Workers
    BY <1>5, PlacementAssumption DEF PushJob, Located
  <2>3. jobs' \in [Workers -> PerCell]
    <3>1. PICK w \in Workers, c \in Cells : jobs' = [jobs EXCEPT ![w][c] = @ + 1]
      BY <1>5, <2>2 DEF PushJob
    <3>2. jobs[w][c] + 1 \in Nat
      BY DEF TypeOK, PerCell
    <3>3. QED
      BY <3>1, <3>2 DEF TypeOK, PerCell
  <2>4. routed' \in PerCell
    <3>1. PICK c \in Cells : routed' = [routed EXCEPT ![c] = @ + 1]
      BY <1>5, <2>2 DEF PushJob
    <3>2. routed \in [Cells -> Nat]
      BY DEF TypeOK, PerCell
    <3>3. QED
      BY <3>1, <3>2 DEF PerCell
  <2>5. /\ query' \in [Routers \cup Workers -> Cells \cup {NoQuery}]
        /\ \A s \in (Routers \cup Workers) \ {r} : query'[s] = query[s]
    BY <1>5 DEF PushJob, TypeOK
  <2>6. TypeOK'
    BY <1>5, <2>1, <2>3, <2>4, <2>5 DEF PushJob, TypeOK, counters, sweep, reels, control
  <2>7. QED
    BY <1>5, <2>1, <2>5, <2>6, SweepersUnmoved DEF PushJob, RouterLabels, sweep
<1>6. QED
  BY <1>2, <1>3, <1>4, <1>5, CompletedStep DEF Router

LEMMA WorkerStep ==
  ASSUME PoolInv, NEW w \in Workers, Worker(w)
  PROVE  PoolInv'
<1>1. w \in Threads /\ w \notin Routers /\ TypeOK /\ Located /\ cnt[w] \in 0..Interval
  BY ThreadsAssumption DEF Threads, PoolInv, TypeOK
<1> USE <1>1
<1>2. CASE PopJob(w)
  <2>1. PICK c \in Cells : /\ jobs[w][c] > 0 /\ jobs' = [jobs EXCEPT ![w][c] = @ - 1]
                           /\ query' = [query EXCEPT ![w] = c]
    BY <1>2 DEF PopJob
  <2>2. cnt[w] < Interval
    BY <1>2 DEF PopJob, Located
  <2>3. PICK label \in {"sample", "loadCompleted"} :
          Goto(w, label) /\ label = IF cnt[w] + 1 = Interval THEN "sample" ELSE "loadCompleted"
    BY <1>2 DEF PopJob
  <2>4. /\ pc' \in [Threads -> Label] /\ pc'[w] = label
        /\ \A s \in Threads \ {w} : pc'[s] = pc[s]
    BY <2>3, GoingTo DEF Label
  <2>5. /\ query' \in [Routers \cup Workers -> Cells \cup {NoQuery}] /\ query'[w] = c
        /\ \A s \in (Routers \cup Workers) \ {w} : query'[s] = query[s]
    BY <2>1 DEF TypeOK
  <2>6. jobs' \in [Workers -> PerCell]
    <3>1. jobs[w][c] \in Nat
      BY DEF TypeOK, PerCell
    <3>2. jobs[w][c] - 1 \in Nat
      BY <2>1, <3>1
    <3>3. QED
      BY <2>1, <3>2 DEF TypeOK, PerCell
  <2>7. /\ cnt' \in [Workers -> 0..Interval] /\ cnt'[w] = cnt[w] + 1
        /\ \A v \in Workers \ {w} : cnt'[v] = cnt[v]
    <3>1. cnt[w] + 1 \in 0..Interval
      BY <2>2, IntervalAssumption
    <3>2. cnt' = [cnt EXCEPT ![w] = cnt[w] + 1]
      BY <1>2 DEF PopJob
    <3>3. QED
      BY <3>1, <3>2 DEF TypeOK
  <2>8. TypeOK'
    BY <1>2, <2>4, <2>5, <2>6, <2>7 DEF PopJob, TypeOK, counters, sweep, reels, control, history
  <2>9. pc'[w] # "sample" => cnt'[w] < Interval
    BY <2>2, <2>3, <2>4, <2>7, IntervalAssumption
  <2>10. QED
    BY <1>2, <2>4, <2>5, <2>7, <2>8, <2>9, SweepersUnmoved DEF PopJob, WorkerLabels, sweep
<1>3. CASE PushSample(w)
  <2>1. PICK type \in UnsetType :
          perf_stats' = [perf_stats EXCEPT ![w] = Append(@, [qType |-> type, gIdx |-> query[w]])]
    BY <1>3 DEF PushSample, LeaveSample
  <2>2. /\ pc' \in [Threads -> Label] /\ pc'[w] = "loadCompleted"
        /\ \A s \in Threads \ {w} : pc'[s] = pc[s]
    BY <1>3, GoingTo DEF PushSample, LeaveSample, Label
  <2>3. query[w] \in Cells
    BY <1>3 DEF PushSample, LeaveSample, Located
  <2>4. perf_stats' \in [Workers ->
          Seq([qType : {"sample", "token"}, gIdx : Cells \cup {NoQuery}])]
    <3>1. [qType |-> type, gIdx |-> query[w]]
            \in [qType : {"sample", "token"}, gIdx : Cells \cup {NoQuery}]
      BY <2>3, UnsetAssumption
    <3>2. perf_stats \in [Workers ->
             Seq([qType : {"sample", "token"}, gIdx : Cells \cup {NoQuery}])]
      BY DEF TypeOK
    <3> DEFINE entry == [qType |-> type, gIdx |-> query[w]]
    <3> HIDE DEF entry
    <3>3. entry \in [qType : {"sample", "token"}, gIdx : Cells \cup {NoQuery}]
      BY <3>1 DEF entry
    <3>4. perf_stats' = [perf_stats EXCEPT ![w] = Append(@, entry)]
      BY <2>1 DEF entry
    <3>5. QED
      BY <3>2, <3>3, <3>4, Appended
  <2>5. /\ cnt' \in [Workers -> 0..Interval] /\ cnt'[w] = 0
        /\ \A v \in Workers \ {w} : cnt'[v] = cnt[v]
    BY <1>3, IntervalAssumption DEF PushSample, LeaveSample, TypeOK
  <2>6. sampled' \in [Workers -> PerCell]
    BY <1>3, <2>3, SMTT(30) DEF PushSample, LeaveSample, TypeOK, PerCell
  <2>7. TypeOK'
    BY <1>3, <2>2, <2>4, <2>5, <2>6
       DEF PushSample, LeaveSample, TypeOK, counters, sweep, reels, control
  <2>8. QED
    BY <1>3, <2>2, <2>3, <2>5, <2>7, SweepersUnmoved, IntervalAssumption
       DEF PushSample, LeaveSample, WorkerLabels, sweep
<1>4. CASE CountExecuted(w)
  <2>1. /\ pc' \in [Threads -> Label] /\ pc'[w] = "poll"
        /\ \A s \in Threads \ {w} : pc'[s] = pc[s]
    BY <1>4, GoingTo DEF CountExecuted, SetExecuted, Label
  <2>2. query[w] \in Cells /\ cnt[w] < Interval
    BY <1>4 DEF CountExecuted, SetExecuted, Located
  <2>3. qExecutedMice' \in [Workers -> PerCell]
    BY <1>4, <2>2 DEF CountExecuted, SetExecuted, TypeOK, PerCell
  <2>4. /\ query' \in [Routers \cup Workers -> Cells \cup {NoQuery}]
        /\ \A s \in (Routers \cup Workers) \ {w} : query'[s] = query[s]
    BY <1>4 DEF CountExecuted, SetExecuted, TypeOK
  <2>5. TypeOK'
    BY <1>4, <2>1, <2>3, <2>4
       DEF CountExecuted, SetExecuted, TypeOK, counters, sweep, reels, control, history
  <2>6. QED
    BY <1>4, <2>1, <2>2, <2>4, <2>5, SweepersUnmoved
       DEF CountExecuted, SetExecuted, WorkerLabels, sweep
<1>5. QED
  BY <1>2, <1>3, <1>4, CompletedStep DEF Worker

-------------------------------------------------------------------------------
\* A step of a core sweeper that leaves the other sweepers' reels alone.
LEMMA SweeperMoved ==
  ASSUME PoolInv, NEW n \in NumaNodes,
         \A s \in Threads \ {n} : pc'[s] = pc[s],
         pc'[n] \in SweeperLabels,
         at'[n] \in 1..Len(NUMAToWorkerCPUs[n]),
         \A m \in NumaNodes \ {n} : /\ at'[m] = at[m]
                                    /\ dataDistReel'[m] = dataDistReel[m]
                                    /\ queryExecReel'[m] = queryExecReel[m],
         n # FirstNode => UNCHANGED DRAMResUsageReel,
         UNCHANGED <<query, cnt, control>>, TypeOK',
         InStep(n)', Final(n)' = Final(n) \/ running[n]
  PROVE  PoolInv'
<1>1. \A s \in Routers \cup Workers \cup {main} : pc'[s] = pc[s]
  BY ThreadsAssumption DEF Threads
<1>2. \A m \in NumaNodes \ {n} : pc'[m] = pc[m]
  BY DEF Threads
<1>3. Located'
  BY <1>1, <1>2 DEF PoolInv, Located
<1>4. \A m \in NumaNodes \ {n} : InStep(m)'
  BY <1>2, NodesAssumption DEF PoolInv, InStep
<1>5. \A m \in NumaNodes \ {n} : Dumped(m)'
  BY <1>1, <1>2 DEF PoolInv, Dumped, Final, control
<1>6. Dumped(n)'
  <2>1. Dumped(n) /\ rows' = rows /\ running' = running /\ pc'[main] = pc[main]
    BY <1>1 DEF PoolInv, control
  <2>2. CASE Final(n)' = Final(n)
    BY <2>1, <2>2 DEF Dumped
  <2>3. CASE running[n]
    BY <2>1, <2>3 DEF Dumped
  <2>4. QED
    BY <2>2, <2>3
<1>7. QED
  BY <1>3, <1>4, <1>5, <1>6 DEF PoolInv

LEMMA CurrentIsWorker ==
  ASSUME Located, NEW n \in NumaNodes
  PROVE  Current(n) \in Workers /\ Len(NUMAToWorkerCPUs[n]) \in Nat \ {0}
<1>1. at[n] \in 1..Len(NUMAToWorkerCPUs[n]) /\ NUMAToWorkerCPUs[n] \in Seq(WorkersOf(n))
      /\ NUMAToWorkerCPUs[n] # <<>>
  BY NodesAssumption DEF Located
<1>2. Current(n) \in WorkersOf(n)
  BY <1>1 DEF Current
<1>3. QED
  BY <1>1, <1>2 DEF Workers

LEMMA Advanced ==
  ASSUME TypeOK, Located, NEW n \in NumaNodes, NEW label \in Label, Advance(n, label)
  PROVE  /\ pc' \in [Threads -> Label] /\ pc'[n] \in {pc[n], label}
         /\ \A s \in Threads \ {n} : pc'[s] = pc[s]
         /\ at' \in [NumaNodes -> Nat \ {0}]
         /\ at'[n] \in 1..Len(NUMAToWorkerCPUs[n])
         /\ \A m \in NumaNodes \ {n} : at'[m] = at[m]
<1>1. Len(NUMAToWorkerCPUs[n]) \in Nat \ {0} /\ at[n] \in 1..Len(NUMAToWorkerCPUs[n])
  BY CurrentIsWorker DEF Located
<1>2. CASE IsLast(n)
  <2>1. Goto(n, label) /\ at' = [at EXCEPT ![n] = 1]
    BY <1>2 DEF Advance
  <2>2. n \in Threads
    BY DEF Threads
  <2>3. /\ pc' \in [Threads -> Label] /\ pc'[n] = label
        /\ \A s \in Threads \ {n} : pc'[s] = pc[s]
    BY <2>1, <2>2, GoingTo
  <2>4. /\ at' \in [NumaNodes -> Nat \ {0}] /\ at'[n] = 1
        /\ \A m \in NumaNodes \ {n} : at'[m] = at[m]
    BY <2>1 DEF TypeOK
  <2>5. QED
    BY <1>1, <2>3, <2>4
<1>3. CASE ~IsLast(n)
  <2>1. pc' = pc /\ at' = [at EXCEPT ![n] = at[n] + 1]
    BY <1>3 DEF Advance
  <2>2. at[n] + 1 \in 1..Len(NUMAToWorkerCPUs[n])
    BY <1>1, <1>3 DEF IsLast
  <2>3. at[n] + 1 \in Nat \ {0}
    BY <1>1
  <2>4. /\ at' \in [NumaNodes -> Nat \ {0}] /\ at'[n] = at[n] + 1
        /\ \A m \in NumaNodes \ {n} : at'[m] = at[m]
    BY <2>1, <2>3 DEF TypeOK
  <2>5. QED
    BY <2>1, <2>2, <2>4 DEF TypeOK
<1>4. QED
  BY <1>2, <1>3

LEMMA SweeperStep ==
  ASSUME PoolInv, NEW n \in NumaNodes, Sweeper(n)
  PROVE  PoolInv'
<1>1. /\ n \in Threads /\ TypeOK /\ Located /\ InStep(n)
      /\ at[n] \in 1..Len(NUMAToWorkerCPUs[n]) /\ Current(n) \in Workers
      /\ Len(dataDistReel[n]) \in Nat /\ Len(queryExecReel[n]) \in Nat
      /\ Len(DRAMResUsageReel) \in Nat
  <2>1. n \in Threads /\ TypeOK /\ Located /\ InStep(n)
    BY DEF Threads, PoolInv
  <2>2. at[n] \in 1..Len(NUMAToWorkerCPUs[n]) /\ Current(n) \in Workers
    BY <2>1, CurrentIsWorker DEF Located
  <2>3. Len(dataDistReel[n]) \in Nat /\ Len(queryExecReel[n]) \in Nat
    <3>1. dataDistReel[n] \in Seq(PerCell) /\ queryExecReel[n] \in Seq(PerCell)
      BY <2>1 DEF TypeOK
    <3>2. QED
      BY <3>1
  <2>4. Len(DRAMResUsageReel) \in Nat
    BY <2>1 DEF TypeOK
  <2>5. QED
    BY <2>1, <2>2, <2>3, <2>4
<1> USE <1>1
<1>2. CASE CheckRunning(n)
  <2>1. PICK label \in {"token", "stopped"} :
          Goto(n, label) /\ label = IF running[n] THEN "token" ELSE "stopped"
    BY <1>2 DEF CheckRunning
  <2>2. /\ pc' \in [Threads -> Label] /\ pc'[n] = label
        /\ \A s \in Threads \ {n} : pc'[s] = pc[s]
    BY <2>1, GoingTo DEF Label
  <2>3. TypeOK'
    BY <1>2, <2>2 DEF CheckRunning, TypeOK, counters, work, sweep, reels, control, history
  <2>4. InStep(n)'
    BY <1>2, <2>2 DEF CheckRunning, InStep, reels
  <2>5. Final(n)' = Final(n) \/ running[n]
    BY <1>2, <2>1, <2>2 DEF CheckRunning, Final, reels
  <2>6. QED
    BY <1>2, <2>2, <2>3, <2>4, <2>5, SweeperMoved
       DEF CheckRunning, SweeperLabels, work, sweep, reels
<1>3. CASE PushToken(n)
  <2>1. PICK label \in {"pcmToken", "take"} :
          Advance(n, label) /\ label = IF n = FirstNode THEN "pcmToken" ELSE "take"
    BY <1>3 DEF PushToken
  <2>2. /\ pc' \in [Threads -> Label] /\ pc'[n] \in {"token", label}
        /\ \A s \in Threads \ {n} : pc'[s] = pc[s]
        /\ at' \in [NumaNodes -> Nat \ {0}]
        /\ at'[n] \in 1..Len(NUMAToWorkerCPUs[n])
        /\ \A m \in NumaNodes \ {n} : at'[m] = at[m]
    BY <1>3, <2>1, Advanced DEF Label, PushToken
  <2>3. perf_stats' \in [Workers ->
          Seq([qType : {"sample", "token"}, gIdx : Cells \cup {NoQuery}])]
    <3>1. Token \in [qType : {"sample", "token"}, gIdx : Cells \cup {NoQuery}]
      BY DEF Token
    <3>2. perf_stats' = [perf_stats EXCEPT ![Current(n)] = Append(@, Token)]
      BY <1>3 DEF PushToken
    <3>3. perf_stats \in [Workers ->
             Seq([qType : {"sample", "token"}, gIdx : Cells \cup {NoQuery}])]
      BY DEF TypeOK
    <3>4. QED
      BY <3>1, <3>2, <3>3, Appended
  <2>4. due' \in [Workers -> PerCell]
    BY <1>3 DEF PushToken, TypeOK
  <2>5. TypeOK'
    BY <1>3, <2>2, <2>3, <2>4 DEF PushToken, TypeOK, counters, work, reels, control
  <2>6. InStep(n)' /\ Final(n)' = Final(n)
    BY <1>3, <2>1, <2>2 DEF PushToken, InStep, Final, reels
  <2>7. QED
    BY <1>3, <2>2, <2>5, <2>6, SweeperMoved DEF PushToken, SweeperLabels, work, reels
<1>4. CASE PushPcmToken(n)
  <2>1. /\ pc' \in [Threads -> Label] /\ pc'[n] = "take"
        /\ \A s \in Threads \ {n} : pc'[s] = pc[s]
    BY <1>4, GoingTo DEF PushPcmToken, Label
  <2>2. pcmCounters' \in Seq([qType : {"sample", "token"}, nr : Nat])
    BY <1>4 DEF PushPcmToken, TypeOK
  <2>3. TypeOK'
    BY <1>4, <2>1, <2>2
       DEF PushPcmToken, TypeOK, counters, work, sweep, reels, control, history
  <2>4. InStep(n)' /\ Final(n)' = Final(n)
    BY <1>4, <2>1 DEF PushPcmToken, InStep, Final, reels
  <2>5. QED
    BY <1>4, <2>1, <2>3, <2>4, SweeperMoved
       DEF PushPcmToken, SweeperLabels, work, sweep, reels
<1>5. CASE TakeSample(n)
  <2>1. /\ pc[n] = "take"
        /\ perf_stats' = [perf_stats EXCEPT ![Current(n)] =
                            IF perf_stats[Current(n)] = <<>> THEN @ ELSE Tail(@)]
        /\ UNCHANGED <<query, reg, counters, work, pcmCounters, qExecSnap,
                       DRAMResUsageSnap, reels, control, history>>
    BY <1>5 DEF TakeSample, TakeUntil
  <2>2. /\ pc' \in [Threads -> Label] /\ pc'[n] \in {"take", "report"}
        /\ \A s \in Threads \ {n} : pc'[s] = pc[s]
        /\ at' \in [NumaNodes -> Nat \ {0}]
        /\ at'[n] \in 1..Len(NUMAToWorkerCPUs[n])
        /\ \A m \in NumaNodes \ {n} : at'[m] = at[m]
    <3>1. CASE Advance(n, "report")
      BY <2>1, <3>1, Advanced DEF Label
    <3>2. CASE UNCHANGED <<pc, at>>
      BY <2>1, <3>2 DEF TypeOK
    <3>3. QED
      BY <1>5, <3>1, <3>2 DEF TakeSample, TakeUntil
  <2>3. perf_stats' \in [Workers ->
          Seq([qType : {"sample", "token"}, gIdx : Cells \cup {NoQuery}])]
    <3> DEFINE Entry == [qType : {"sample", "token"}, gIdx : Cells \cup {NoQuery}]
    <3>1. perf_stats \in [Workers -> Seq(Entry)]
      BY DEF TypeOK
    <3> HIDE DEF Entry
    <3>2. perf_stats' \in [Workers -> Seq(Entry)]
      BY <2>1, <3>1
    <3>3. QED
      BY <3>2 DEF Entry
  <2>4. ddSnap' \in [NumaNodes -> PerCell]
    <3>1. CASE UNCHANGED ddSnap
      BY <3>1 DEF TypeOK
    <3>2. CASE \E c : ddSnap' = [ddSnap EXCEPT ![n][c] = @ + Interval]
      <4>1. PICK c : ddSnap' = [ddSnap EXCEPT ![n][c] = @ + Interval]
        BY <3>2
      <4>2. CASE c \in Cells
        <5>1. ddSnap \in [NumaNodes -> [Cells -> Nat]]
          BY DEF TypeOK, PerCell
        <5>2. ddSnap[n][c] + Interval \in Nat
          BY <4>2, <5>1, IntervalAssumption
        <5>3. ddSnap' \in [NumaNodes -> [Cells -> Nat]]
          BY <4>1, <4>2, <5>1, <5>2
        <5>4. QED
          BY <5>3 DEF PerCell
      <4>3. CASE c \notin Cells
        <5>1. /\ ddSnap \in [NumaNodes -> [Cells -> Nat]]
              /\ ddSnap[n] \in [Cells -> Nat]
          BY DEF TypeOK, PerCell
        <5>2. [ddSnap[n] EXCEPT ![c] = @ + Interval] = ddSnap[n]
          BY <4>3, <5>1
        <5>3. ddSnap' = [ddSnap EXCEPT ![n] = ddSnap[n]]
          BY <4>1, <5>2
        <5>4. QED
          BY <5>1, <5>3 DEF PerCell
      <4>4. QED
        BY <4>2, <4>3
    <3>3. QED
      BY <1>5, <3>1, <3>2 DEF TakeSample, TakeUntil
  <2>5. TypeOK'
    BY <2>1, <2>2, <2>3, <2>4 DEF TypeOK, counters, work, reels, control, history
  <2>6. InStep(n)' /\ Final(n)' = Final(n)
    BY <2>1, <2>2 DEF InStep, Final, reels
  <2>7. QED
    BY <2>1, <2>2, <2>5, <2>6, SweeperMoved DEF SweeperLabels, work, reels
<1>6. CASE ReportSamples(n)
  <2>1. /\ pc' \in [Threads -> Label] /\ pc'[n] = "exec"
        /\ \A s \in Threads \ {n} : pc'[s] = pc[s]
    BY <1>6, GoingTo DEF ReportSamples, Label
  <2>2. ddSnap \in [NumaNodes -> PerCell] /\ dataDistReel \in [NumaNodes -> Seq(PerCell)]
    BY DEF TypeOK
  <2>3. Zero \in PerCell
    BY DEF Zero, PerCell
  <2>4. ddSnap' \in [NumaNodes -> PerCell]
    BY <1>6, <2>2, <2>3 DEF ReportSamples
  <2>5. /\ dataDistReel' \in [NumaNodes -> Seq(PerCell)]
        /\ Len(dataDistReel'[n]) = Len(dataDistReel[n]) + 1
        /\ \A m \in NumaNodes \ {n} : dataDistReel'[m] = dataDistReel[m]
    <3>1. ddSnap[n] \in PerCell
      BY <2>2
    <3>2. dataDistReel' = [dataDistReel EXCEPT ![n] = Append(@, ddSnap[n])]
      BY <1>6 DEF ReportSamples
    <3>3. QED
      BY <2>2, <3>1, <3>2, Appended
  <2>6. TypeOK'
    BY <1>6, <2>1, <2>4, <2>5
       DEF ReportSamples, TypeOK, counters, work, control, history
  <2>7. InStep(n)' /\ Final(n)' = Final(n)
    BY <1>6, <2>1, <2>5 DEF ReportSamples, InStep, Final
  <2>8. QED
    BY <1>6, <2>1, <2>5, <2>6, <2>7, SweeperMoved DEF ReportSamples, SweeperLabels, work
<1>7. CASE TakeExecuted(n)
  <2>1. /\ pc' \in [Threads -> Label] /\ pc'[n] \in {"exec", "reportExec"}
        /\ \A s \in Threads \ {n} : pc'[s] = pc[s]
        /\ at' \in [NumaNodes -> Nat \ {0}]
        /\ at'[n] \in 1..Len(NUMAToWorkerCPUs[n])
        /\ \A m \in NumaNodes \ {n} : at'[m] = at[m]
    BY <1>7, Advanced DEF TakeExecuted, Label
  <2>2. qExecSnap' \in [NumaNodes -> PerCell]
    <3> DEFINE sum == [c \in Cells |-> qExecSnap[n][c] + qExecutedMice[Current(n)][c]]
    <3>1. qExecSnap \in [NumaNodes -> PerCell] /\ qExecutedMice \in [Workers -> PerCell]
      BY DEF TypeOK
    <3>2. sum \in PerCell
      BY <3>1 DEF PerCell
    <3>3. qExecSnap' = [qExecSnap EXCEPT ![n] = sum]
      BY <1>7 DEF TakeExecuted
    <3> HIDE DEF sum
    <3>4. QED
      BY <3>1, <3>2, <3>3
  <2>3. TypeOK'
    BY <1>7, <2>1, <2>2
       DEF TakeExecuted, TypeOK, counters, work, reels, control, history
  <2>4. InStep(n)' /\ Final(n)' = Final(n)
    BY <1>7, <2>1 DEF TakeExecuted, InStep, Final, reels
  <2>5. QED
    BY <1>7, <2>1, <2>3, <2>4, SweeperMoved DEF TakeExecuted, SweeperLabels, work, reels
<1>8. CASE ReportExecuted(n)
  <2>1. PICK label \in {"takePcm", "check"} :
          Goto(n, label) /\ label = IF n = FirstNode THEN "takePcm" ELSE "check"
    BY <1>8 DEF ReportExecuted
  <2>2. /\ pc' \in [Threads -> Label] /\ pc'[n] = label
        /\ \A s \in Threads \ {n} : pc'[s] = pc[s]
    BY <2>1, GoingTo DEF Label
  <2>3. /\ qExecSnap \in [NumaNodes -> PerCell]
        /\ queryExecReel \in [NumaNodes -> Seq(PerCell)]
    BY DEF TypeOK
  <2>4. Zero \in PerCell
    BY DEF Zero, PerCell
  <2>5. qExecSnap' \in [NumaNodes -> PerCell]
    BY <1>8, <2>3, <2>4 DEF ReportExecuted
  <2>6. /\ queryExecReel' \in [NumaNodes -> Seq(PerCell)]
        /\ Len(queryExecReel'[n]) = Len(queryExecReel[n]) + 1
        /\ \A m \in NumaNodes \ {n} : queryExecReel'[m] = queryExecReel[m]
    <3>1. qExecSnap[n] \in PerCell
      BY <2>3
    <3>2. queryExecReel' = [queryExecReel EXCEPT ![n] = Append(@, qExecSnap[n])]
      BY <1>8 DEF ReportExecuted
    <3>3. QED
      BY <2>3, <3>1, <3>2, Appended
  <2>7. TypeOK'
    BY <1>8, <2>2, <2>5, <2>6
       DEF ReportExecuted, TypeOK, counters, work, control, history
  <2>8. InStep(n)' /\ Final(n)' = Final(n)
    BY <1>8, <2>1, <2>2, <2>6 DEF ReportExecuted, InStep, Final
  <2>9. QED
    BY <1>8, <2>2, <2>6, <2>7, <2>8, SweeperMoved DEF ReportExecuted, SweeperLabels, work
<1>9. CASE TakePcm(n)
  <2>1. /\ pc' \in [Threads -> Label] /\ pc'[n] \in {"takePcm", "reportPcm"}
        /\ \A s \in Threads \ {n} : pc'[s] = pc[s]
    <3>1. CASE Goto(n, "reportPcm")
      BY <3>1, GoingTo DEF Label
    <3>2. CASE UNCHANGED pc
      BY <1>9, <3>2 DEF TakePcm, TypeOK
    <3>3. QED
      BY <1>9, <3>1, <3>2 DEF TakePcm
  <2>2. pcmCounters' \in Seq([qType : {"sample", "token"}, nr : Nat])
        /\ DRAMResUsageSnap' \in Nat
    <3> DEFINE Entry == [qType : {"sample", "token"}, nr : Nat]
    <3>1. pcmCounters \in Seq(Entry) /\ DRAMResUsageSnap \in Nat
      BY DEF TypeOK
    <3>2. \A e \in Entry : e.nr \in Nat
      OBVIOUS
    <3> HIDE DEF Entry
    <3>3. CASE pcmCounters = <<>>
      BY <1>9, <3>1, <3>3 DEF TakePcm
    <3>4. CASE pcmCounters # <<>>
      <4>1. Head(pcmCounters) \in Entry /\ Tail(pcmCounters) \in Seq(Entry)
        BY <3>1, <3>4
      <4>2. pcmCounters' = Tail(pcmCounters)
        BY <1>9, <3>4 DEF TakePcm
      <4>3. DRAMResUsageSnap' \in {DRAMResUsageSnap, Head(pcmCounters).nr}
        BY <1>9 DEF TakePcm
      <4>4. DRAMResUsageSnap' \in Nat
        BY <3>1, <3>2, <4>1, <4>3
      <4>5. pcmCounters' \in Seq(Entry)
        BY <4>1, <4>2
      <4>6. QED
        BY <4>4, <4>5 DEF Entry
    <3>5. QED
      BY <3>3, <3>4
  <2>3. TypeOK'
    BY <1>9, <2>1, <2>2
       DEF TakePcm, TypeOK, counters, work, reels, control, history
  <2>4. InStep(n)' /\ Final(n)' = Final(n)
    BY <1>9, <2>1 DEF TakePcm, InStep, Final, reels
  <2>5. QED
    BY <1>9, <2>1, <2>3, <2>4, SweeperMoved DEF TakePcm, SweeperLabels, work, reels
<1>10. CASE ReportPcm(n)
  <2>1. /\ pc' \in [Threads -> Label] /\ pc'[n] = "check"
        /\ \A s \in Threads \ {n} : pc'[s] = pc[s]
    BY <1>10, GoingTo DEF ReportPcm, Label
  <2>2. /\ DRAMResUsageReel' \in Seq(Nat) /\ DRAMResUsageSnap' \in Nat
        /\ Len(DRAMResUsageReel') = Len(DRAMResUsageReel) + 1
    BY <1>10 DEF ReportPcm, TypeOK
  <2>3. TypeOK'
    BY <1>10, <2>1, <2>2
       DEF ReportPcm, TypeOK, counters, work, control, history
  <2>4. InStep(n)' /\ Final(n)' = Final(n) /\ n = FirstNode
    BY <1>10, <2>1, <2>2 DEF ReportPcm, InStep, Final
  <2>5. QED
    BY <1>10, <2>1, <2>3, <2>4, SweeperMoved DEF ReportPcm, SweeperLabels, work
<1>11. QED
  BY <1>2, <1>3, <1>4, <1>5, <1>6, <1>7, <1>8, <1>9, <1>10 DEF Sweeper
-------------------------------------------------------------------------------
\* main, the system sweeper, or nobody.
LEMMA ReelsUnmoved ==
  ASSUME PoolInv, UNCHANGED <<query, cnt, at, reels>>,
         \A t \in Threads \ {main} : pc'[t] = pc[t], pc'[main] \in MainLabels,
         TypeOK', \A n \in NumaNodes : Dumped(n)'
  PROVE  PoolInv'
<1>1. \A t \in Routers \cup Workers \cup NumaNodes : pc'[t] = pc[t]
  BY ThreadsAssumption DEF Threads
<1>2. Located'
  BY <1>1 DEF PoolInv, Located
<1>3. \A n \in NumaNodes : InStep(n)'
  BY <1>1 DEF PoolInv, InStep, reels
<1>4. QED
  BY <1>2, <1>3 DEF PoolInv

\* What main reads of a reel is what the reel will have in the end, or one less.
LEMMA RowRead ==
  ASSUME PoolInv, NEW n \in NumaNodes, NEW r,
         \/ r = Len(dataDistReel[n])
         \/ r = Len(queryExecReel[n])
         \/ n = FirstNode /\ r = Len(DRAMResUsageReel)
  PROVE  r \in Nat /\ Final(n) \in Nat /\ r <= Final(n) /\ Final(n) <= r + 1
<1> DEFINE data == Len(dataDistReel[n])
           exec == Len(queryExecReel[n])
           chan == Len(DRAMResUsageReel)
<1>1. data \in Nat /\ exec \in Nat /\ chan \in Nat
  <2>1. /\ dataDistReel[n] \in Seq(PerCell) /\ queryExecReel[n] \in Seq(PerCell)
        /\ DRAMResUsageReel \in Seq(Nat)
    BY DEF PoolInv, TypeOK
  <2>2. QED
    BY <2>1
<1>2. /\ data = exec + IF pc[n] \in {"exec", "reportExec"} THEN 1 ELSE 0
      /\ n = FirstNode =>
           data = chan + IF pc[n] \in {"exec", "reportExec", "takePcm", "reportPcm"}
                           THEN 1 ELSE 0
  BY DEF PoolInv, InStep
<1>3. Final(n) = data + IF pc[n] \in {"token", "pcmToken", "take", "report"} THEN 1 ELSE 0
  BY DEF Final
<1>4. r = data \/ r = exec \/ (n = FirstNode /\ r = chan)
  OBVIOUS
<1> HIDE DEF data, exec, chan
<1>5. QED
  BY <1>1, <1>2, <1>3, <1>4

LEMMA RowDumped ==
  ASSUME PoolInv, NEW n \in NumaNodes, DumpReel(n)
  PROVE  /\ rows' \in [NumaNodes -> Seq(Nat)]
         /\ \A m \in NumaNodes : Dumped(m)'
<1>1. /\ rows \in [NumaNodes -> Seq(Nat)] /\ Dumped(n)
      /\ pc[main] = "dump" /\ Len(rows[n]) < 3 /\ Len(rows[n]) \in Nat
  BY DEF PoolInv, DumpReel, TypeOK
<1> DEFINE row == CASE Len(rows[n]) = 0 ->
                         IF n = FirstNode THEN Len(DRAMResUsageReel) ELSE 0
                    [] Len(rows[n]) = 1 -> Len(dataDistReel[n])
                    [] Len(rows[n]) = 2 -> Len(queryExecReel[n])
<1>2. Len(rows[n]) = 0 \/ Len(rows[n]) = 1 \/ Len(rows[n]) = 2
  <2> DEFINE len == Len(rows[n])
  <2>1. len \in Nat /\ len < 3
    BY <1>1
  <2> HIDE DEF len
  <2>2. len = 0 \/ len = 1 \/ len = 2
    BY <2>1
  <2>3. QED
    BY <2>2 DEF len
<1>3. rows' = [rows EXCEPT ![n] = Append(@, row)]
  BY DEF DumpReel
<1>4. row \in Nat /\ (n = FirstNode \/ Len(rows[n]) # 0 =>
                        row <= Final(n) /\ Final(n) <= row + 1)
  <2>1. CASE Len(rows[n]) = 0 /\ n # FirstNode
    BY <2>1
  <2>2. CASE Len(rows[n]) # 0 \/ n = FirstNode
    <3>1. \/ row = Len(dataDistReel[n])
          \/ row = Len(queryExecReel[n])
          \/ n = FirstNode /\ row = Len(DRAMResUsageReel)
      BY <1>2, <2>2
    <3> HIDE DEF row
    <3>2. QED
      BY <3>1, RowRead
  <2>3. QED
    BY <1>2, <2>1, <2>2
<1> HIDE DEF row
<1>5. /\ rows' \in [NumaNodes -> Seq(Nat)]
      /\ \A m \in NumaNodes \ {n} : rows'[m] = rows[m]
      /\ Len(rows'[n]) = Len(rows[n]) + 1
      /\ \A i \in 1..Len(rows[n]) : rows'[n][i] = rows[n][i]
      /\ rows'[n][Len(rows[n]) + 1] = row
  BY <1>1, <1>3, <1>4
<1>6. /\ pc' = pc /\ running' = running
      /\ \A m \in NumaNodes : Final(m)' = Final(m)
  BY DEF DumpReel, Final, reels
<1>7. \A m \in NumaNodes \ {n} : Dumped(m)'
  BY <1>5, <1>6 DEF PoolInv, Dumped
<1>8. Dumped(n)'
  <2>1. \A i \in 1..Len(rows'[n]) : i \in 1..Len(rows[n]) \/ i = Len(rows[n]) + 1
    BY <1>1, <1>5
  <2>2. \A i \in 1..Len(rows'[n]) :
          n = FirstNode \/ i > 1 => rows'[n][i] <= Final(n) /\ Final(n) <= rows'[n][i] + 1
    <3>1. TAKE i \in 1..Len(rows'[n])
    <3>2. CASE i \in 1..Len(rows[n])
      BY <1>1, <1>5, <3>2 DEF Dumped
    <3>3. CASE i = Len(rows[n]) + 1
      BY <1>1, <1>4, <1>5, <3>3
    <3>4. QED
      BY <2>1, <3>2, <3>3
  <2>3. QED
    BY <1>1, <1>6, <2>2 DEF Dumped
<1>9. QED
  BY <1>5, <1>7, <1>8

LEMMA MainStep ==
  ASSUME PoolInv, Main
  PROVE  PoolInv'
<1>1. TypeOK /\ main \in Threads /\ pc[main] \in MainLabels
  BY DEF PoolInv, Threads, Located
<1> USE <1>1
<1>2. CASE \E n \in NumaNodes : Terminate(n)
  <2>1. PICK n \in NumaNodes : Terminate(n)
    BY <1>2
  <2>2. running' \in [NumaNodes -> BOOLEAN]
    BY <2>1 DEF Terminate, TypeOK
  <2>3. TypeOK'
    BY <2>1, <2>2 DEF Terminate, TypeOK, counters, work, sweep, reels, history
  <2>4. \A m \in NumaNodes : Dumped(m)'
    BY <2>1 DEF Terminate, PoolInv, Dumped, Final, reels
  <2>5. QED
    BY <2>1, <2>3, <2>4, ReelsUnmoved DEF Terminate, work, sweep
<1>3. CASE \E n \in NumaNodes : DumpReel(n)
  <2>1. PICK n \in NumaNodes : DumpReel(n)
    BY <1>3
  <2>2. TypeOK'
    BY <2>1, RowDumped DEF DumpReel, TypeOK, counters, work, sweep, reels, history
  <2>3. \A m \in NumaNodes : Dumped(m)'
    BY <2>1, RowDumped
  <2>4. QED
    BY <2>1, <2>2, <2>3, ReelsUnmoved DEF DumpReel, work, sweep
<1>4. CASE BeginDump
  <2>1. /\ pc' \in [Threads -> Label] /\ pc'[main] = "dump"
        /\ \A t \in Threads \ {main} : pc'[t] = pc[t]
    BY <1>4, GoingTo DEF BeginDump, BeginDumpIf, Label
  <2>2. TypeOK'
    BY <1>4, <2>1
       DEF BeginDump, BeginDumpIf, TypeOK, counters, work, sweep, reels, control, history
  <2>3. \A n \in NumaNodes : pc'[n] = pc[n]
    BY <2>1, ThreadsAssumption DEF Threads
  <2>4. \A n \in NumaNodes : Dumped(n)'
    BY <1>4, <2>1, <2>3
       DEF BeginDump, BeginDumpIf, PoolInv, Dumped, Final, reels, control
  <2>5. QED
    BY <1>4, <2>1, <2>2, <2>4, ReelsUnmoved
       DEF BeginDump, BeginDumpIf, MainLabels, work, sweep
<1>5. CASE Exit
  <2>1. /\ pc' \in [Threads -> Label] /\ pc'[main] = "exited"
        /\ \A t \in Threads \ {main} : pc'[t] = pc[t]
    BY <1>5, GoingTo DEF Exit, Label
  <2>2. TypeOK'
    BY <1>5, <2>1 DEF Exit, TypeOK, counters, work, sweep, reels, control, history
  <2>3. \A n \in NumaNodes : pc'[n] = pc[n]
    BY <2>1, ThreadsAssumption DEF Threads
  <2>4. \A n \in NumaNodes : Dumped(n)'
    BY <1>5, <2>1, <2>3 DEF Exit, PoolInv, Dumped, Final, reels, control
  <2>5. QED
    BY <1>5, <2>1, <2>2, <2>4, ReelsUnmoved DEF Exit, MainLabels, work, sweep
<1>6. QED
  BY <1>2, <1>3, <1>4, <1>5 DEF Main

LEMMA SysSweeperStep ==
  ASSUME PoolInv, SysSweeper
  PROVE  PoolInv'
<1>1. TypeOK /\ pc[main] \in MainLabels
  BY DEF PoolInv, Located
<1>2. pcmCounters' \in Seq([qType : {"sample", "token"}, nr : Nat]) /\ channel' \in Nat
  <2>1. PICK type \in UnsetType :
          pcmCounters' = Append(pcmCounters, [qType |-> type, nr |-> channel + 1])
    BY DEF SysSweeper
  <2>2. [qType |-> type, nr |-> channel + 1] \in [qType : {"sample", "token"}, nr : Nat]
    BY <1>1, UnsetAssumption DEF TypeOK
  <2>3. QED
    BY <1>1, <2>1, <2>2 DEF SysSweeper, TypeOK
<1>3. TypeOK'
  BY <1>1, <1>2 DEF SysSweeper, TypeOK, counters, work, sweep, reels, control
<1>4. \A n \in NumaNodes : Dumped(n)'
  BY DEF SysSweeper, PoolInv, Dumped, Final, reels, control
<1>5. QED
  BY <1>1, <1>3, <1>4, ReelsUnmoved DEF SysSweeper, work, sweep

-------------------------------------------------------------------------------
LEMMA InitPool == Init => PoolInv
<1> SUFFICES ASSUME Init PROVE PoolInv
  OBVIOUS
<1> USE DEF Init
<1>1. /\ pc \in [Threads -> Label]
      /\ \A r \in Routers : pc[r] = "draw"
      /\ \A w \in Workers : pc[w] = "poll"
      /\ \A n \in NumaNodes : pc[n] = "check"
      /\ pc[main] = "sleep"
  <2>1. /\ \A r \in Routers : pc[r] = "draw"
        /\ \A w \in Workers : pc[w] = "poll"
        /\ \A n \in NumaNodes : pc[n] = "check"
        /\ pc[main] = "sleep"
    BY ThreadsAssumption DEF Threads
  <2>2. \A t \in Threads : pc[t] \in Label
    BY <2>1 DEF Threads, Label
  <2>3. QED
    BY <2>1, <2>2
<1>2. Zero \in PerCell
  BY DEF Zero, PerCell
<1>3. TypeOK
  <2>1. /\ query \in [Routers \cup Workers -> Cells \cup {NoQuery}]
        /\ reg \in [Routers \cup Workers -> Nat]
        /\ freqQueryDistPushed \in PerCell /\ freqQueryDistCompleted \in PerCell
        /\ jobs \in [Workers -> PerCell] /\ qExecutedMice \in [Workers -> PerCell]
        /\ sampled \in [Workers -> PerCell] /\ due \in [Workers -> PerCell]
        /\ routed \in PerCell
    BY <1>2
  <2>2. /\ cnt \in [Workers -> 0..Interval] /\ unrouted \in Nat /\ channel \in Nat
        /\ running \in [NumaNodes -> BOOLEAN] /\ at \in [NumaNodes -> Nat \ {0}]
        /\ ddSnap \in [NumaNodes -> PerCell] /\ qExecSnap \in [NumaNodes -> PerCell]
        /\ DRAMResUsageSnap \in Nat
    BY <1>2, IntervalAssumption, BoundsAssumption
  <2>3. \A S : <<>> \in Seq(S)
    OBVIOUS
  <2>4. /\ perf_stats \in [Workers ->
             Seq([qType : {"sample", "token"}, gIdx : Cells \cup {NoQuery}])]
        /\ pcmCounters \in Seq([qType : {"sample", "token"}, nr : Nat])
    BY <2>3, Zenon
  <2>5. /\ dataDistReel \in [NumaNodes -> Seq(PerCell)]
        /\ queryExecReel \in [NumaNodes -> Seq(PerCell)]
        /\ DRAMResUsageReel \in Seq(Nat)
        /\ rows \in [NumaNodes -> Seq(Nat)]
    BY <2>3, Zenon
  <2>6. QED
    BY <1>1, <2>1, <2>2, <2>4, <2>5 DEF TypeOK
<1>4. Located
  <2>1. \A n \in NumaNodes : at[n] \in 1..Len(NUMAToWorkerCPUs[n])
    <3>1. TAKE n \in NumaNodes
    <3>2. NUMAToWorkerCPUs[n] \in Seq(WorkersOf(n)) /\ NUMAToWorkerCPUs[n] # <<>>
      BY NodesAssumption
    <3>3. Len(NUMAToWorkerCPUs[n]) \in Nat \ {0}
      BY <3>2
    <3>4. QED
      BY <3>3
  <2>2. \A w \in Workers : cnt[w] < Interval
    BY IntervalAssumption
  <2>3. QED
    BY <1>1, <2>1, <2>2
       DEF Located, RouterLabels, WorkerLabels, SweeperLabels, MainLabels
<1>5. \A n \in NumaNodes : InStep(n) /\ Dumped(n)
  <2>1. TAKE n \in NumaNodes
  <2>2. /\ Len(dataDistReel[n]) = 0 /\ Len(queryExecReel[n]) = 0
        /\ Len(DRAMResUsageReel) = 0 /\ rows[n] = <<>> /\ Len(rows[n]) = 0
    OBVIOUS
  <2>3. pc[n] = "check" /\ pc[main] = "sleep"
    BY <1>1
  <2> HIDE DEF Init
  <2>4. QED
    BY <2>2, <2>3 DEF InStep, Dumped
<1>6. QED
  BY <1>3, <1>4, <1>5 DEF PoolInv

LEMMA NextPool == PoolInv /\ [Next]_vars => PoolInv'
<1> SUFFICES ASSUME PoolInv, [Next]_vars PROVE PoolInv'
  OBVIOUS
<1>1. CASE \E r \in Routers : Router(r)
  BY <1>1, RouterStep
<1>2. CASE \E w \in Workers : Worker(w)
  BY <1>2, WorkerStep
<1>3. CASE \E n \in NumaNodes : Sweeper(n)
  BY <1>3, SweeperStep
<1>4. CASE SysSweeper
  BY <1>4, SysSweeperStep
<1>5. CASE Main
  BY <1>5, MainStep
<1>6. CASE UNCHANGED vars
  <2>1. TypeOK' /\ Located'
    BY <1>6 DEF PoolInv, TypeOK, Located, vars, counters, work, sweep, reels, control, history
  <2>2. \A n \in NumaNodes : InStep(n)' /\ Dumped(n)'
    BY <1>6 DEF PoolInv, InStep, Dumped, Final, vars, reels, control
  <2>3. QED
    BY <2>1, <2>2 DEF PoolInv
<1>7. QED
  BY <1>1, <1>2, <1>3, <1>4, <1>5, <1>6 DEF Next, Exited

(***************************************************************************)
(* The inductive invariant: every thread of the pool stands where threads  *)
(* of its kind do, the reels of a sweeper are in step, and the dumped rows *)
(* fit the sweep that is being completed.                                  *)
(***************************************************************************)
THEOREM PoolInvariant == Spec => []PoolInv
<1>1. Init => PoolInv
  BY InitPool
<1>2. PoolInv /\ [Next]_vars => PoolInv'
  BY NextPool
<1>3. QED
  BY <1>1, <1>2, PTL DEF Spec

(***************************************************************************)
(* The queues, reels and counters of TPM.cc keep their types: a worker     *)
(* never takes a job that is not there, its counter of queries since the   *)
(* last sample never passes the interval, and a sweeper that goes round    *)
(* the workers of its node never leaves their list.                        *)
(***************************************************************************)
THEOREM TypeCorrect == Spec => []TypeOK
<1>1. PoolInv => TypeOK
  BY DEF PoolInv
<1>2. QED
  BY <1>1, PoolInvariant, PTL

(***************************************************************************)
(* dump_ncoresweeper_threads reads reels that may still grow; the rows it  *)
(* dumps of one sweeper differ by one at most, whatever the sweepers,      *)
(* workers and routers do meanwhile.                                       *)
(***************************************************************************)
THEOREM RowsAgree == Spec => []DumpedRowsAgree
<1>1. PoolInv => DumpedRowsAgree
  <2> SUFFICES ASSUME PoolInv, NEW n \in NumaNodes, NEW i \in DOMAIN rows[n],
                      NEW j \in DOMAIN rows[n], n = FirstNode \/ (i > 1 /\ j > 1)
               PROVE  rows[n][i] <= rows[n][j] + 1
    BY DEF DumpedRowsAgree
  <2>1. rows[n] \in Seq(Nat) /\ Dumped(n) /\ dataDistReel[n] \in Seq(PerCell)
    BY DEF PoolInv, TypeOK
  <2>2. /\ i \in 1..Len(rows[n]) /\ j \in 1..Len(rows[n])
        /\ rows[n][i] \in Nat /\ rows[n][j] \in Nat
    BY <2>1
  <2>3. Final(n) \in Nat
    BY RowRead
  <2>4. rows[n][i] <= Final(n) /\ Final(n) <= rows[n][j] + 1
    BY <2>1, <2>2 DEF Dumped
  <2>5. QED
    BY <2>2, <2>3, <2>4
<1>2. QED
  BY <1>1, PoolInvariant, PTL


-------------------------------------------------------------------------------
\* There are finitely many workers.
LEMMA WorkersFinite ==
  IsFiniteSet(Workers) /\ \A n \in NumaNodes : IsFiniteSet(WorkersOf(n))
<1>1. ASSUME NEW n \in NumaNodes PROVE IsFiniteSet(WorkersOf(n))
  <2>1. PICK s : s = NUMAToWorkerCPUs[n] /\ s \in Seq(WorkersOf(n))
    BY NodesAssumption
  <2>2. s \in [1..Len(s) -> WorkersOf(n)] /\ Len(s) \in Nat
    BY <2>1
  <2>3. \A w \in WorkersOf(n) : \E i \in 1..Len(s) : s[i] = w
    BY <2>1, <2>2 DEF WorkersOf, ToSet
  <2>4. s \in Surjection(1..Len(s), WorkersOf(n))
    BY <2>2, <2>3 DEF Surjection
  <2>5. IsFiniteSet(1..Len(s))
    BY <2>2, FS_Interval
  <2>6. QED
    BY <2>4, <2>5, FS_Surjection
<1>2. IsFiniteSet(Workers)
  <2> DEFINE sets == {WorkersOf(n) : n \in NumaNodes}
             f == [n \in NumaNodes |-> WorkersOf(n)]
  <2>1. f \in Surjection(NumaNodes, sets)
    BY DEF Surjection
  <2>2. IsFiniteSet(sets)
    BY <2>1, FiniteAssumption, FS_Surjection
  <2>3. QED
    BY <1>1, <2>2, FS_UNION DEF Workers
<1>3. QED
  BY <1>1, <1>2

\* How the size of a set changes when only t may come or go.
LEMMA SizeChange ==
  ASSUME NEW A, NEW B, NEW t, IsFiniteSet(A), B \ {t} = A \ {t}
  PROVE  /\ IsFiniteSet(B) /\ Cardinality(A) \in Nat /\ Cardinality(B) \in Nat
         /\ Cardinality(B) + (IF t \in A THEN 1 ELSE 0) =
              Cardinality(A) + (IF t \in B THEN 1 ELSE 0)
<1>1. CASE t \in A
  <2>1. CASE t \in B
    <3>1. A = B
      BY <1>1, <2>1
    <3>2. QED
      BY <1>1, <2>1, <3>1, FS_CardinalityType
  <2>2. CASE t \notin B
    <3>1. B = A \ {t}
      BY <2>2
    <3>2. IsFiniteSet(B) /\ Cardinality(B) = Cardinality(A) - 1
      BY <1>1, <3>1, FS_RemoveElement
    <3>3. QED
      BY <1>1, <2>2, <3>2, FS_CardinalityType
  <2>3. QED
    BY <2>1, <2>2
<1>2. CASE t \notin A
  <2>1. CASE t \in B
    <3>1. B = A \cup {t}
      BY <1>2, <2>1
    <3>2. IsFiniteSet(B) /\ Cardinality(B) = Cardinality(A) + 1
      BY <1>2, <3>1, FS_AddElement
    <3>3. QED
      BY <1>2, <2>1, <3>2, FS_CardinalityType
  <2>2. CASE t \notin B
    <3>1. A = B
      BY <1>2, <2>2
    <3>2. QED
      BY <1>2, <2>2, <3>1, FS_CardinalityType
  <2>3. QED
    BY <2>1, <2>2
<1>3. QED
  BY <1>1, <1>2

-------------------------------------------------------------------------------
\* The threads of S that hold a query of cell c at one of the labels L, and what
\* t adds to their number.
Holding(S, c, L) == {t \in S : query[t] = c /\ pc[t] \in L}
Share(t, S, c, L) == IF t \in S /\ query[t] = c /\ pc[t] \in L THEN 1 ELSE 0

Stock(c) == SumFunction([w \in Workers |-> jobs[w][c] + qExecutedMice[w][c]])
Executed(c) == SumFunction([w \in Workers |-> qExecutedMice[w][c]])

\* What has been counted as pushed or completed, if no update were lost.
AfterPushed == {"loadCompleted", "storeCompleted", "push"}
PushedSoFar(c) == routed[c] + Cardinality(Holding(Routers, c, AfterPushed))
CompletedSoFar(c) ==
  routed[c] + Cardinality(Holding(Routers, c, {"push"}))
    + Cardinality(Holding(Workers, c, {"count"})) + Executed(c)

\* A counter, and a value loaded from it to be stored one greater, is behind.
Behind ==
  /\ \A c \in Cells : /\ freqQueryDistPushed[c] <= PushedSoFar(c)
                      /\ freqQueryDistCompleted[c] <= CompletedSoFar(c)
  /\ \A t \in Routers \cup Workers, c \in Cells :
       query[t] = c => /\ pc[t] = "storePushed" => reg[t] <= PushedSoFar(c)
                       /\ pc[t] = "storeCompleted" => reg[t] <= CompletedSoFar(c)

EmptyHanded ==
  /\ \A r \in Routers : pc[r] = "draw" => query[r] = NoQuery
  /\ \A w \in Workers : pc[w] = "poll" => query[w] = NoQuery

CountInv == EmptyHanded /\ NoQueryLost /\ Behind

-------------------------------------------------------------------------------
\* One worker's share of the queries of a cell changes.
LEMMA StockChange ==
  ASSUME TypeOK, TypeOK', NEW c \in Cells, NEW w \in Workers,
         \A v \in Workers \ {w} : jobs'[v] = jobs[v] /\ qExecutedMice'[v] = qExecutedMice[v]
  PROVE  /\ Stock(c) \in Nat /\ Stock(c)' \in Nat
         /\ Executed(c) \in Nat /\ Executed(c)' \in Nat
         /\ Stock(c)' + jobs[w][c] + qExecutedMice[w][c] =
              Stock(c) + jobs'[w][c] + qExecutedMice'[w][c]
         /\ Executed(c)' + qExecutedMice[w][c] = Executed(c) + qExecutedMice'[w][c]
<1> DEFINE f == [v \in Workers |-> jobs[v][c] + qExecutedMice[v][c]]
           g == [v \in Workers |-> jobs'[v][c] + qExecutedMice'[v][c]]
           e == [v \in Workers |-> qExecutedMice[v][c]]
           d == [v \in Workers |-> qExecutedMice'[v][c]]
<1>1. \A v \in Workers : /\ jobs[v][c] \in Nat /\ qExecutedMice[v][c] \in Nat
                         /\ jobs'[v][c] \in Nat /\ qExecutedMice'[v][c] \in Nat
  BY DEF TypeOK, PerCell
<1>2. /\ Stock(c) = SumFunctionOnSet(f, Workers) /\ Stock(c)' = SumFunctionOnSet(g, Workers)
      /\ Executed(c) = SumFunctionOnSet(e, Workers)
      /\ Executed(c)' = SumFunctionOnSet(d, Workers)
  BY DEF Stock, Executed, SumFunction
<1>3. /\ \A v \in Workers : /\ f[v] \in Nat /\ g[v] \in Nat /\ e[v] \in Nat /\ d[v] \in Nat
      /\ \A v \in Workers \ {w} : g[v] = f[v] /\ d[v] = e[v]
      /\ f[w] = jobs[w][c] + qExecutedMice[w][c] /\ g[w] = jobs'[w][c] + qExecutedMice'[w][c]
      /\ e[w] = qExecutedMice[w][c] /\ d[w] = qExecutedMice'[w][c]
  BY <1>1
<1> HIDE DEF f, g, e, d
<1>4. /\ SumFunctionOnSet(f, Workers) \in Nat /\ SumFunctionOnSet(g, Workers) \in Nat
      /\ SumFunctionOnSet(e, Workers) \in Nat /\ SumFunctionOnSet(d, Workers) \in Nat
  BY <1>3, WorkersFinite, SumNat
<1>5. /\ SumFunctionOnSet(g, Workers) + f[w] = SumFunctionOnSet(f, Workers) + g[w]
      /\ SumFunctionOnSet(d, Workers) + e[w] = SumFunctionOnSet(e, Workers) + d[w]
  BY <1>3, WorkersFinite, SumChange
<1>6. QED
  BY <1>1, <1>2, <1>3, <1>4, <1>5

\* What depends only on the queues and the counts of the workers stays with them.
LEMMA StockSame ==
  ASSUME TypeOK, UNCHANGED <<jobs, qExecutedMice>>, NEW c \in Cells
  PROVE  Stock(c)' = Stock(c) /\ Executed(c)' = Executed(c)
BY DEF Stock, Executed

\* The queries in the queues and the executed ones are numbers.
LEMMA StockNat ==
  ASSUME TypeOK, NEW c \in Cells
  PROVE  Stock(c) \in Nat /\ Executed(c) \in Nat
<1> DEFINE f == [v \in Workers |-> jobs[v][c] + qExecutedMice[v][c]]
           e == [v \in Workers |-> qExecutedMice[v][c]]
<1>1. \A v \in Workers : f[v] \in Nat /\ e[v] \in Nat
  BY DEF TypeOK, PerCell
<1>2. Stock(c) = SumFunctionOnSet(f, Workers) /\ Executed(c) = SumFunctionOnSet(e, Workers)
  BY DEF Stock, Executed, SumFunction
<1> HIDE DEF f, e
<1>3. QED
  BY <1>1, <1>2, WorkersFinite, SumNat

\* The same of the state after a step.
LEMMA StockNatAfter ==
  ASSUME TypeOK', NEW c \in Cells
  PROVE  Stock(c)' \in Nat /\ Executed(c)' \in Nat
<1> DEFINE f == [v \in Workers |-> jobs'[v][c] + qExecutedMice'[v][c]]
           e == [v \in Workers |-> qExecutedMice'[v][c]]
<1>1. \A v \in Workers : f[v] \in Nat /\ e[v] \in Nat
  BY SMTT(30) DEF TypeOK, PerCell
<1>2. Stock(c)' = SumFunctionOnSet(f, Workers) /\ Executed(c)' = SumFunctionOnSet(e, Workers)
  BY DEF Stock, Executed, SumFunction
<1> HIDE DEF f, e
<1>3. QED
  BY <1>1, <1>2, WorkersFinite, SumNat

\* A step of one thread comes to its query being held elsewhere, or no longer.
LEMMA HoldingChange ==
  ASSUME NEW S, IsFiniteSet(S), NEW t, NEW c, NEW L,
         \A s \in S \ {t} : pc'[s] = pc[s] /\ query'[s] = query[s]
  PROVE  /\ Cardinality(Holding(S, c, L)) \in Nat /\ Cardinality(Holding(S, c, L))' \in Nat
         /\ Share(t, S, c, L) \in {0, 1} /\ Share(t, S, c, L)' \in {0, 1}
         /\ Cardinality(Holding(S, c, L))' + Share(t, S, c, L) =
            Cardinality(Holding(S, c, L)) + Share(t, S, c, L)'
<1> DEFINE A == Holding(S, c, L)
           B == Holding(S, c, L)'
<1>1. IsFiniteSet(A) /\ B \ {t} = A \ {t}
  <2>1. A \subseteq S
    BY DEF Holding
  <2>2. QED
    BY <2>1, FS_Subset DEF Holding
<1>2. /\ Share(t, S, c, L) = IF t \in A THEN 1 ELSE 0
      /\ Share(t, S, c, L)' = IF t \in B THEN 1 ELSE 0
  BY DEF Holding, Share
<1>3. Cardinality(B) = Cardinality(Holding(S, c, L))'
  OBVIOUS
<1> HIDE DEF A, B
<1>4. /\ Cardinality(A) \in Nat /\ Cardinality(B) \in Nat
      /\ Cardinality(B) + (IF t \in A THEN 1 ELSE 0) =
           Cardinality(A) + (IF t \in B THEN 1 ELSE 0)
  BY <1>1, SizeChange
<1>5. QED
  BY <1>2, <1>3, <1>4 DEF A

\* The same for the queries in the hands of the workers.
LEMMA HandChange ==
  ASSUME NEW t, NEW c, \A s \in Workers \ {t} : query'[s] = query[s]
  PROVE  /\ InHand(c) \in Nat /\ InHand(c)' \in Nat
         /\ InHand(c)' + (IF t \in Workers /\ query[t] = c THEN 1 ELSE 0) =
            InHand(c) + (IF t \in Workers /\ query'[t] = c THEN 1 ELSE 0)
<1> DEFINE A == {w \in Workers : query[w] = c}
           B == {w \in Workers : query'[w] = c}
<1>1. IsFiniteSet(A) /\ B \ {t} = A \ {t}
  <2>1. A \subseteq Workers
    OBVIOUS
  <2>2. QED
    BY <2>1, WorkersFinite, FS_Subset
<1>2. /\ t \in A <=> t \in Workers /\ query[t] = c
      /\ t \in B <=> t \in Workers /\ query'[t] = c
  OBVIOUS
<1>3. InHand(c) = Cardinality(A) /\ InHand(c)' = Cardinality(B)
  BY DEF InHand
<1> HIDE DEF A, B
<1>4. /\ Cardinality(A) \in Nat /\ Cardinality(B) \in Nat
      /\ Cardinality(B) + (IF t \in A THEN 1 ELSE 0) =
           Cardinality(A) + (IF t \in B THEN 1 ELSE 0)
  BY <1>1, SizeChange
<1>5. QED
  BY <1>2, <1>3, <1>4

\* Only t moves, of routers and workers.
OnlyMoves(t) ==
  \A s \in (Routers \cup Workers) \ {t} :
    pc'[s] = pc[s] /\ query'[s] = query[s] /\ reg'[s] = reg[s]

\* What a step of t changes of the queries pushed and completed so far.
LEMMA SoFarChange ==
  ASSUME TypeOK, TypeOK', NEW t, OnlyMoves(t), NEW c \in Cells
  PROVE  /\ PushedSoFar(c) \in Nat /\ PushedSoFar(c)' \in Nat
         /\ CompletedSoFar(c) \in Nat /\ CompletedSoFar(c)' \in Nat
         /\ PushedSoFar(c)' + routed[c] + Share(t, Routers, c, AfterPushed) =
              PushedSoFar(c) + routed'[c] + Share(t, Routers, c, AfterPushed)'
         /\ CompletedSoFar(c)' + routed[c] + Executed(c)
              + Share(t, Routers, c, {"push"}) + Share(t, Workers, c, {"count"}) =
            CompletedSoFar(c) + routed'[c] + Executed(c)'
              + Share(t, Routers, c, {"push"})' + Share(t, Workers, c, {"count"})'
<1>1. routed[c] \in Nat /\ routed'[c] \in Nat
  BY DEF TypeOK, PerCell
<1>2. Executed(c) \in Nat /\ Executed(c)' \in Nat
  BY StockNat, StockNatAfter
<1>3. ASSUME NEW L
      PROVE  /\ Cardinality(Holding(Routers, c, L)) \in Nat
             /\ Cardinality(Holding(Routers, c, L))' \in Nat
             /\ Share(t, Routers, c, L) \in {0, 1} /\ Share(t, Routers, c, L)' \in {0, 1}
             /\ Cardinality(Holding(Routers, c, L))' + Share(t, Routers, c, L) =
                Cardinality(Holding(Routers, c, L)) + Share(t, Routers, c, L)'
  <2>1. \A s \in Routers \ {t} : pc'[s] = pc[s] /\ query'[s] = query[s]
    BY DEF OnlyMoves
  <2>2. IsFiniteSet(Routers)
    BY FiniteAssumption
  <2>3. QED
    BY <2>1, <2>2, HoldingChange
<1>4. ASSUME NEW L
      PROVE  /\ Cardinality(Holding(Workers, c, L)) \in Nat
             /\ Cardinality(Holding(Workers, c, L))' \in Nat
             /\ Share(t, Workers, c, L) \in {0, 1} /\ Share(t, Workers, c, L)' \in {0, 1}
             /\ Cardinality(Holding(Workers, c, L))' + Share(t, Workers, c, L) =
                Cardinality(Holding(Workers, c, L)) + Share(t, Workers, c, L)'
  <2>1. \A s \in Workers \ {t} : pc'[s] = pc[s] /\ query'[s] = query[s]
    BY DEF OnlyMoves
  <2>2. QED
    BY <2>1, WorkersFinite, HoldingChange
<1>5. /\ PushedSoFar(c) \in Nat /\ PushedSoFar(c)' \in Nat
      /\ PushedSoFar(c)' + routed[c] + Share(t, Routers, c, AfterPushed) =
           PushedSoFar(c) + routed'[c] + Share(t, Routers, c, AfterPushed)'
  BY <1>1, <1>3 DEF PushedSoFar
<1>6. /\ CompletedSoFar(c) \in Nat /\ CompletedSoFar(c)' \in Nat
      /\ CompletedSoFar(c)' + routed[c] + Executed(c)
           + Share(t, Routers, c, {"push"}) + Share(t, Workers, c, {"count"}) =
         CompletedSoFar(c) + routed'[c] + Executed(c)'
           + Share(t, Routers, c, {"push"})' + Share(t, Workers, c, {"count"})'
  BY <1>1, <1>2, <1>3, <1>4 DEF CompletedSoFar
<1>7. QED
  BY <1>5, <1>6

\* What happened only grows, so who was behind still is.
LEMMA BehindStays ==
  ASSUME TypeOK, TypeOK', Behind, NEW t, OnlyMoves(t),
         \A c \in Cells : /\ PushedSoFar(c) <= PushedSoFar(c)'
                          /\ CompletedSoFar(c) <= CompletedSoFar(c)',
         \A c \in Cells : \/ freqQueryDistPushed'[c] = freqQueryDistPushed[c]
                          \/ freqQueryDistPushed'[c] <= PushedSoFar(c)',
         \A c \in Cells : \/ freqQueryDistCompleted'[c] = freqQueryDistCompleted[c]
                          \/ freqQueryDistCompleted'[c] <= CompletedSoFar(c)',
         \A c \in Cells : t \in Routers \cup Workers /\ query'[t] = c =>
           /\ pc'[t] = "storePushed" => reg'[t] <= PushedSoFar(c)'
           /\ pc'[t] = "storeCompleted" => reg'[t] <= CompletedSoFar(c)'
  PROVE  Behind'
<1>1. /\ \A c \in Cells : /\ PushedSoFar(c) \in Nat /\ PushedSoFar(c)' \in Nat
                          /\ CompletedSoFar(c) \in Nat /\ CompletedSoFar(c)' \in Nat
      /\ \A c \in Cells : freqQueryDistPushed[c] \in Nat /\ freqQueryDistCompleted[c] \in Nat
      /\ \A s \in Routers \cup Workers : reg[s] \in Nat
  BY SoFarChange DEF TypeOK, PerCell
<1>2. ASSUME NEW c \in Cells
      PROVE  /\ freqQueryDistPushed'[c] <= PushedSoFar(c)'
             /\ freqQueryDistCompleted'[c] <= CompletedSoFar(c)'
  <2>1. /\ freqQueryDistPushed[c] <= PushedSoFar(c)
        /\ freqQueryDistCompleted[c] <= CompletedSoFar(c)
    BY DEF Behind
  <2>2. QED
    BY <1>1, <2>1
<1>3. ASSUME NEW s \in Routers \cup Workers, NEW c \in Cells, query'[s] = c
      PROVE  /\ pc'[s] = "storePushed" => reg'[s] <= PushedSoFar(c)'
             /\ pc'[s] = "storeCompleted" => reg'[s] <= CompletedSoFar(c)'
  <2>1. CASE s = t
    BY <1>3, <2>1
  <2>2. CASE s # t
    <3>1. pc'[s] = pc[s] /\ query'[s] = query[s] /\ reg'[s] = reg[s]
      BY <1>3, <2>2 DEF OnlyMoves
    <3>2. /\ pc[s] = "storePushed" => reg[s] <= PushedSoFar(c)
          /\ pc[s] = "storeCompleted" => reg[s] <= CompletedSoFar(c)
      BY <1>3, <3>1 DEF Behind
    <3>3. QED
      BY <1>1, <3>1, <3>2
  <2>3. QED
    BY <2>1, <2>2
<1>4. QED
  BY <1>2, <1>3 DEF Behind

\* A step that moves no query to or from a worker loses none.
LEMMA NothingMoved ==
  ASSUME TypeOK, NoQueryLost, UNCHANGED <<routed, jobs, qExecutedMice>>,
         \A w \in Workers : query'[w] = query[w]
  PROVE  NoQueryLost'
<1>1. ASSUME NEW c \in Cells PROVE InHand(c)' = InHand(c)
  BY DEF InHand
<1>2. QED
  BY <1>1 DEF NoQueryLost

\* A step of a sweeper, or of main: no query is touched.
LEMMA QuietStep ==
  ASSUME TypeOK, TypeOK', CountInv, NEW t, t \notin Routers \cup Workers, OnlyMoves(t),
         UNCHANGED <<counters, routed, jobs, qExecutedMice>>
  PROVE  CountInv'
<1>1. \A s \in Routers \cup Workers :
        pc'[s] = pc[s] /\ query'[s] = query[s] /\ reg'[s] = reg[s]
  BY DEF OnlyMoves
<1>2. EmptyHanded'
  BY <1>1 DEF CountInv, EmptyHanded
<1>3. NoQueryLost'
  BY <1>1, NothingMoved DEF CountInv
<1>4. ASSUME NEW c \in Cells
      PROVE  PushedSoFar(c) <= PushedSoFar(c)' /\ CompletedSoFar(c) <= CompletedSoFar(c)'
  <2>1. \A S, L : S \in {Routers, Workers} => Share(t, S, c, L) = 0 /\ Share(t, S, c, L)' = 0
    BY DEF Share
  <2>2. Executed(c)' = Executed(c) /\ routed'[c] = routed[c]
    BY StockSame
  <2>3. routed[c] \in Nat /\ Executed(c) \in Nat
    BY StockNat DEF TypeOK, PerCell
  <2>4. QED
    BY <2>1, <2>2, <2>3, SoFarChange
<1>5. Behind'
  BY <1>4, BehindStays DEF CountInv, counters
<1>6. QED
  BY <1>2, <1>3, <1>5 DEF CountInv

\* A thread that is on its way with its query.
LEMMA OnTheWay ==
  ASSUME TypeOK, TypeOK', CountInv, NEW t \in Routers \cup Workers, OnlyMoves(t),
         query'[t] = query[t], pc'[t] \notin {"draw", "poll"},
         UNCHANGED <<routed, jobs, qExecutedMice>>
  PROVE  EmptyHanded' /\ NoQueryLost'
<1>1. EmptyHanded'
  <2>1. \A s \in Routers \cup Workers :
          s # t => pc'[s] = pc[s] /\ query'[s] = query[s]
    BY DEF OnlyMoves
  <2>2. QED
    BY <2>1 DEF CountInv, EmptyHanded
<1>2. \A w \in Workers : query'[w] = query[w]
  BY DEF OnlyMoves
<1>3. QED
  BY <1>1, <1>2, NothingMoved DEF CountInv

\* A router counts its query as pushed.
LEMMA PushedCounted ==
  ASSUME PoolInv, PoolInv', CountInv, NEW r \in Routers, LoadPushed(r) \/ StorePushed(r)
  PROVE  CountInv'
<1>1. TypeOK /\ TypeOK' /\ r \notin Workers /\ query[r] \in Cells /\ r \in Threads
  BY ThreadsAssumption DEF PoolInv, Located, LoadPushed, StorePushed, Threads
<1>2. /\ UNCHANGED <<query, routed, jobs, qExecutedMice, freqQueryDistCompleted>>
      /\ \A s \in Threads \ {r} : pc'[s] = pc[s]
      /\ \A s \in (Routers \cup Workers) \ {r} : reg'[s] = reg[s]
      /\ pc'[r] \in {"storePushed", "loadCompleted"}
  BY <1>1 DEF LoadPushed, StorePushed, Goto, TypeOK, counters, work, history
<1>3. OnlyMoves(r)
  BY <1>2 DEF OnlyMoves, Threads
<1>4. EmptyHanded' /\ NoQueryLost'
  BY <1>1, <1>2, <1>3, OnTheWay
<1>5. PICK d \in Cells : d = query[r]
  BY <1>1
<1>6. ASSUME NEW c \in Cells
      PROVE  /\ CompletedSoFar(c) = CompletedSoFar(c)'
             /\ LoadPushed(r) => PushedSoFar(c)' = PushedSoFar(c)
             /\ StorePushed(r) =>
                  PushedSoFar(c)' = PushedSoFar(c) + IF c = d THEN 1 ELSE 0
             /\ PushedSoFar(c) \in Nat
  <2>1. /\ Share(r, Workers, c, {"count"}) = 0 /\ Share(r, Workers, c, {"count"})' = 0
        /\ Share(r, Routers, c, {"push"}) = 0 /\ Share(r, Routers, c, {"push"})' = 0
        /\ Share(r, Routers, c, AfterPushed) = 0
    BY <1>1, <1>2 DEF Share, AfterPushed, LoadPushed, StorePushed
  <2>2. /\ LoadPushed(r) => Share(r, Routers, c, AfterPushed)' = 0
        /\ StorePushed(r) =>
             Share(r, Routers, c, AfterPushed)' = IF c = d THEN 1 ELSE 0
    BY <1>1, <1>2, <1>5 DEF Share, AfterPushed, LoadPushed, StorePushed, Goto, TypeOK
  <2>3. Executed(c)' = Executed(c) /\ routed'[c] = routed[c]
    BY <1>1, <1>2, StockSame
  <2>4. routed[c] \in Nat /\ Executed(c) \in Nat
    BY <1>1, StockNat DEF TypeOK, PerCell
  <2>5. QED
    BY <1>1, <1>3, <2>1, <2>2, <2>3, <2>4, SoFarChange
<1>7. CASE LoadPushed(r)
  <2>1. pc'[r] = "storePushed" /\ reg'[r] = freqQueryDistPushed[d] /\ UNCHANGED counters
    BY <1>1, <1>5, <1>7 DEF LoadPushed, Goto, TypeOK
  <2>2. freqQueryDistPushed[d] <= PushedSoFar(d)
    BY DEF CountInv, Behind
  <2>3. Behind'
    <3>1. \A c \in Cells : /\ PushedSoFar(c) <= PushedSoFar(c)'
                           /\ CompletedSoFar(c) <= CompletedSoFar(c)'
      BY <1>1, <1>3, <1>6, <1>7, SoFarChange
    <3>2. reg'[r] <= PushedSoFar(d)'
      BY <1>6, <1>7, <2>1, <2>2
    <3>3. QED
      BY <1>1, <1>2, <1>3, <1>5, <2>1, <3>1, <3>2, BehindStays DEF CountInv, counters
  <2>4. QED
    BY <1>4, <2>3 DEF CountInv
<1>8. CASE StorePushed(r)
  <2>1. /\ freqQueryDistPushed' = [freqQueryDistPushed EXCEPT ![d] = reg[r] + 1]
        /\ pc[r] = "storePushed" /\ pc'[r] = "loadCompleted"
    BY <1>1, <1>5, <1>8 DEF StorePushed, Goto, TypeOK
  <2>2. reg[r] <= PushedSoFar(d) /\ reg[r] \in Nat
    BY <1>1, <1>5, <2>1 DEF CountInv, Behind, TypeOK
  <2>3. Behind'
    <3>1. \A c \in Cells : /\ PushedSoFar(c) <= PushedSoFar(c)'
                           /\ CompletedSoFar(c) <= CompletedSoFar(c)'
      BY <1>1, <1>3, <1>6, <1>8, SoFarChange
    <3>2. freqQueryDistPushed'[d] <= PushedSoFar(d)'
      <4>1. freqQueryDistPushed'[d] = reg[r] + 1
        BY <1>1, <2>1 DEF TypeOK, PerCell
      <4>2. PushedSoFar(d)' = PushedSoFar(d) + 1 /\ PushedSoFar(d) \in Nat
        BY <1>6, <1>8
      <4>3. QED
        BY <2>2, <4>1, <4>2
    <3>3. \A c \in Cells : \/ freqQueryDistPushed'[c] = freqQueryDistPushed[c]
                           \/ freqQueryDistPushed'[c] <= PushedSoFar(c)'
      BY <1>1, <2>1, <3>2 DEF TypeOK, PerCell
    <3>4. QED
      BY <1>1, <1>2, <1>3, <2>1, <3>1, <3>3, BehindStays DEF CountInv
  <2>4. QED
    BY <1>4, <2>3 DEF CountInv
<1>9. QED
  BY <1>7, <1>8

\* A router or a worker counts its query as completed.
LEMMA CompletedCounted ==
  ASSUME PoolInv, PoolInv', CountInv, NEW t \in Routers \cup Workers,
         LoadCompleted(t) \/ StoreCompleted(t)
  PROVE  CountInv'
<1>1. TypeOK /\ TypeOK' /\ ~(t \in Routers /\ t \in Workers) /\ query[t] \in Cells /\ t \in Threads
  BY ThreadsAssumption DEF PoolInv, Located, LoadCompleted, StoreCompleted, Threads
<1>2. /\ UNCHANGED <<query, routed, jobs, qExecutedMice, freqQueryDistPushed>>
      /\ \A s \in Threads \ {t} : pc'[s] = pc[s]
      /\ \A s \in (Routers \cup Workers) \ {t} : reg'[s] = reg[s]
      /\ LoadCompleted(t) => pc[t] = "loadCompleted" /\ pc'[t] = "storeCompleted"
      /\ StoreCompleted(t) =>
           pc[t] = "storeCompleted" /\ pc'[t] = IF t \in Routers THEN "push" ELSE "count"
  BY <1>1 DEF LoadCompleted, StoreCompleted, Goto, TypeOK, counters, work, history
<1>3. OnlyMoves(t)
  BY <1>2 DEF OnlyMoves, Threads
<1>4. EmptyHanded' /\ NoQueryLost'
  <2>1. pc'[t] \notin {"draw", "poll"}
    BY <1>2
  <2>2. QED
    BY <1>1, <1>2, <1>3, <2>1, OnTheWay
<1>5. PICK d \in Cells : d = query[t]
  BY <1>1
<1>6. ASSUME NEW c \in Cells
      PROVE  /\ PushedSoFar(c) = PushedSoFar(c)'
             /\ LoadCompleted(t) => CompletedSoFar(c)' = CompletedSoFar(c)
             /\ StoreCompleted(t) =>
                  CompletedSoFar(c)' = CompletedSoFar(c) + IF c = d THEN 1 ELSE 0
             /\ CompletedSoFar(c) \in Nat
  <2>1. /\ Share(t, Workers, c, {"count"}) = 0 /\ Share(t, Routers, c, {"push"}) = 0
        /\ Share(t, Routers, c, AfterPushed)' = Share(t, Routers, c, AfterPushed)
        /\ Share(t, Routers, c, AfterPushed) \in {0, 1}
    BY <1>2 DEF Share, AfterPushed
  <2>2. /\ LoadCompleted(t) => /\ Share(t, Workers, c, {"count"})' = 0
                               /\ Share(t, Routers, c, {"push"})' = 0
        /\ StoreCompleted(t) =>
             /\ Share(t, Workers, c, {"count"})' = IF t \in Workers /\ c = d THEN 1 ELSE 0
             /\ Share(t, Routers, c, {"push"})' = IF t \in Routers /\ c = d THEN 1 ELSE 0
    BY <1>1, <1>2, <1>5 DEF Share
  <2>3. Executed(c)' = Executed(c) /\ routed'[c] = routed[c]
    BY <1>1, <1>2, StockSame
  <2>4. routed[c] \in Nat /\ Executed(c) \in Nat
    BY <1>1, StockNat DEF TypeOK, PerCell
  <2>5. PushedSoFar(c) \in Nat /\ CompletedSoFar(c) \in Nat
    BY <1>1, <1>3, SoFarChange
  <2>6. QED
    BY <1>1, <1>3, <2>1, <2>2, <2>3, <2>4, SoFarChange
<1>7. \A c \in Cells : /\ PushedSoFar(c) <= PushedSoFar(c)'
                       /\ CompletedSoFar(c) <= CompletedSoFar(c)'
  BY <1>1, <1>3, <1>6, SoFarChange
<1>8. CASE LoadCompleted(t)
  <2>1. reg'[t] = freqQueryDistCompleted[d] /\ UNCHANGED counters
    BY <1>1, <1>5, <1>8 DEF LoadCompleted, TypeOK
  <2>2. freqQueryDistCompleted[d] <= CompletedSoFar(d)
    BY DEF CountInv, Behind
  <2>3. reg'[t] <= CompletedSoFar(d)'
    BY <1>6, <1>8, <2>1, <2>2
  <2>4. Behind'
    BY <1>1, <1>2, <1>3, <1>5, <1>7, <1>8, <2>1, <2>3, BehindStays DEF CountInv, counters
  <2>5. QED
    BY <1>4, <2>4 DEF CountInv
<1>9. CASE StoreCompleted(t)
  <2>1. freqQueryDistCompleted' = [freqQueryDistCompleted EXCEPT ![d] = reg[t] + 1]
    BY <1>1, <1>5, <1>9 DEF StoreCompleted
  <2>2. reg[t] <= CompletedSoFar(d) /\ reg[t] \in Nat
    BY <1>1, <1>2, <1>5, <1>9 DEF CountInv, Behind, TypeOK
  <2>3. freqQueryDistCompleted'[d] <= CompletedSoFar(d)'
    <3>1. freqQueryDistCompleted'[d] = reg[t] + 1
      BY <1>1, <2>1 DEF TypeOK, PerCell
    <3>2. CompletedSoFar(d)' = CompletedSoFar(d) + 1 /\ CompletedSoFar(d) \in Nat
      BY <1>6, <1>9
    <3>3. QED
      BY <2>2, <3>1, <3>2
  <2>4. \A c \in Cells : \/ freqQueryDistCompleted'[c] = freqQueryDistCompleted[c]
                         \/ freqQueryDistCompleted'[c] <= CompletedSoFar(c)'
    BY <1>1, <2>1, <2>3 DEF TypeOK, PerCell
  <2>5. pc'[t] \notin {"storePushed", "storeCompleted"}
    BY <1>2, <1>9
  <2>6. Behind'
    BY <1>1, <1>2, <1>3, <1>7, <2>4, <2>5, BehindStays DEF CountInv
  <2>7. QED
    BY <1>4, <2>6 DEF CountInv
<1>10. QED
  BY <1>8, <1>9

\* A router draws a query: nobody has counted it.
LEMMA DrawCounted ==
  ASSUME PoolInv, PoolInv', CountInv, NEW r \in Routers, DrawQuery(r)
  PROVE  CountInv'
<1>1. TypeOK /\ TypeOK' /\ r \notin Workers /\ r \in Threads
  BY ThreadsAssumption DEF PoolInv, Threads
<1>2. /\ UNCHANGED <<reg, counters, routed, jobs, qExecutedMice>>
      /\ \A s \in Threads \ {r} : pc'[s] = pc[s]
      /\ \A s \in (Routers \cup Workers) \ {r} : query'[s] = query[s]
      /\ pc[r] = "draw" /\ pc'[r] = "loadPushed"
  BY <1>1 DEF DrawQuery, Goto, TypeOK, work
<1>3. OnlyMoves(r)
  BY <1>2 DEF OnlyMoves, Threads
<1>4. EmptyHanded'
  BY <1>1, <1>2, <1>3 DEF OnlyMoves, CountInv, EmptyHanded
<1>5. NoQueryLost'
  BY <1>1, <1>2, NothingMoved DEF CountInv
<1>6. ASSUME NEW c \in Cells
      PROVE  PushedSoFar(c) <= PushedSoFar(c)' /\ CompletedSoFar(c) <= CompletedSoFar(c)'
  <2>1. /\ Share(r, Workers, c, {"count"}) = 0 /\ Share(r, Workers, c, {"count"})' = 0
        /\ Share(r, Routers, c, {"push"}) = 0 /\ Share(r, Routers, c, {"push"})' = 0
        /\ Share(r, Routers, c, AfterPushed) = 0 /\ Share(r, Routers, c, AfterPushed)' = 0
    BY <1>1, <1>2 DEF Share, AfterPushed
  <2>2. Executed(c)' = Executed(c) /\ routed'[c] = routed[c]
    BY <1>1, <1>2, StockSame
  <2>3. routed[c] \in Nat /\ Executed(c) \in Nat
    BY <1>1, StockNat DEF TypeOK, PerCell
  <2>4. QED
    BY <1>1, <1>3, <2>1, <2>2, <2>3, SoFarChange
<1>7. Behind'
  BY <1>1, <1>2, <1>3, <1>6, BehindStays DEF CountInv, counters
<1>8. QED
  BY <1>4, <1>5, <1>7 DEF CountInv

\* A router pushes its query: out of its hands and into the queue of a worker.
LEMMA PushCounted ==
  ASSUME PoolInv, PoolInv', CountInv, NEW r \in Routers, PushJob(r)
  PROVE  CountInv'
<1>1. TypeOK /\ TypeOK' /\ r \notin Workers /\ query[r] \in Cells /\ r \in Threads
  BY ThreadsAssumption DEF PoolInv, Located, PushJob, Threads
<1>2. PICK d \in Cells : d = query[r]
  BY <1>1
<1>3. PICK w \in Workers : w = idCPU[d]
  BY PlacementAssumption
<1>4. /\ UNCHANGED <<reg, counters, qExecutedMice>>
      /\ \A s \in Threads \ {r} : pc'[s] = pc[s]
      /\ \A s \in (Routers \cup Workers) \ {r} : query'[s] = query[s]
      /\ pc[r] = "push" /\ pc'[r] = "draw" /\ query'[r] = NoQuery
  BY <1>1 DEF PushJob, Goto, TypeOK
<1>5. /\ \A c \in Cells : /\ jobs'[w][c] = jobs[w][c] + IF c = d THEN 1 ELSE 0
                          /\ routed'[c] = routed[c] + IF c = d THEN 1 ELSE 0
                          /\ jobs[w][c] \in Nat /\ qExecutedMice[w][c] \in Nat
                          /\ routed[c] \in Nat
      /\ \A v \in Workers \ {w} : jobs'[v] = jobs[v]
  <2>1. /\ jobs' = [jobs EXCEPT ![w][d] = @ + 1]
        /\ routed' = [routed EXCEPT ![d] = @ + 1]
    BY <1>2, <1>3 DEF PushJob
  <2>2. /\ \A v \in Workers : jobs[v] \in [Cells -> Nat] /\ qExecutedMice[v] \in [Cells -> Nat]
        /\ jobs \in [Workers -> PerCell] /\ routed \in [Cells -> Nat]
    BY <1>1 DEF TypeOK, PerCell
  <2>3. jobs'[w] = [jobs[w] EXCEPT ![d] = @ + 1] /\ \A v \in Workers \ {w} : jobs'[v] = jobs[v]
    BY <2>1, <2>2
  <2>4. QED
    BY <2>1, <2>2, <2>3
<1>6. OnlyMoves(r)
  BY <1>4 DEF OnlyMoves, Threads
<1>7. EmptyHanded'
  BY <1>1, <1>4, <1>6 DEF OnlyMoves, CountInv, EmptyHanded
<1>8. NoQueryLost'
  <2> SUFFICES ASSUME NEW c \in Cells PROVE routed'[c] = InHand(c)' + Stock(c)'
    BY DEF NoQueryLost, Stock
  <2>1. routed[c] = InHand(c) + Stock(c)
    BY DEF CountInv, NoQueryLost, Stock
  <2>2. InHand(c)' = InHand(c) /\ InHand(c) \in Nat
    <3>1. \A s \in Workers \ {r} : query'[s] = query[s]
      BY <1>4
    <3>2. QED
      BY <1>1, <3>1, HandChange
  <2>3. /\ Stock(c) \in Nat /\ Stock(c)' \in Nat
        /\ Stock(c)' + jobs[w][c] + qExecutedMice[w][c] =
             Stock(c) + jobs'[w][c] + qExecutedMice'[w][c]
    <3>1. \A v \in Workers \ {w} : jobs'[v] = jobs[v] /\ qExecutedMice'[v] = qExecutedMice[v]
      BY <1>4, <1>5
    <3>2. QED
      BY <1>1, <3>1, StockChange
  <2>4. QED
    BY <1>4, <1>5, <2>1, <2>2, <2>3
<1>9. ASSUME NEW c \in Cells
      PROVE  PushedSoFar(c) <= PushedSoFar(c)' /\ CompletedSoFar(c) <= CompletedSoFar(c)'
  <2>1. /\ Share(r, Workers, c, {"count"}) = 0 /\ Share(r, Workers, c, {"count"})' = 0
        /\ Share(r, Routers, c, {"push"}) = IF c = d THEN 1 ELSE 0
        /\ Share(r, Routers, c, {"push"})' = 0
        /\ Share(r, Routers, c, AfterPushed) = IF c = d THEN 1 ELSE 0
        /\ Share(r, Routers, c, AfterPushed)' = 0
    BY <1>1, <1>2, <1>4 DEF Share, AfterPushed
  <2>2. Executed(c)' = Executed(c) /\ Executed(c) \in Nat
    BY <1>1, <1>4, StockNat DEF Executed
  <2>3. QED
    BY <1>1, <1>5, <1>6, <2>1, <2>2, SoFarChange
<1>10. Behind'
  BY <1>1, <1>4, <1>6, <1>9, BehindStays DEF CountInv, counters
<1>11. QED
  BY <1>7, <1>8, <1>10 DEF CountInv

\* A worker takes a query out of its queue and into its hands.
LEMMA PopCounted ==
  ASSUME PoolInv, PoolInv', CountInv, NEW w \in Workers, PopJob(w)
  PROVE  CountInv'
<1>1. TypeOK /\ TypeOK' /\ w \notin Routers /\ w \in Threads
  BY ThreadsAssumption DEF PoolInv, Threads
<1>2. PICK d \in Cells : /\ jobs[w][d] > 0
                         /\ jobs' = [jobs EXCEPT ![w][d] = @ - 1]
                         /\ query' = [query EXCEPT ![w] = d]
  BY DEF PopJob
<1>3. /\ UNCHANGED <<reg, counters, qExecutedMice, routed>>
      /\ \A s \in Threads \ {w} : pc'[s] = pc[s]
      /\ \A s \in (Routers \cup Workers) \ {w} : query'[s] = query[s]
      /\ pc[w] = "poll" /\ pc'[w] \in {"sample", "loadCompleted"} /\ query'[w] = d
  BY <1>1, <1>2 DEF PopJob, Goto, TypeOK, history
<1>4. /\ \A c \in Cells : /\ jobs'[w][c] = IF c = d THEN jobs[w][c] - 1 ELSE jobs[w][c]
                          /\ jobs[w][c] \in Nat /\ qExecutedMice[w][c] \in Nat
                          /\ routed[c] \in Nat
      /\ \A v \in Workers \ {w} : jobs'[v] = jobs[v]
  BY <1>1, <1>2 DEF TypeOK, PerCell
<1>5. OnlyMoves(w)
  BY <1>3 DEF OnlyMoves, Threads
<1>6. EmptyHanded'
  BY <1>1, <1>3, <1>5 DEF OnlyMoves, CountInv, EmptyHanded
<1>7. NoQueryLost'
  <2> SUFFICES ASSUME NEW c \in Cells PROVE routed'[c] = InHand(c)' + Stock(c)'
    BY DEF NoQueryLost, Stock
  <2>1. routed[c] = InHand(c) + Stock(c)
    BY DEF CountInv, NoQueryLost, Stock
  <2>2. /\ InHand(c)' = InHand(c) + IF c = d THEN 1 ELSE 0
        /\ InHand(c) \in Nat
    <3>1. query[w] = NoQuery
      BY <1>3 DEF CountInv, EmptyHanded
    <3>2. query[w] # c
      BY <3>1, CellsAssumption
    <3>3. \A s \in Workers \ {w} : query'[s] = query[s]
      BY <1>3
    <3>4. QED
      BY <1>3, <3>2, <3>3, HandChange
  <2>3. /\ Stock(c) \in Nat /\ Stock(c)' \in Nat
        /\ Stock(c)' + jobs[w][c] + qExecutedMice[w][c] =
             Stock(c) + jobs'[w][c] + qExecutedMice'[w][c]
    <3>1. \A v \in Workers \ {w} : jobs'[v] = jobs[v] /\ qExecutedMice'[v] = qExecutedMice[v]
      BY <1>3, <1>4
    <3>2. QED
      BY <1>1, <3>1, StockChange
  <2>4. QED
    BY <1>2, <1>3, <1>4, <2>1, <2>2, <2>3
<1>8. ASSUME NEW c \in Cells
      PROVE  PushedSoFar(c) <= PushedSoFar(c)' /\ CompletedSoFar(c) <= CompletedSoFar(c)'
  <2>1. /\ Share(w, Workers, c, {"count"}) = 0 /\ Share(w, Workers, c, {"count"})' = 0
        /\ Share(w, Routers, c, {"push"}) = 0 /\ Share(w, Routers, c, {"push"})' = 0
        /\ Share(w, Routers, c, AfterPushed) = 0 /\ Share(w, Routers, c, AfterPushed)' = 0
    BY <1>1, <1>3 DEF Share, AfterPushed
  <2>2. Executed(c)' = Executed(c) /\ Executed(c) \in Nat
    BY <1>1, <1>3, StockNat DEF Executed
  <2>3. QED
    BY <1>1, <1>3, <1>4, <1>5, <2>1, <2>2, SoFarChange
<1>9. Behind'
  BY <1>1, <1>3, <1>5, <1>8, BehindStays DEF CountInv, counters
<1>10. QED
  BY <1>6, <1>7, <1>9 DEF CountInv

\* A worker leaves a sample before it counts the query it holds.
LEMMA SampleCounted ==
  ASSUME PoolInv, PoolInv', CountInv, NEW w \in Workers, PushSample(w)
  PROVE  CountInv'
<1>1. TypeOK /\ TypeOK' /\ w \notin Routers /\ w \in Threads
  BY ThreadsAssumption DEF PoolInv, Threads
<1>2. /\ UNCHANGED <<query, reg, counters, jobs, qExecutedMice, routed>>
      /\ \A s \in Threads \ {w} : pc'[s] = pc[s]
      /\ pc[w] = "sample" /\ pc'[w] = "loadCompleted"
  BY <1>1 DEF PushSample, LeaveSample, Goto, TypeOK
<1>3. OnlyMoves(w)
  BY <1>2 DEF OnlyMoves, Threads
<1>4. EmptyHanded' /\ NoQueryLost'
  BY <1>1, <1>2, <1>3, OnTheWay
<1>5. ASSUME NEW c \in Cells
      PROVE  PushedSoFar(c) <= PushedSoFar(c)' /\ CompletedSoFar(c) <= CompletedSoFar(c)'
  <2>1. /\ Share(w, Workers, c, {"count"}) = 0 /\ Share(w, Workers, c, {"count"})' = 0
        /\ Share(w, Routers, c, {"push"}) = 0 /\ Share(w, Routers, c, {"push"})' = 0
        /\ Share(w, Routers, c, AfterPushed) = 0 /\ Share(w, Routers, c, AfterPushed)' = 0
    BY <1>1, <1>2 DEF Share, AfterPushed
  <2>2. Executed(c)' = Executed(c) /\ routed'[c] = routed[c]
    BY <1>1, <1>2, StockSame
  <2>3. routed[c] \in Nat /\ Executed(c) \in Nat
    BY <1>1, StockNat DEF TypeOK, PerCell
  <2>4. QED
    BY <1>1, <1>3, <2>1, <2>2, <2>3, SoFarChange
<1>6. Behind'
  BY <1>1, <1>2, <1>3, <1>5, BehindStays DEF CountInv, counters
<1>7. QED
  BY <1>4, <1>6 DEF CountInv

\* A worker counts the query it held as executed.
LEMMA ExecutionCounted ==
  ASSUME PoolInv, PoolInv', CountInv, NEW w \in Workers, CountExecuted(w)
  PROVE  CountInv'
<1>1. TypeOK /\ TypeOK' /\ w \notin Routers /\ query[w] \in Cells /\ w \in Threads
  BY ThreadsAssumption DEF PoolInv, Located, CountExecuted, SetExecuted, Threads
<1>2. PICK d \in Cells : d = query[w]
  BY <1>1
<1>3. /\ UNCHANGED <<reg, counters, jobs, routed>>
      /\ \A s \in Threads \ {w} : pc'[s] = pc[s]
      /\ \A s \in (Routers \cup Workers) \ {w} : query'[s] = query[s]
      /\ pc[w] = "count" /\ pc'[w] = "poll" /\ query'[w] = NoQuery
  BY <1>1 DEF CountExecuted, SetExecuted, Goto, TypeOK, history
<1>4. /\ \A c \in Cells :
           /\ qExecutedMice'[w][c] = qExecutedMice[w][c] + IF c = d THEN 1 ELSE 0
           /\ jobs[w][c] \in Nat /\ qExecutedMice[w][c] \in Nat /\ routed[c] \in Nat
      /\ \A v \in Workers \ {w} : qExecutedMice'[v] = qExecutedMice[v]
  <2>1. qExecutedMice' = [qExecutedMice EXCEPT ![w][d] = qExecutedMice[w][d] + 1]
    BY <1>2 DEF CountExecuted, SetExecuted
  <2>2. /\ \A v \in Workers : jobs[v] \in [Cells -> Nat] /\ qExecutedMice[v] \in [Cells -> Nat]
        /\ qExecutedMice \in [Workers -> PerCell] /\ routed \in [Cells -> Nat]
    BY <1>1 DEF TypeOK, PerCell
  <2>3. /\ qExecutedMice'[w] = [qExecutedMice[w] EXCEPT ![d] = qExecutedMice[w][d] + 1]
        /\ \A v \in Workers \ {w} : qExecutedMice'[v] = qExecutedMice[v]
    BY <2>1, <2>2
  <2>4. QED
    BY <2>2, <2>3
<1>5. OnlyMoves(w)
  BY <1>3 DEF OnlyMoves, Threads
<1>6. EmptyHanded'
  BY <1>1, <1>3, <1>5 DEF OnlyMoves, CountInv, EmptyHanded
<1>7. ASSUME NEW c \in Cells
      PROVE  /\ Stock(c) \in Nat /\ Stock(c)' \in Nat
             /\ Executed(c) \in Nat /\ Executed(c)' \in Nat
             /\ Stock(c)' = Stock(c) + IF c = d THEN 1 ELSE 0
             /\ Executed(c)' = Executed(c) + IF c = d THEN 1 ELSE 0
  <2>1. \A v \in Workers \ {w} : jobs'[v] = jobs[v] /\ qExecutedMice'[v] = qExecutedMice[v]
    BY <1>3, <1>4
  <2>2. jobs'[w][c] = jobs[w][c]
    BY <1>3
  <2>3. QED
    BY <1>1, <1>4, <2>1, <2>2, StockChange
<1>8. NoQueryLost'
  <2> SUFFICES ASSUME NEW c \in Cells PROVE routed'[c] = InHand(c)' + Stock(c)'
    BY DEF NoQueryLost, Stock
  <2>1. routed[c] = InHand(c) + Stock(c)
    BY DEF CountInv, NoQueryLost, Stock
  <2>2. /\ InHand(c)' + (IF c = d THEN 1 ELSE 0) = InHand(c)
        /\ InHand(c) \in Nat /\ InHand(c)' \in Nat
    <3>1. query'[w] # c
      BY <1>3, CellsAssumption
    <3>2. \A s \in Workers \ {w} : query'[s] = query[s]
      BY <1>3
    <3>3. query[w] = c <=> c = d
      BY <1>2
    <3>4. /\ InHand(c) \in Nat /\ InHand(c)' \in Nat
          /\ InHand(c)' + (IF w \in Workers /\ query[w] = c THEN 1 ELSE 0) =
             InHand(c) + (IF w \in Workers /\ query'[w] = c THEN 1 ELSE 0)
      BY <3>2, HandChange
    <3>5. QED
      BY <3>1, <3>3, <3>4
  <2>3. QED
    BY <1>3, <1>7, <2>1, <2>2
<1>9. ASSUME NEW c \in Cells
      PROVE  PushedSoFar(c) <= PushedSoFar(c)' /\ CompletedSoFar(c) <= CompletedSoFar(c)'
  <2>1. /\ Share(w, Workers, c, {"count"}) = IF c = d THEN 1 ELSE 0
        /\ Share(w, Workers, c, {"count"})' = 0
        /\ Share(w, Routers, c, {"push"}) = 0 /\ Share(w, Routers, c, {"push"})' = 0
        /\ Share(w, Routers, c, AfterPushed) = 0 /\ Share(w, Routers, c, AfterPushed)' = 0
    BY <1>1, <1>2, <1>3 DEF Share, AfterPushed
  <2>2. routed'[c] = routed[c] /\ routed[c] \in Nat
    BY <1>3, <1>4
  <2>3. QED
    BY <1>1, <1>5, <1>7, <2>1, <2>2, SoFarChange
<1>10. Behind'
  BY <1>1, <1>3, <1>5, <1>9, BehindStays DEF CountInv, counters
<1>11. QED
  BY <1>6, <1>8, <1>10 DEF CountInv

\* The sweepers touch no query.
LEMMA SweeperCounted ==
  ASSUME PoolInv, PoolInv', CountInv, NEW n \in NumaNodes, Sweeper(n)
  PROVE  CountInv'
<1>1. /\ TypeOK /\ TypeOK' /\ n \notin Routers \cup Workers
      /\ Routers \cup Workers \subseteq Threads \ {n}
  BY ThreadsAssumption DEF PoolInv, Threads
<1>2. /\ \A s \in Threads \ {n} : pc'[s] = pc[s]
      /\ UNCHANGED <<query, reg, counters, jobs, qExecutedMice, routed>>
  <2>1. CASE CheckRunning(n)
    BY <1>1, <2>1 DEF CheckRunning, Goto, TypeOK, work, history
  <2>2. CASE PushToken(n)
    BY <1>1, <2>2 DEF PushToken, Advance, Goto, TypeOK, work
  <2>3. CASE PushPcmToken(n)
    BY <1>1, <2>3 DEF PushPcmToken, Goto, TypeOK, work, history
  <2>4. CASE TakeSample(n)
    BY <1>1, <2>4 DEF TakeSample, TakeUntil, Advance, Goto, TypeOK, work, history
  <2>5. CASE ReportSamples(n)
    BY <1>1, <2>5 DEF ReportSamples, Goto, TypeOK, work, history
  <2>6. CASE TakeExecuted(n)
    BY <1>1, <2>6 DEF TakeExecuted, Advance, Goto, TypeOK, work, history
  <2>7. CASE ReportExecuted(n)
    BY <1>1, <2>7 DEF ReportExecuted, Goto, TypeOK, work, history
  <2>8. CASE TakePcm(n)
    BY <1>1, <2>8 DEF TakePcm, Goto, TypeOK, work, history
  <2>9. CASE ReportPcm(n)
    BY <1>1, <2>9 DEF ReportPcm, Goto, TypeOK, work, history
  <2>10. QED
    BY <2>1, <2>2, <2>3, <2>4, <2>5, <2>6, <2>7, <2>8, <2>9 DEF Sweeper
<1>3. OnlyMoves(n)
  BY <1>1, <1>2 DEF OnlyMoves
<1>4. QED
  BY <1>1, <1>2, <1>3, QuietStep

\* Neither do main and the system sweeper.
LEMMA MainCounted ==
  ASSUME PoolInv, PoolInv', CountInv, Main \/ SysSweeper \/ UNCHANGED vars
  PROVE  CountInv'
<1>1. /\ TypeOK /\ TypeOK' /\ main \notin Routers \cup Workers
      /\ Routers \cup Workers \subseteq Threads \ {main}
  BY ThreadsAssumption DEF PoolInv, Threads
<1>2. /\ \A s \in Threads \ {main} : pc'[s] = pc[s]
      /\ UNCHANGED <<query, reg, counters, jobs, qExecutedMice, routed>>
  <2>1. CASE Main
    <3>1. ASSUME NEW n \in NumaNodes, Terminate(n) \/ DumpReel(n)
          PROVE  UNCHANGED <<pc, query, reg, counters, jobs, qExecutedMice, routed>>
      BY <3>1 DEF Terminate, DumpReel, work, history
    <3>2. CASE BeginDump \/ Exit
      BY <1>1, <3>2 DEF BeginDump, BeginDumpIf, Exit, Goto, TypeOK, work, history
    <3>3. QED
      BY <2>1, <3>1, <3>2 DEF Main
  <2>2. CASE SysSweeper
    BY <2>2 DEF SysSweeper, work
  <2>3. CASE UNCHANGED vars
    BY <2>3 DEF vars, work, history
  <2>4. QED
    BY <2>1, <2>2, <2>3
<1>3. OnlyMoves(main)
  BY <1>1, <1>2 DEF OnlyMoves
<1>4. QED
  BY <1>1, <1>2, <1>3, QuietStep

\* To begin with there is no query at all.
LEMMA InitCounted == Init => CountInv
<1> SUFFICES ASSUME Init PROVE CountInv
  OBVIOUS
<1>1. TypeOK
  BY InitPool DEF PoolInv
<1>2. \A t \in Routers \cup Workers : query[t] = NoQuery
  BY DEF Init
<1>3. ASSUME NEW c \in Cells
      PROVE  /\ routed[c] = 0 /\ freqQueryDistPushed[c] = 0 /\ freqQueryDistCompleted[c] = 0
             /\ InHand(c) = 0 /\ Stock(c) = 0 /\ Executed(c) = 0
             /\ PushedSoFar(c) = 0 /\ CompletedSoFar(c) = 0
  <2>1. routed[c] = 0 /\ freqQueryDistPushed[c] = 0 /\ freqQueryDistCompleted[c] = 0
    BY DEF Init, Zero
  <2>2. c # NoQuery
    BY CellsAssumption
  <2>3. InHand(c) = 0
    <3>1. {w \in Workers : query[w] = c} = {}
      BY <1>2, <2>2
    <3>2. QED
      BY <3>1, FS_EmptySet DEF InHand
  <2>4. \A S, L : S \in {Routers, Workers} => Cardinality(Holding(S, c, L)) = 0
    <3>1. \A S, L : S \in {Routers, Workers} => Holding(S, c, L) = {}
      BY <1>2, <2>2 DEF Holding
    <3>2. QED
      BY <3>1, FS_EmptySet
  <2>5. Stock(c) = 0 /\ Executed(c) = 0
    <3> DEFINE f == [w \in Workers |-> jobs[w][c] + qExecutedMice[w][c]]
               e == [w \in Workers |-> qExecutedMice[w][c]]
    <3>1. \A w \in Workers : f[w] = 0 /\ e[w] = 0
      BY DEF Init, Zero
    <3>2. Stock(c) = SumFunctionOnSet(f, Workers) /\ Executed(c) = SumFunctionOnSet(e, Workers)
      BY DEF Stock, Executed, SumFunction
    <3> HIDE DEF f, e
    <3>3. QED
      BY <3>1, <3>2, WorkersFinite, SumNone
  <2>6. QED
    BY <2>1, <2>3, <2>4, <2>5 DEF PushedSoFar, CompletedSoFar
<1>4. NoQueryLost
  BY <1>3 DEF NoQueryLost, Stock
<1>5. Behind
  <2>1. \A t \in Routers \cup Workers, c \in Cells : query[t] # c
    BY <1>2, CellsAssumption
  <2>2. \A c \in Cells : /\ freqQueryDistPushed[c] <= PushedSoFar(c)
                         /\ freqQueryDistCompleted[c] <= CompletedSoFar(c)
    BY <1>3
  <2>3. QED
    BY <2>1, <2>2 DEF Behind
<1>6. QED
  BY <1>2, <1>4, <1>5 DEF CountInv, EmptyHanded

\* Every step keeps the queries counted.
LEMMA NextCounted ==
  ASSUME PoolInv, PoolInv', CountInv, [Next]_vars
  PROVE  CountInv'
<1>1. ASSUME NEW r \in Routers, Router(r) PROVE CountInv'
  BY <1>1, PushedCounted, CompletedCounted, DrawCounted, PushCounted DEF Router
<1>2. ASSUME NEW w \in Workers, Worker(w) PROVE CountInv'
  BY <1>2, CompletedCounted, PopCounted, SampleCounted, ExecutionCounted DEF Worker
<1>3. QED
  BY <1>1, <1>2, SweeperCounted, MainCounted DEF Next, Exited

(***************************************************************************)
(* No query that a router pushes to a worker is lost or executed twice:    *)
(* it is in a queue, in the hands of one worker, or counted by one.  The   *)
(* frequencies of the grid manager, which all threads add to without       *)
(* synchronisation, stay behind the true ones: a lost update is never made *)
(* up for.                                                                 *)
(***************************************************************************)
THEOREM QueriesCounted == Spec => []QueriesAccountedFor
<1>1. Init => PoolInv /\ CountInv
  BY InitPool, InitCounted
<1>2. (PoolInv /\ CountInv) /\ [Next]_vars => (PoolInv /\ CountInv)'
  BY NextPool, NextCounted
<1>3. PoolInv /\ CountInv => QueriesAccountedFor
  <2> SUFFICES ASSUME PoolInv, CountInv, NEW c \in Cells
               PROVE  LET handed   == Cardinality({r \in Routers : query[r] = c})
                          executed == SumFunction([w \in Workers |-> qExecutedMice[w][c]])
                      IN  /\ freqQueryDistPushed[c] <= routed[c] + handed
                          /\ freqQueryDistCompleted[c]
                               <= routed[c] + handed + executed + InHand(c)
    BY DEF CountInv, QueriesAccountedFor, CountersNeverAhead
  <2> DEFINE hand == {r \in Routers : query[r] = c}
             busy == {w \in Workers : query[w] = c}
  <2>1. /\ Cardinality(hand) \in Nat /\ Cardinality(busy) \in Nat
        /\ \A L : /\ Cardinality(Holding(Routers, c, L)) <= Cardinality(hand)
                  /\ Cardinality(Holding(Workers, c, L)) <= Cardinality(busy)
                  /\ Cardinality(Holding(Routers, c, L)) \in Nat
                  /\ Cardinality(Holding(Workers, c, L)) \in Nat
    <3>1. IsFiniteSet(hand) /\ IsFiniteSet(busy)
      <4>1. hand \subseteq Routers /\ busy \subseteq Workers
        OBVIOUS
      <4>2. QED
        BY <4>1, FiniteAssumption, WorkersFinite, FS_Subset
    <3>2. \A L : Holding(Routers, c, L) \subseteq hand /\ Holding(Workers, c, L) \subseteq busy
      BY DEF Holding
    <3> HIDE DEF hand, busy
    <3>3. QED
      BY <3>1, <3>2, FS_Subset, FS_CardinalityType
  <2>2. routed[c] \in Nat /\ Executed(c) \in Nat
    BY StockNat DEF PoolInv, TypeOK, PerCell
  <2>3. freqQueryDistPushed[c] \in Nat /\ freqQueryDistCompleted[c] \in Nat
    BY DEF PoolInv, TypeOK, PerCell
  <2>4. freqQueryDistPushed[c] <= PushedSoFar(c) /\ freqQueryDistCompleted[c] <= CompletedSoFar(c)
    BY DEF CountInv, Behind
  <2>5. Executed(c) = SumFunction([w \in Workers |-> qExecutedMice[w][c]])
    BY DEF Executed
  <2>6. InHand(c) = Cardinality(busy)
    BY DEF InHand
  <2> HIDE DEF hand, busy
  <2>7. /\ freqQueryDistPushed[c] <= routed[c] + Cardinality(hand)
        /\ freqQueryDistCompleted[c] <= routed[c] + Cardinality(hand) + Executed(c) + InHand(c)
    BY <2>1, <2>2, <2>3, <2>4, <2>6 DEF PushedSoFar, CompletedSoFar
  <2>8. QED
    BY <2>5, <2>7 DEF hand
<1>4. QED
  BY <1>1, <1>2, <1>3, PTL DEF Spec

-------------------------------------------------------------------------------
\* The queue of a worker: its samples of a cell, the tokens, and the samples
\* behind the last token.
Entry == [qType : {"sample", "token"}, gIdx : Cells \cup {NoQuery}]
Waiting(q, c) == {i \in DOMAIN q : q[i].gIdx = c}
Tokens(q)  == {i \in DOMAIN q : q[i] = Token}
Signals(q) == {i \in DOMAIN q : q[i].qType = "token"}
Late(q, c) == {i \in Waiting(q, c) : \A j \in Tokens(q) : j < i}

\* The samples of a queue can be counted.
LEMMA QueueCounted ==
  ASSUME NEW q \in Seq(Entry), NEW c
  PROVE  /\ IsFiniteSet(Waiting(q, c)) /\ IsFiniteSet(Late(q, c))
         /\ Cardinality(Waiting(q, c)) \in Nat /\ Cardinality(Late(q, c)) \in Nat
         /\ Cardinality(Late(q, c)) <= Cardinality(Waiting(q, c))
<1>1. DOMAIN q = 1..Len(q) /\ IsFiniteSet(1..Len(q))
  <2>1. Len(q) \in Nat /\ DOMAIN q = 1..Len(q)
    OBVIOUS
  <2>2. QED
    BY <2>1, FS_Interval
<1>2. Waiting(q, c) \subseteq 1..Len(q) /\ Late(q, c) \subseteq Waiting(q, c)
  BY <1>1 DEF Waiting, Late
<1>3. IsFiniteSet(Waiting(q, c))
  BY <1>1, <1>2, FS_Subset
<1>4. QED
  BY <1>2, <1>3, FS_Subset, FS_CardinalityType

\* A sample that is pushed waits behind every token.
LEMMA SampleBehind ==
  ASSUME NEW q \in Seq(Entry), NEW e \in Entry, e.gIdx \in Cells, NEW c \in Cells
  PROVE  LET p == Append(q, e)
             one == IF e.gIdx = c THEN 1 ELSE 0
         IN  /\ Tokens(p) = Tokens(q)
             /\ e.qType = "sample" => Signals(p) = Signals(q)
             /\ Cardinality(Waiting(p, c)) = Cardinality(Waiting(q, c)) + one
             /\ Cardinality(Late(p, c)) = Cardinality(Late(q, c)) + one
<1> DEFINE p == Append(q, e)
           new == IF e.gIdx = c THEN {Len(q) + 1} ELSE {}
<1>1. /\ Len(q) \in Nat /\ DOMAIN q = 1..Len(q) /\ DOMAIN p = 1..(Len(q) + 1)
      /\ p[Len(q) + 1] = e /\ \A i \in 1..Len(q) : p[i] = q[i]
  OBVIOUS
<1>2. e # Token
  BY CellsAssumption DEF Token
<1> HIDE DEF p
<1>3. Tokens(p) = Tokens(q) /\ (e.qType = "sample" => Signals(p) = Signals(q))
  BY <1>1, <1>2 DEF Tokens, Signals
<1>4. Waiting(p, c) = Waiting(q, c) \cup new /\ Len(q) + 1 \notin Waiting(q, c)
  BY <1>1 DEF Waiting
<1>5. Late(p, c) = Late(q, c) \cup new /\ Len(q) + 1 \notin Late(q, c)
  <2>1. \A j \in Tokens(q) : j < Len(q) + 1
    BY <1>1 DEF Tokens
  <2>2. QED
    BY <1>3, <1>4, <2>1 DEF Late
<1>6. CASE e.gIdx = c
  <2>1. Waiting(p, c) = Waiting(q, c) \cup {Len(q) + 1} /\ Late(p, c) = Late(q, c) \cup {Len(q) + 1}
    BY <1>4, <1>5, <1>6
  <2>2. IsFiniteSet(Waiting(q, c)) /\ IsFiniteSet(Late(q, c))
    BY QueueCounted
  <2>3. /\ Cardinality(Waiting(q, c) \cup {Len(q) + 1}) = Cardinality(Waiting(q, c)) + 1
        /\ Cardinality(Late(q, c) \cup {Len(q) + 1}) = Cardinality(Late(q, c)) + 1
    BY <1>4, <1>5, <2>2, FS_AddElement
  <2>4. QED
    BY <1>3, <1>6, <2>1, <2>3 DEF p
<1>7. CASE e.gIdx # c
  <2>1. Waiting(p, c) = Waiting(q, c) /\ Late(p, c) = Late(q, c)
    BY <1>4, <1>5, <1>7
  <2>2. QED
    BY <1>3, <1>7, <2>1, QueueCounted DEF p
<1>8. QED
  BY <1>6, <1>7

\* A token that is pushed has all samples before it.
LEMMA TokenBehind ==
  ASSUME NEW q \in Seq(Entry), NEW c \in Cells
  PROVE  LET p == Append(q, Token)
         IN  /\ Tokens(p) = Tokens(q) \cup {Len(q) + 1}
             /\ Signals(p) = Signals(q) \cup {Len(q) + 1}
             /\ Waiting(p, c) = Waiting(q, c)
             /\ Late(p, c) = {}
<1> DEFINE p == Append(q, Token)
<1>1. /\ Len(q) \in Nat /\ DOMAIN q = 1..Len(q) /\ DOMAIN p = 1..(Len(q) + 1)
      /\ p[Len(q) + 1] = Token /\ \A i \in 1..Len(q) : p[i] = q[i]
  OBVIOUS
<1>2. Token.gIdx # c /\ Token.qType = "token"
  BY CellsAssumption DEF Token
<1> HIDE DEF p
<1>3. Tokens(p) = Tokens(q) \cup {Len(q) + 1}
  BY <1>1 DEF Tokens
<1>4. Signals(p) = Signals(q) \cup {Len(q) + 1}
  BY <1>1, <1>2 DEF Signals
<1>5. Waiting(p, c) = Waiting(q, c)
  BY <1>1, <1>2 DEF Waiting
<1>6. Late(p, c) = {}
  <2>1. \A i \in Waiting(q, c) : ~(Len(q) + 1 < i)
    BY <1>1 DEF Waiting
  <2>2. QED
    BY <1>3, <1>5, <2>1 DEF Late
<1>7. QED
  BY <1>3, <1>4, <1>5, <1>6 DEF p

\* As many entries one place further to the front.
LEMMA ShiftedCount ==
  ASSUME NEW A, IsFiniteSet(A), A \subseteq Int, NEW B, B = {i - 1 : i \in A}
  PROVE  Cardinality(B) = Cardinality(A)
<1> DEFINE f == [i \in A |-> i - 1]
<1>1. f \in [A -> B] /\ (\A i, j \in A : f[i] = f[j] => i = j) /\ \A b \in B : \E i \in A : f[i] = b
  OBVIOUS
<1>2. f \in Bijection(A, B)
  BY <1>1 DEF Bijection, Injection, Surjection, IsInjective
<1>3. ExistsBijection(A, B)
  BY <1>2 DEF ExistsBijection
<1>4. QED
  BY <1>3, FS_Bijection

\* Taking the front of a queue: while it holds a token, what is behind the last
\* token is not at the front.
LEMMA FrontTaken ==
  ASSUME NEW q \in Seq(Entry), q # <<>>, NEW c \in Cells
  PROVE  LET one == IF Head(q).gIdx = c THEN 1 ELSE 0
         IN  /\ Cardinality(Waiting(Tail(q), c)) + one = Cardinality(Waiting(q, c))
             /\ Tokens(q) # {} => Cardinality(Late(Tail(q), c)) = Cardinality(Late(q, c))
             /\ Tokens(Tail(q)) = {i - 1 : i \in Tokens(q) \ {1}}
             /\ Signals(Tail(q)) = {i - 1 : i \in Signals(q) \ {1}}
<1> DEFINE p == Tail(q)
           W == Waiting(q, c)
           L == Late(q, c)
           T == Tokens(q)
           S == Signals(q)
<1>1. /\ Len(q) \in Nat \ {0} /\ DOMAIN q = 1..Len(q) /\ DOMAIN p = 1..(Len(q) - 1)
      /\ Head(q) = q[1] /\ \A i \in 1..(Len(q) - 1) : p[i] = q[i + 1]
  OBVIOUS
<1> HIDE DEF p
<1>2. W \subseteq 1..Len(q) /\ T \subseteq 1..Len(q) /\ S \subseteq 1..Len(q) /\ L \subseteq W
  BY <1>1 DEF Waiting, Late, Tokens, Signals
<1>3. ASSUME NEW X
      PROVE  {i \in DOMAIN p : p[i] \in X} = {i - 1 : i \in {j \in DOMAIN q : q[j] \in X} \ {1}}
  <2>1. ASSUME NEW i \in DOMAIN p, p[i] \in X
        PROVE  i \in {k - 1 : k \in {j \in DOMAIN q : q[j] \in X} \ {1}}
    <3>1. i + 1 \in DOMAIN q /\ q[i + 1] \in X /\ i + 1 # 1 /\ i = (i + 1) - 1
      BY <1>1, <2>1
    <3>2. QED
      BY <3>1
  <2>2. ASSUME NEW k \in {j \in DOMAIN q : q[j] \in X} \ {1}
        PROVE  k - 1 \in {i \in DOMAIN p : p[i] \in X}
    <3>1. k - 1 \in 1..(Len(q) - 1) /\ (k - 1) + 1 = k
      BY <1>1
    <3>2. QED
      BY <1>1, <3>1
  <2>3. QED
    BY <2>1, <2>2
<1>4. /\ Waiting(p, c) = {i - 1 : i \in W \ {1}}
      /\ Tokens(p) = {i - 1 : i \in T \ {1}}
      /\ Signals(p) = {i - 1 : i \in S \ {1}}
  <2>1. /\ \A i \in DOMAIN q : q[i] \in Entry
        /\ \A i \in DOMAIN p : p[i] \in Entry
    BY <1>1
  <2>2. Waiting(p, c) = {i - 1 : i \in W \ {1}}
    <3> DEFINE X == {x \in Entry : x.gIdx = c}
    <3>1. W = {i \in DOMAIN q : q[i] \in X} /\ Waiting(p, c) = {i \in DOMAIN p : p[i] \in X}
      BY <2>1 DEF Waiting
    <3> HIDE DEF X, W
    <3>2. QED
      BY <1>3, <3>1
  <2>3. Tokens(p) = {i - 1 : i \in T \ {1}}
    <3>1. T = {i \in DOMAIN q : q[i] \in {Token}} /\ Tokens(p) = {i \in DOMAIN p : p[i] \in {Token}}
      BY DEF Tokens
    <3> HIDE DEF T
    <3>2. QED
      BY <1>3, <3>1
  <2>4. Signals(p) = {i - 1 : i \in S \ {1}}
    <3> DEFINE X == {x \in Entry : x.qType = "token"}
    <3>1. S = {i \in DOMAIN q : q[i] \in X} /\ Signals(p) = {i \in DOMAIN p : p[i] \in X}
      BY <2>1 DEF Signals
    <3> HIDE DEF X, S
    <3>2. QED
      BY <1>3, <3>1
  <2>5. QED
    BY <2>2, <2>3, <2>4
<1>5. IsFiniteSet(W) /\ IsFiniteSet(L) /\ Cardinality(W) \in Nat
  BY QueueCounted
<1>6. 1 \in W <=> Head(q).gIdx = c
  BY <1>1 DEF Waiting
<1>7. Cardinality(Waiting(p, c)) = Cardinality(W \ {1})
  <2>1. IsFiniteSet(W \ {1}) /\ W \ {1} \subseteq Int
    BY <1>2, <1>5, FS_RemoveElement
  <2> HIDE DEF W
  <2>2. QED
    BY <1>4, <2>1, ShiftedCount
<1>8. Cardinality(Waiting(p, c)) + (IF Head(q).gIdx = c THEN 1 ELSE 0) = Cardinality(W)
  <2>1. Cardinality(W \ {1}) = IF 1 \in W THEN Cardinality(W) - 1 ELSE Cardinality(W)
    BY <1>5, FS_RemoveElement
  <2> HIDE DEF W
  <2>2. QED
    BY <1>5, <1>6, <1>7, <2>1
<1>9. ASSUME T # {} PROVE Cardinality(Late(p, c)) = Cardinality(L)
  <2>1. 1 \notin L
    BY <1>2, <1>9 DEF Late
  <2>2. Late(p, c) = {i - 1 : i \in L}
    <3>1. ASSUME NEW i \in W \ {1}
          PROVE  (\A j \in Tokens(p) : j < i - 1) <=> (\A j \in T : j < i)
      <4>1. i \in Int /\ i > 1
        BY <1>2
      <4>2. (\A j \in Tokens(p) : j < i - 1) <=> (\A j \in T \ {1} : j - 1 < i - 1)
        BY <1>4
      <4>3. (\A j \in T \ {1} : j - 1 < i - 1) <=> (\A j \in T : j < i)
        BY <1>2, <4>1
      <4>4. QED
        BY <4>2, <4>3
    <3>2. Late(p, c) = {k \in Waiting(p, c) : \A j \in Tokens(p) : j < k}
      BY DEF Late
    <3>3. L = {k \in W : \A j \in T : j < k}
      BY DEF Late
    <3> HIDE DEF L, W, T
    <3>4. QED
      BY <1>4, <2>1, <3>1, <3>2, <3>3
  <2>3. L \subseteq Int
    BY <1>2
  <2> HIDE DEF L
  <2>4. QED
    BY <1>5, <2>2, <2>3, ShiftedCount
<1>10. QED
  BY <1>4, <1>8, <1>9 DEF p

-------------------------------------------------------------------------------
\* The first i rows of a reel, added up for a cell.
RowSum(reel, i, c) == SumFunctionOnSet([j \in 1..i |-> reel[j][c]], 1..i)

\* A reel that grows keeps its rows and adds one.
LEMMA RowAdded ==
  ASSUME NEW reel \in Seq(PerCell), NEW row \in PerCell, NEW c \in Cells
  PROVE  LET longer == Append(reel, row)
         IN  /\ \A i \in 0..Len(reel) : /\ RowSum(reel, i, c) \in Nat
                                        /\ RowSum(longer, i, c) = RowSum(reel, i, c)
             /\ RowSum(longer, Len(reel) + 1, c) = RowSum(reel, Len(reel), c) + row[c]
<1> DEFINE longer == Append(reel, row)
           n == Len(reel)
<1>1. /\ n \in Nat /\ longer \in Seq(PerCell) /\ Len(longer) = n + 1
      /\ longer[n + 1] = row /\ \A i \in 1..n : longer[i] = reel[i]
      /\ \A i \in 1..n : reel[i][c] \in Nat /\ longer[i][c] \in Nat
      /\ longer[n + 1][c] = row[c] /\ row[c] \in Nat
  BY DEF PerCell
<1> HIDE DEF longer, n
<1>2. ASSUME NEW i \in 0..n
      PROVE  RowSum(reel, i, c) \in Nat /\ RowSum(longer, i, c) = RowSum(reel, i, c)
  <2> DEFINE f == [j \in 1..i |-> reel[j][c]]
             g == [j \in 1..i |-> longer[j][c]]
  <2>1. \A j \in 1..i : f[j] \in Nat /\ g[j] = f[j]
    BY <1>1
  <2>2. IsFiniteSet(1..i)
    BY <1>1, FS_Interval
  <2>3. RowSum(reel, i, c) = SumFunctionOnSet(f, 1..i) /\ RowSum(longer, i, c) = SumFunctionOnSet(g, 1..i)
    BY DEF RowSum
  <2> HIDE DEF f, g
  <2>4. QED
    BY <2>1, <2>2, <2>3, SumNat, SumSame
<1>3. RowSum(longer, n + 1, c) = RowSum(reel, n, c) + row[c]
  <2> DEFINE f == [j \in 1..n |-> reel[j][c]]
             g == [j \in 1..(n + 1) |-> longer[j][c]]
  <2>1. /\ \A j \in 1..n : f[j] \in Nat /\ g[j] = f[j]
        /\ \A j \in 1..(n + 1) : g[j] \in Nat
        /\ g[n + 1] = row[c]
    BY <1>1
  <2>2. /\ IsFiniteSet(1..n) /\ IsFiniteSet(1..(n + 1))
        /\ n + 1 \in 1..(n + 1) /\ (1..(n + 1)) \ {n + 1} = 1..n
    <3>1. n + 1 \in 1..(n + 1) /\ (1..(n + 1)) \ {n + 1} = 1..n /\ n + 1 \in Nat
      BY <1>1
    <3>2. \A m \in Nat : IsFiniteSet(1..m)
      BY FS_Interval
    <3>3. QED
      BY <1>1, <3>1, <3>2
  <2>3. RowSum(reel, n, c) = SumFunctionOnSet(f, 1..n) /\ RowSum(longer, n + 1, c) = SumFunctionOnSet(g, 1..(n + 1))
    BY DEF RowSum
  <2> HIDE DEF f, g
  <2>4. SumFunctionOnSet(g, 1..(n + 1)) = g[n + 1] + SumFunctionOnSet(g, (1..(n + 1)) \ {n + 1})
    BY <2>1, <2>2, SumRest
  <2>5. SumFunctionOnSet(g, 1..n) = SumFunctionOnSet(f, 1..n)
    BY <2>1, <2>2, SumSame
  <2>6. SumFunctionOnSet(f, 1..n) \in Nat
    BY <2>1, <2>2, SumNat
  <2>7. SumFunctionOnSet(g, 1..(n + 1)) = row[c] + SumFunctionOnSet(f, 1..n)
    BY <2>1, <2>2, <2>4, <2>5
  <2>8. QED
    BY <1>1, <2>3, <2>6, <2>7
<1>4. QED
  BY <1>2, <1>3 DEF longer, n

-------------------------------------------------------------------------------
\* For the cell c: what the workers of n have sampled, what of it is still in
\* their queues, and what the sweeper has taken.
AllSampled(n, c) ==
  SumFunctionOnSet([w \in WorkersOf(n) |-> Interval * sampled[w][c]], WorkersOf(n))
Stored(n, c) ==
  SumFunctionOnSet([w \in WorkersOf(n) |->
                      Interval * Cardinality(Waiting(perf_stats[w], c))], WorkersOf(n))
Collected(n, c) == Sampled(n, Len(dataDistReel[n]), c) + ddSnap[n][c]

\* In the sweep under way the token of the j-th worker is still to be found.
WorkerAt(n, j) == NUMAToWorkerCPUs[n][j]
Owes(n, j) == \/ pc[n] = "token" /\ j < at[n]
              \/ pc[n] = "pcmToken"
              \/ pc[n] = "take" /\ j >= at[n]

(***************************************************************************)
(* A sweep of node n: it begins with the first worker and an empty row;    *)
(* it will find the tokens it pushed; the samples behind the last token of *)
(* a worker are those that are not due; and what is taken was sampled, and *)
(* is no longer in a queue.                                                *)
(***************************************************************************)
Window(n) ==
  /\ pc[n] \notin {"token", "take", "exec"} => at[n] = 1
  /\ pc[n] \notin {"take", "report"} => ddSnap[n] = Zero
  /\ \A j \in DOMAIN NUMAToWorkerCPUs[n] :
       Owes(n, j) => Tokens(perf_stats[WorkerAt(n, j)]) # {}
  /\ \A w \in WorkersOf(n), c \in Cells :
       due[w][c] + Cardinality(Late(perf_stats[w], c)) = sampled[w][c]
  /\ \A c \in Cells : Collected(n, c) + Stored(n, c) <= AllSampled(n, c)

(***************************************************************************)
(* When a sample is never taken for a token: a queue holds the token of    *)
(* the sweep under way and no other, and no sample is lost.                *)
(***************************************************************************)
Lossless(n) ==
  /\ \A w \in WorkersOf(n) : /\ Signals(perf_stats[w]) = Tokens(perf_stats[w])
                             /\ \A i, j \in Tokens(perf_stats[w]) : i = j
  /\ \A j \in DOMAIN NUMAToWorkerCPUs[n] :
       ~Owes(n, j) => Tokens(perf_stats[WorkerAt(n, j)]) = {}
  /\ \A c \in Cells : Collected(n, c) + Stored(n, c) = AllSampled(n, c)

\* The workers of a node, by their place in its list.
LEMMA WorkersByPlace ==
  ASSUME NEW n \in NumaNodes
  PROVE  /\ Len(NUMAToWorkerCPUs[n]) \in Nat \ {0}
         /\ DOMAIN NUMAToWorkerCPUs[n] = 1..Len(NUMAToWorkerCPUs[n])
         /\ \A j \in DOMAIN NUMAToWorkerCPUs[n] : WorkerAt(n, j) \in WorkersOf(n)
         /\ \A w \in WorkersOf(n) : \E j \in DOMAIN NUMAToWorkerCPUs[n] : w = WorkerAt(n, j)
         /\ \A i, j \in DOMAIN NUMAToWorkerCPUs[n] : WorkerAt(n, i) = WorkerAt(n, j) => i = j
         /\ WorkersOf(n) \subseteq Workers
<1>1. PICK s : s = NUMAToWorkerCPUs[n] /\ s \in Seq(WorkersOf(n)) /\ s # <<>>
  BY NodesAssumption
<1>2. Len(s) \in Nat \ {0} /\ DOMAIN s = 1..Len(s) /\ \A j \in DOMAIN s : s[j] \in WorkersOf(n)
  BY <1>1
<1>3. \A w \in WorkersOf(n) : \E j \in DOMAIN s : w = s[j]
  BY <1>1, <1>2 DEF WorkersOf, ToSet
<1>4. \A i, j \in DOMAIN s : s[i] = s[j] => i = j
  BY <1>1, WorkersAssumption DEF IsInjective
<1>5. WorkersOf(n) \subseteq Workers
  BY DEF Workers
<1>6. QED
  BY <1>1, <1>2, <1>3, <1>4, <1>5 DEF WorkerAt

\* What is added up is numbers.
LEMMA WindowNumbers ==
  TypeOK => \A n \in NumaNodes, c \in Cells :
    /\ AllSampled(n, c) \in Nat /\ Stored(n, c) \in Nat /\ Collected(n, c) \in Nat
    /\ Sampled(n, Len(dataDistReel[n]), c) \in Nat /\ ddSnap[n][c] \in Nat
    /\ \A w \in WorkersOf(n) : /\ perf_stats[w] \in Seq(Entry)
                               /\ sampled[w][c] \in Nat /\ due[w][c] \in Nat
<1> SUFFICES ASSUME TypeOK, NEW n \in NumaNodes, NEW c \in Cells
             PROVE  /\ AllSampled(n, c) \in Nat /\ Stored(n, c) \in Nat
                    /\ Collected(n, c) \in Nat
                    /\ Sampled(n, Len(dataDistReel[n]), c) \in Nat /\ ddSnap[n][c] \in Nat
                    /\ \A w \in WorkersOf(n) : /\ perf_stats[w] \in Seq(Entry)
                                               /\ sampled[w][c] \in Nat /\ due[w][c] \in Nat
  OBVIOUS
<1> DEFINE a == [w \in WorkersOf(n) |-> Interval * sampled[w][c]]
           s == [w \in WorkersOf(n) |-> Interval * Cardinality(Waiting(perf_stats[w], c))]
<1>1. \A w \in WorkersOf(n) : /\ perf_stats[w] \in Seq(Entry)
                              /\ sampled[w][c] \in Nat /\ due[w][c] \in Nat
  <2> TAKE w \in WorkersOf(n)
  <2>1. w \in Workers
    BY WorkersByPlace
  <2>2. perf_stats[w] \in Seq(Entry)
    BY <2>1 DEF TypeOK, Entry
  <2>3. QED
    BY <2>1, <2>2 DEF TypeOK, PerCell
<1>2. \A w \in WorkersOf(n) : Cardinality(Waiting(perf_stats[w], c)) \in Nat
  BY <1>1, QueueCounted
<1>3. \A k \in Nat : Interval * k \in Nat
  BY IntervalAssumption
<1>4. \A w \in WorkersOf(n) : a[w] \in Nat /\ s[w] \in Nat
  BY <1>1, <1>2, <1>3
<1>5. AllSampled(n, c) = SumFunctionOnSet(a, WorkersOf(n)) /\ Stored(n, c) = SumFunctionOnSet(s, WorkersOf(n))
  BY DEF AllSampled, Stored
<1> HIDE DEF a, s
<1>6. AllSampled(n, c) \in Nat /\ Stored(n, c) \in Nat
  BY <1>4, <1>5, WorkersFinite, SumNat
<1>7. dataDistReel[n] \in Seq(PerCell) /\ ddSnap[n] \in PerCell
  BY DEF TypeOK
<1>8. Sampled(n, Len(dataDistReel[n]), c) = RowSum(dataDistReel[n], Len(dataDistReel[n]), c)
  BY DEF Sampled, RowSum
<1>9. Len(dataDistReel[n]) \in 0..Len(dataDistReel[n])
  BY <1>7
<1>10. RowSum(dataDistReel[n], Len(dataDistReel[n]), c) \in Nat
  BY <1>7, <1>9, RowAdded
<1>11. ddSnap[n][c] \in Nat
  BY <1>7 DEF PerCell
<1>12. QED
  BY <1>1, <1>6, <1>8, <1>10, <1>11 DEF Collected

\* The same of the state after a step.
LEMMA WindowNumbersAfter ==
  TypeOK' => \A n \in NumaNodes, c \in Cells :
    /\ AllSampled(n, c)' \in Nat /\ Stored(n, c)' \in Nat /\ Collected(n, c)' \in Nat
    /\ \A w \in WorkersOf(n) : /\ perf_stats'[w] \in Seq(Entry)
                               /\ sampled'[w][c] \in Nat /\ due'[w][c] \in Nat
<1>1. TypeOK' => (\A n \in NumaNodes, c \in Cells :
        /\ AllSampled(n, c) \in Nat /\ Stored(n, c) \in Nat /\ Collected(n, c) \in Nat
        /\ Sampled(n, Len(dataDistReel[n]), c) \in Nat /\ ddSnap[n][c] \in Nat
        /\ \A w \in WorkersOf(n) : /\ perf_stats[w] \in Seq(Entry)
                                   /\ sampled[w][c] \in Nat /\ due[w][c] \in Nat)'
  BY WindowNumbers, PTL
<1>2. QED
  BY <1>1

\* One worker's samples change.
LEMMA SamplesChange ==
  ASSUME TypeOK, TypeOK', NEW n \in NumaNodes, NEW w \in WorkersOf(n), NEW c \in Cells,
         \A v \in WorkersOf(n) \ {w} : perf_stats'[v] = perf_stats[v] /\ sampled'[v] = sampled[v]
  PROVE  /\ Stored(n, c)' + Interval * Cardinality(Waiting(perf_stats[w], c)) =
              Stored(n, c) + Interval * Cardinality(Waiting(perf_stats'[w], c))
         /\ AllSampled(n, c)' + Interval * sampled[w][c] =
              AllSampled(n, c) + Interval * sampled'[w][c]
<1> DEFINE a == [v \in WorkersOf(n) |-> Interval * sampled[v][c]]
           b == [v \in WorkersOf(n) |-> Interval * sampled'[v][c]]
           s == [v \in WorkersOf(n) |-> Interval * Cardinality(Waiting(perf_stats[v], c))]
           r == [v \in WorkersOf(n) |-> Interval * Cardinality(Waiting(perf_stats'[v], c))]
<1>1. \A v \in WorkersOf(n) :
        /\ perf_stats[v] \in Seq(Entry) /\ sampled[v][c] \in Nat
        /\ perf_stats'[v] \in Seq(Entry) /\ sampled'[v][c] \in Nat
  BY WindowNumbers, WindowNumbersAfter
<1>2. \A v \in WorkersOf(n) : /\ Cardinality(Waiting(perf_stats[v], c)) \in Nat
                              /\ Cardinality(Waiting(perf_stats'[v], c)) \in Nat
  BY <1>1, QueueCounted
<1>3. \A k \in Nat : Interval * k \in Nat
  BY IntervalAssumption
<1>4. \A v \in WorkersOf(n) : a[v] \in Nat /\ b[v] \in Nat /\ s[v] \in Nat /\ r[v] \in Nat
  BY <1>1, <1>2, <1>3
<1>5. \A v \in WorkersOf(n) \ {w} : b[v] = a[v] /\ r[v] = s[v]
  OBVIOUS
<1>6. /\ AllSampled(n, c) = SumFunctionOnSet(a, WorkersOf(n))
      /\ AllSampled(n, c)' = SumFunctionOnSet(b, WorkersOf(n))
      /\ Stored(n, c) = SumFunctionOnSet(s, WorkersOf(n))
      /\ Stored(n, c)' = SumFunctionOnSet(r, WorkersOf(n))
  BY DEF AllSampled, Stored, WorkersOf
<1>7. /\ a[w] = Interval * sampled[w][c] /\ b[w] = Interval * sampled'[w][c]
      /\ s[w] = Interval * Cardinality(Waiting(perf_stats[w], c))
      /\ r[w] = Interval * Cardinality(Waiting(perf_stats'[w], c))
  OBVIOUS
<1> HIDE DEF a, b, s, r
<1>8. /\ SumFunctionOnSet(b, WorkersOf(n)) + a[w] = SumFunctionOnSet(a, WorkersOf(n)) + b[w]
      /\ SumFunctionOnSet(r, WorkersOf(n)) + s[w] = SumFunctionOnSet(s, WorkersOf(n)) + r[w]
  BY <1>4, <1>5, WorkersFinite, SumChange
<1>9. QED
  BY <1>6, <1>7, <1>8

\* A node whose sweeper, queues and samples a step leaves alone.
LEMMA WindowStays ==
  ASSUME NEW n \in NumaNodes, Window(n),
         pc'[n] = pc[n], at'[n] = at[n], ddSnap'[n] = ddSnap[n],
         dataDistReel'[n] = dataDistReel[n],
         \A w \in WorkersOf(n) : /\ perf_stats'[w] = perf_stats[w]
                                 /\ sampled'[w] = sampled[w] /\ due'[w] = due[w]
  PROVE  Window(n)' /\ (Lossless(n) => Lossless(n)')
<1>1. \A j \in DOMAIN NUMAToWorkerCPUs[n] :
        /\ Owes(n, j)' <=> Owes(n, j)
        /\ perf_stats'[WorkerAt(n, j)] = perf_stats[WorkerAt(n, j)]
  BY WorkersByPlace DEF Owes
<1>2. ASSUME NEW c \in Cells
      PROVE  /\ AllSampled(n, c)' = AllSampled(n, c) /\ Stored(n, c)' = Stored(n, c)
             /\ Collected(n, c)' = Collected(n, c)
  <2>1. AllSampled(n, c)' = AllSampled(n, c)
    <3>1. [w \in WorkersOf(n) |-> Interval * sampled'[w][c]] =
            [w \in WorkersOf(n) |-> Interval * sampled[w][c]]
      OBVIOUS
    <3>2. QED
      BY <3>1 DEF AllSampled, WorkersOf
  <2>2. Stored(n, c)' = Stored(n, c)
    <3>1. [w \in WorkersOf(n) |-> Interval * Cardinality(Waiting(perf_stats'[w], c))] =
            [w \in WorkersOf(n) |-> Interval * Cardinality(Waiting(perf_stats[w], c))]
      OBVIOUS
    <3>2. QED
      BY <3>1 DEF Stored, WorkersOf
  <2>3. Collected(n, c)' = Collected(n, c)
    BY DEF Collected, Sampled
  <2>4. QED
    BY <2>1, <2>2, <2>3
<1>3. Window(n)'
  BY <1>1, <1>2 DEF Window, WorkersOf
<1>4. ASSUME Lossless(n) PROVE Lossless(n)'
  BY <1>1, <1>2, <1>4 DEF Lossless, WorkersOf
<1>5. QED
  BY <1>3, <1>4

\* What a step may do to the window of a node.
Kept(n) == Window(n)' /\ (UnsetType = {"sample"} /\ Lossless(n) => Lossless(n)')

\* A worker leaves a sample: one more that was sampled and waits.
LEMMA SampleKept ==
  ASSUME PoolInv, PoolInv', NEW w \in Workers, PushSample(w), NEW n \in NumaNodes, Window(n)
  PROVE  Kept(n)
<1>1. /\ TypeOK /\ TypeOK' /\ query[w] \in Cells /\ w \in Threads /\ n # w
      /\ n \in Threads
  BY ThreadsAssumption DEF PoolInv, Located, PushSample, LeaveSample, Threads
<1>2. PICK d \in Cells : d = query[w]
  BY <1>1
<1>3. PICK type \in UnsetType :
        perf_stats' = [perf_stats EXCEPT ![w] = Append(@, [qType |-> type, gIdx |-> d])]
  BY <1>2 DEF PushSample, LeaveSample
<1>4. PICK e \in Entry : e = [qType |-> type, gIdx |-> d]
  BY <1>3, UnsetAssumption DEF Entry
<1>5. /\ perf_stats'[w] = Append(perf_stats[w], e)
      /\ \A v \in Workers \ {w} : perf_stats'[v] = perf_stats[v]
      /\ pc'[n] = pc[n] /\ UNCHANGED <<at, ddSnap, dataDistReel, due>>
      /\ \A v \in Workers \ {w} : sampled'[v] = sampled[v]
  BY <1>1, <1>3, <1>4 DEF PushSample, LeaveSample, Goto, TypeOK, sweep, reels
<1>6. \A c \in Cells : sampled'[w][c] = sampled[w][c] + IF c = d THEN 1 ELSE 0
  <2>1. sampled' = [sampled EXCEPT ![w][d] = @ + 1]
    BY <1>2 DEF PushSample, LeaveSample
  <2>2. sampled \in [Workers -> PerCell] /\ sampled[w] \in [Cells -> Nat]
    BY <1>1 DEF TypeOK, PerCell
  <2>3. sampled'[w] = [sampled[w] EXCEPT ![d] = @ + 1]
    BY <2>1, <2>2
  <2>4. QED
    BY <2>2, <2>3
<1>7. CASE w \notin WorkersOf(n)
  <2>1. \A v \in WorkersOf(n) : v \in Workers \ {w}
    BY <1>7, WorkersByPlace
  <2>2. QED
    BY <1>5, <2>1, WindowStays DEF Kept
<1>8. CASE w \in WorkersOf(n)
  <2>1. perf_stats[w] \in Seq(Entry) /\ e.gIdx = d /\ e.qType = type
    BY <1>1, <1>2, <1>4, <1>8, WindowNumbers
  <2>2. \A c \in Cells :
          /\ Tokens(perf_stats'[w]) = Tokens(perf_stats[w])
          /\ type = "sample" => Signals(perf_stats'[w]) = Signals(perf_stats[w])
          /\ Cardinality(Waiting(perf_stats'[w], c)) =
               Cardinality(Waiting(perf_stats[w], c)) + IF c = d THEN 1 ELSE 0
          /\ Cardinality(Late(perf_stats'[w], c)) =
               Cardinality(Late(perf_stats[w], c)) + IF c = d THEN 1 ELSE 0
    BY <1>5, <2>1, SampleBehind
  <2>3. \A v \in WorkersOf(n) \ {w} : perf_stats'[v] = perf_stats[v] /\ sampled'[v] = sampled[v]
    BY <1>5, WorkersByPlace
  <2>4. \A j \in DOMAIN NUMAToWorkerCPUs[n] :
          /\ Owes(n, j)' <=> Owes(n, j)
          /\ Tokens(perf_stats'[WorkerAt(n, j)]) = Tokens(perf_stats[WorkerAt(n, j)])
    BY <1>2, <1>5, <2>2, <2>3, WorkersByPlace DEF Owes
  <2>5. ASSUME NEW c \in Cells
        PROVE  /\ Collected(n, c)' = Collected(n, c)
               /\ Stored(n, c)' + AllSampled(n, c) = Stored(n, c) + AllSampled(n, c)'
               /\ Collected(n, c) \in Nat /\ Stored(n, c) \in Nat /\ Stored(n, c)' \in Nat
               /\ AllSampled(n, c) \in Nat /\ AllSampled(n, c)' \in Nat
    <3>1. Collected(n, c)' = Collected(n, c)
      BY <1>5 DEF Collected, Sampled
    <3>2. /\ Collected(n, c) \in Nat /\ Stored(n, c) \in Nat /\ Stored(n, c)' \in Nat
          /\ AllSampled(n, c) \in Nat /\ AllSampled(n, c)' \in Nat /\ sampled[w][c] \in Nat
      BY <1>1, <1>8, WindowNumbers, WindowNumbersAfter
    <3>3. PICK k \in Nat : k = Cardinality(Waiting(perf_stats[w], c))
      BY <2>1, QueueCounted
    <3>4. PICK m \in Nat : m = sampled[w][c]
      BY <3>2
    <3>5. /\ Stored(n, c)' + Interval * k =
               Stored(n, c) + Interval * (k + IF c = d THEN 1 ELSE 0)
          /\ AllSampled(n, c)' + Interval * m =
               AllSampled(n, c) + Interval * (m + IF c = d THEN 1 ELSE 0)
      BY <1>1, <1>6, <1>8, <2>2, <2>3, <3>3, <3>4, SamplesChange
    <3>6. \A x \in Nat : Interval * (x + 1) = Interval * x + Interval /\ Interval * x \in Nat
      BY IntervalAssumption
    <3>7. PICK ik, im \in Nat : ik = Interval * k /\ im = Interval * m
      BY <3>6
    <3>8. QED
      BY <3>1, <3>2, <3>5, <3>6, <3>7, IntervalAssumption
  <2>6. ASSUME NEW v \in WorkersOf(n), NEW c \in Cells
        PROVE  due'[v][c] + Cardinality(Late(perf_stats'[v], c)) = sampled'[v][c]
    <3>1. due'[v][c] = due[v][c] /\ due[v][c] \in Nat /\ perf_stats[v] \in Seq(Entry)
      BY <1>1, <1>5, WindowNumbers
    <3>2. due[v][c] + Cardinality(Late(perf_stats[v], c)) = sampled[v][c]
      BY DEF Window
    <3>3. Cardinality(Late(perf_stats[v], c)) \in Nat
      BY <3>1, QueueCounted
    <3>4. CASE v = w
      BY <1>6, <2>2, <3>1, <3>2, <3>3, <3>4
    <3>5. CASE v # w
      BY <2>3, <3>1, <3>2, <3>5
    <3>6. QED
      BY <3>4, <3>5
  <2>7. Window(n)'
    <3>1. /\ pc'[n] \notin {"token", "take", "exec"} => at'[n] = 1
          /\ pc'[n] \notin {"take", "report"} => ddSnap'[n] = Zero
      BY <1>5 DEF Window
    <3>2. \A j \in DOMAIN NUMAToWorkerCPUs[n] :
            Owes(n, j)' => Tokens(perf_stats'[WorkerAt(n, j)]) # {}
      BY <2>4 DEF Window
    <3>3. \A c \in Cells : Collected(n, c)' + Stored(n, c)' <= AllSampled(n, c)'
      BY <2>5 DEF Window
    <3>4. QED
      BY <2>6, <3>1, <3>2, <3>3 DEF Window, WorkersOf, WorkerAt
  <2>8. ASSUME UnsetType = {"sample"}, Lossless(n) PROVE Lossless(n)'
    <3>1. \A v \in WorkersOf(n) : /\ Signals(perf_stats'[v]) = Tokens(perf_stats'[v])
                                  /\ \A i, j \in Tokens(perf_stats'[v]) : i = j
      BY <1>2, <1>3, <2>2, <2>3, <2>8 DEF Lossless
    <3>2. \A j \in DOMAIN NUMAToWorkerCPUs[n] :
            ~Owes(n, j)' => Tokens(perf_stats'[WorkerAt(n, j)]) = {}
      BY <2>4, <2>8 DEF Lossless
    <3>3. \A c \in Cells : Collected(n, c)' + Stored(n, c)' = AllSampled(n, c)'
      BY <2>5, <2>8 DEF Lossless
    <3>4. QED
      BY <3>1, <3>2, <3>3 DEF Lossless, WorkersOf, WorkerAt
  <2>9. QED
    BY <2>7, <2>8 DEF Kept
<1>9. QED
  BY <1>7, <1>8

\* A sweeper is at one of its workers, and goes on to the next or starts over.
LEMMA SweepPlace ==
  ASSUME PoolInv, NEW n \in NumaNodes
  PROVE  /\ TypeOK /\ n \in Threads /\ at[n] \in DOMAIN NUMAToWorkerCPUs[n]
         /\ Current(n) = WorkerAt(n, at[n]) /\ Current(n) \in WorkersOf(n)
         /\ Current(n) \in Workers
         /\ \A j \in DOMAIN NUMAToWorkerCPUs[n] :
              WorkerAt(n, j) = Current(n) <=> j = at[n]
         /\ \A label : Advance(n, label) =>
              /\ \A m \in Threads \ {n} : pc'[m] = pc[m]
              /\ \A m \in NumaNodes \ {n} : at'[m] = at[m]
              /\ \/ at[n] = Len(NUMAToWorkerCPUs[n]) /\ pc'[n] = label /\ at'[n] = 1
                 \/ at[n] < Len(NUMAToWorkerCPUs[n]) /\ pc'[n] = pc[n] /\ at'[n] = at[n] + 1
<1>1. TypeOK /\ n \in Threads /\ at[n] \in 1..Len(NUMAToWorkerCPUs[n])
  BY DEF PoolInv, Located, Threads
<1>2. at[n] \in DOMAIN NUMAToWorkerCPUs[n] /\ Len(NUMAToWorkerCPUs[n]) \in Nat
  BY <1>1, WorkersByPlace
<1>3. Current(n) = WorkerAt(n, at[n])
  BY DEF Current, WorkerAt
<1>4. ASSUME NEW label, Advance(n, label)
      PROVE  /\ \A m \in Threads \ {n} : pc'[m] = pc[m]
             /\ \A m \in NumaNodes \ {n} : at'[m] = at[m]
             /\ \/ at[n] = Len(NUMAToWorkerCPUs[n]) /\ pc'[n] = label /\ at'[n] = 1
                \/ at[n] < Len(NUMAToWorkerCPUs[n]) /\ pc'[n] = pc[n] /\ at'[n] = at[n] + 1
  <2>1. CASE IsLast(n)
    BY <1>1, <1>4, <2>1 DEF Advance, IsLast, Goto, TypeOK
  <2>2. CASE ~IsLast(n)
    <3>1. at[n] < Len(NUMAToWorkerCPUs[n])
      BY <1>1, <1>2, <2>2 DEF IsLast
    <3>2. QED
      BY <1>1, <1>4, <2>2, <3>1 DEF Advance, TypeOK
  <2>3. QED
    BY <2>1, <2>2
<1>5. QED
  BY <1>1, <1>2, <1>3, <1>4, WorkersByPlace

\* A sweep of another node has other workers.
LEMMA SweepElsewhere ==
  ASSUME PoolInv, NEW m \in NumaNodes, Sweeper(m), NEW n \in NumaNodes, n # m, Window(n)
  PROVE  Kept(n)
<1>1. /\ TypeOK /\ n \in Threads /\ Current(m) \in Workers /\ Current(m) \notin WorkersOf(n)
      /\ WorkersOf(n) \subseteq Workers
  BY SweepPlace, WorkersByPlace, NodesAssumption
<1>2. /\ pc'[n] = pc[n] /\ at'[n] = at[n] /\ ddSnap'[n] = ddSnap[n]
      /\ dataDistReel'[n] = dataDistReel[n]
      /\ \A w \in WorkersOf(n) : /\ perf_stats'[w] = perf_stats[w]
                                 /\ sampled'[w] = sampled[w] /\ due'[w] = due[w]
  <2> USE <1>1
  <2>1. CASE CheckRunning(m)
    BY <2>1 DEF CheckRunning, Goto, TypeOK, sweep, reels, history
  <2>2. CASE PushToken(m)
    <3>1. pc'[n] = pc[n] /\ at'[n] = at[n]
      BY <2>2, SweepPlace DEF PushToken
    <3>2. QED
      BY <2>2, <3>1 DEF PushToken, TypeOK, reels
  <2>3. CASE PushPcmToken(m)
    BY <2>3 DEF PushPcmToken, Goto, TypeOK, sweep, reels, history
  <2>4. CASE TakeSample(m)
    <3>1. pc'[n] = pc[n] /\ at'[n] = at[n]
      BY <2>4, SweepPlace DEF TakeSample, TakeUntil
    <3>2. ddSnap'[n] = ddSnap[n]
      BY <2>4 DEF TakeSample, TakeUntil, TypeOK
    <3>3. QED
      BY <2>4, <3>1, <3>2 DEF TakeSample, TakeUntil, TypeOK, reels, history
  <2>5. CASE ReportSamples(m)
    BY <2>5 DEF ReportSamples, Goto, TypeOK, history
  <2>6. CASE TakeExecuted(m)
    <3>1. pc'[n] = pc[n] /\ at'[n] = at[n]
      BY <2>6, SweepPlace DEF TakeExecuted
    <3>2. QED
      BY <2>6, <3>1 DEF TakeExecuted, reels, history
  <2>7. CASE ReportExecuted(m)
    BY <2>7 DEF ReportExecuted, Goto, TypeOK, history
  <2>8. CASE TakePcm(m)
    BY <2>8 DEF TakePcm, Goto, TypeOK, reels, history
  <2>9. CASE ReportPcm(m)
    BY <2>9 DEF ReportPcm, Goto, TypeOK, history
  <2>10. QED
    BY <2>1, <2>2, <2>3, <2>4, <2>5, <2>6, <2>7, <2>8, <2>9 DEF Sweeper
<1>3. QED
  BY <1>2, WindowStays DEF Kept

\* Nor do the other threads but a worker that leaves a sample touch a window.
LEMMA WindowUntouched ==
  ASSUME PoolInv, NEW n \in NumaNodes, Window(n),
         \/ \E r \in Routers : Router(r)
         \/ \E w \in Workers : PopJob(w) \/ LoadCompleted(w) \/ StoreCompleted(w) \/ CountExecuted(w)
         \/ SysSweeper \/ Main \/ UNCHANGED vars
  PROVE  Kept(n)
<1>1. TypeOK /\ n \in Threads \ (Routers \cup Workers \cup {main})
  BY ThreadsAssumption DEF PoolInv, Threads
<1>2. pc'[n] = pc[n] /\ UNCHANGED <<at, ddSnap, dataDistReel, perf_stats, sampled, due>>
  <2> USE <1>1
  <2>1. ASSUME NEW t \in Routers \cup Workers, LoadCompleted(t) \/ StoreCompleted(t)
        PROVE  pc'[n] = pc[n] /\ UNCHANGED <<at, ddSnap, dataDistReel, perf_stats, sampled, due>>
    BY <2>1 DEF LoadCompleted, StoreCompleted, Goto, TypeOK, sweep, reels, history
  <2>2. ASSUME NEW r \in Routers, Router(r)
        PROVE  pc'[n] = pc[n] /\ UNCHANGED <<at, ddSnap, dataDistReel, perf_stats, sampled, due>>
    BY <2>1, <2>2 DEF Router, DrawQuery, LoadPushed, StorePushed, PushJob, Goto, TypeOK, sweep,
                      reels, history
  <2>3. ASSUME NEW w \in Workers,
               PopJob(w) \/ LoadCompleted(w) \/ StoreCompleted(w) \/ CountExecuted(w)
        PROVE  pc'[n] = pc[n] /\ UNCHANGED <<at, ddSnap, dataDistReel, perf_stats, sampled, due>>
    BY <2>1, <2>3 DEF PopJob, CountExecuted, SetExecuted, Goto, TypeOK, sweep, reels, history
  <2>4. CASE SysSweeper
    BY <2>4 DEF SysSweeper, sweep, reels
  <2>5. CASE Main
    BY <2>5 DEF Main, Terminate, DumpReel, BeginDump, BeginDumpIf, Exit, Goto, TypeOK, sweep,
                reels, history
  <2>6. CASE UNCHANGED vars
    BY <2>6 DEF vars, sweep, reels, history
  <2>7. QED
    BY <2>2, <2>3, <2>4, <2>5, <2>6
<1>3. QED
  BY <1>2, WindowStays DEF Kept

\* The token of the sweep goes behind the samples of a worker: they are due.
LEMMA TokenKept ==
  ASSUME PoolInv, PoolInv', NEW n \in NumaNodes, PushToken(n), Window(n)
  PROVE  Kept(n)
<1> DEFINE w == Current(n)
           k == at[n]
           len == Len(NUMAToWorkerCPUs[n])
<1>1. /\ TypeOK /\ TypeOK' /\ w \in WorkersOf(n) /\ w \in Workers /\ WorkersOf(n) \subseteq Workers
      /\ k \in 1..len /\ len \in Nat /\ DOMAIN NUMAToWorkerCPUs[n] = 1..len
      /\ \A j \in 1..len : WorkerAt(n, j) \in WorkersOf(n) /\ (WorkerAt(n, j) = w <=> j = k)
  BY SweepPlace, WorkersByPlace DEF PoolInv
<1>2. /\ \/ k = len /\ pc'[n] \in {"pcmToken", "take"} /\ at'[n] = 1
         \/ k < len /\ pc'[n] = "token" /\ at'[n] = k + 1
      /\ pc[n] = "token"
  BY SweepPlace DEF PushToken
<1>3. /\ perf_stats'[w] = Append(perf_stats[w], Token) /\ due'[w] = sampled[w]
      /\ \A v \in WorkersOf(n) \ {w} : perf_stats'[v] = perf_stats[v] /\ due'[v] = due[v]
      /\ UNCHANGED <<sampled, ddSnap, dataDistReel>>
  BY <1>1 DEF PushToken, TypeOK, reels
<1>4. perf_stats[w] \in Seq(Entry) /\ Len(perf_stats[w]) \in Nat
  <2>1. perf_stats[w] \in Seq(Entry)
    BY <1>1 DEF TypeOK, Entry
  <2>2. QED
    BY <2>1
<1> HIDE DEF w, k, len
<1>5. \A j \in 1..len : Owes(n, j)' <=> Owes(n, j) \/ j = k
  BY <1>1, <1>2 DEF Owes, k
<1>6. \A c \in Cells :
        /\ Tokens(perf_stats'[w]) = Tokens(perf_stats[w]) \cup {Len(perf_stats[w]) + 1}
        /\ Signals(perf_stats'[w]) = Signals(perf_stats[w]) \cup {Len(perf_stats[w]) + 1}
        /\ Waiting(perf_stats'[w], c) = Waiting(perf_stats[w], c)
        /\ Late(perf_stats'[w], c) = {}
  BY <1>3, <1>4, TokenBehind
<1>7. ASSUME NEW c \in Cells
      PROVE  /\ Collected(n, c)' = Collected(n, c) /\ Stored(n, c)' = Stored(n, c)
             /\ AllSampled(n, c)' = AllSampled(n, c)
  <2>1. Collected(n, c)' = Collected(n, c)
    BY <1>3 DEF Collected, Sampled
  <2>2. AllSampled(n, c)' = AllSampled(n, c)
    BY <1>3 DEF AllSampled, WorkersOf
  <2>3. Stored(n, c)' = Stored(n, c)
    <3>1. \A v \in WorkersOf(n) : Waiting(perf_stats'[v], c) = Waiting(perf_stats[v], c)
      BY <1>3, <1>6
    <3>2. [v \in WorkersOf(n) |-> Interval * Cardinality(Waiting(perf_stats'[v], c))] =
            [v \in WorkersOf(n) |-> Interval * Cardinality(Waiting(perf_stats[v], c))]
      BY <3>1
    <3>3. QED
      BY <3>2 DEF Stored, WorkersOf
  <2>4. QED
    BY <2>1, <2>2, <2>3
<1>8. Window(n)'
  <2>1. /\ pc'[n] \notin {"token", "take", "exec"} => at'[n] = 1
        /\ pc'[n] \notin {"take", "report"} => ddSnap'[n] = Zero
    BY <1>2, <1>3 DEF Window
  <2>2. \A j \in 1..len : Owes(n, j)' => Tokens(perf_stats'[WorkerAt(n, j)]) # {}
    <3> TAKE j \in 1..len
    <3>1. CASE j = k
      <4>1. WorkerAt(n, j) = w
        BY <1>1, <3>1
      <4>2. \A c \in Cells : Tokens(perf_stats'[w]) # {}
        BY <1>6
      <4>3. Tokens(perf_stats'[w]) # {}
        <5>1. /\ Len(perf_stats[w]) + 1 \in DOMAIN Append(perf_stats[w], Token)
              /\ Append(perf_stats[w], Token)[Len(perf_stats[w]) + 1] = Token
          BY <1>4
        <5>2. QED
          BY <1>3, <5>1 DEF Tokens
      <4>4. QED
        BY <4>1, <4>3
    <3>2. CASE j # k
      BY <1>1, <1>3, <1>5, <3>2 DEF Window
    <3>3. QED
      BY <3>1, <3>2
  <2>3. ASSUME NEW v \in WorkersOf(n), NEW c \in Cells
        PROVE  due'[v][c] + Cardinality(Late(perf_stats'[v], c)) = sampled'[v][c]
    <3>1. CASE v = w
      <4>1. Cardinality(Late(perf_stats'[w], c)) = 0
        BY <1>6, FS_EmptySet
      <4>2. sampled[w][c] \in Nat
        BY <1>1, WindowNumbers
      <4>3. due'[w][c] = sampled[w][c] /\ sampled'[w][c] = sampled[w][c]
        BY <1>3
      <4>4. due'[w][c] + Cardinality(Late(perf_stats'[w], c)) = sampled'[w][c]
        BY <4>1, <4>2, <4>3
      <4>5. QED
        BY <3>1, <4>4
    <3>2. CASE v # w
      BY <1>3, <3>2 DEF Window
    <3>3. QED
      BY <3>1, <3>2
  <2>4. \A c \in Cells : Collected(n, c)' + Stored(n, c)' <= AllSampled(n, c)'
    BY <1>7 DEF Window
  <2>5. QED
    BY <1>1, <2>1, <2>2, <2>3, <2>4 DEF Window, WorkersOf, WorkerAt
<1>9. ASSUME Lossless(n) PROVE Lossless(n)'
  <2>1. ~Owes(n, k)
    BY <1>1, <1>2 DEF Owes, k
  <2>2. Tokens(perf_stats[w]) = {} /\ Signals(perf_stats[w]) = {}
    BY <1>1, <1>9, <2>1 DEF Lossless
  <2>3. Tokens(perf_stats'[w]) = {Len(perf_stats[w]) + 1} /\ Signals(perf_stats'[w]) = {Len(perf_stats[w]) + 1}
    <3>1. /\ DOMAIN perf_stats'[w] = DOMAIN perf_stats[w] \cup {Len(perf_stats[w]) + 1}
          /\ perf_stats'[w][Len(perf_stats[w]) + 1] = Token
          /\ \A i \in DOMAIN perf_stats[w] : perf_stats'[w][i] = perf_stats[w][i]
      BY <1>3, <1>4
    <3>2. Token.qType = "token"
      BY DEF Token
    <3>3. QED
      BY <2>2, <3>1, <3>2 DEF Tokens, Signals
  <2>4. \A v \in WorkersOf(n) : /\ Signals(perf_stats'[v]) = Tokens(perf_stats'[v])
                                /\ \A i, j \in Tokens(perf_stats'[v]) : i = j
    <3> TAKE v \in WorkersOf(n)
    <3>1. CASE v = w
      BY <2>3, <3>1
    <3>2. CASE v # w
      <4>1. perf_stats'[v] = perf_stats[v]
        BY <1>3, <3>2
      <4>2. QED
        BY <1>9, <4>1 DEF Lossless
    <3>3. QED
      BY <3>1, <3>2
  <2>5. ASSUME NEW j \in 1..len, ~Owes(n, j)'
        PROVE  Tokens(perf_stats'[WorkerAt(n, j)]) = {}
    <3>1. j # k /\ ~Owes(n, j)
      BY <1>5, <2>5
    <3>2. perf_stats'[WorkerAt(n, j)] = perf_stats[WorkerAt(n, j)]
      BY <1>1, <1>3, <3>1
    <3>3. Tokens(perf_stats[WorkerAt(n, j)]) = {}
      BY <1>1, <1>9, <3>1 DEF Lossless
    <3>4. QED
      BY <3>2, <3>3
  <2>6. \A c \in Cells : Collected(n, c)' + Stored(n, c)' = AllSampled(n, c)'
    BY <1>7, <1>9 DEF Lossless
  <2>7. QED
    BY <1>1, <2>4, <2>5, <2>6 DEF Lossless, WorkersOf, WorkerAt
<1>10. QED
  BY <1>8, <1>9 DEF Kept

\* A sweeper takes the front of a queue that still holds the token.
LEMMA TakeKept ==
  ASSUME PoolInv, PoolInv', NEW n \in NumaNodes, TakeSample(n), Window(n)
  PROVE  Kept(n)
<1> DEFINE w == Current(n)
           k == at[n]
           len == Len(NUMAToWorkerCPUs[n])
           q == perf_stats[w]
           e == Head(q)
           one(c) == IF e.gIdx = c THEN 1 ELSE 0
           ended == e.qType = "token"
<1>1. /\ TypeOK /\ TypeOK' /\ w \in WorkersOf(n) /\ w \in Workers /\ WorkersOf(n) \subseteq Workers
      /\ k \in 1..len /\ len \in Nat /\ DOMAIN NUMAToWorkerCPUs[n] = 1..len
      /\ \A j \in 1..len : WorkerAt(n, j) \in WorkersOf(n) /\ (WorkerAt(n, j) = w <=> j = k)
  BY SweepPlace, WorkersByPlace DEF PoolInv
<1>2. pc[n] = "take" /\ q \in Seq(Entry) /\ Tokens(q) # {} /\ q # <<>> /\ e \in Entry
  <2>1. pc[n] = "take"
    BY DEF TakeSample, TakeUntil
  <2>2. q \in Seq(Entry)
    BY <1>1 DEF TypeOK, Entry
  <2>3. Tokens(q) # {}
    <3>1. Owes(n, k) /\ WorkerAt(n, k) = w
      BY <1>1, <2>1 DEF Owes
    <3>2. QED
      BY <1>1, <3>1 DEF Window
  <2>4. q # <<>>
    BY <2>3 DEF Tokens
  <2>5. QED
    BY <2>1, <2>2, <2>3, <2>4
<1>3. /\ perf_stats' = [perf_stats EXCEPT ![w] = Tail(q)]
      /\ ended => Advance(n, "report") /\ UNCHANGED ddSnap
      /\ ~ended => /\ UNCHANGED <<pc, at>>
                   /\ ddSnap' = [ddSnap EXCEPT ![n][e.gIdx] = @ + Interval]
      /\ UNCHANGED <<sampled, due, dataDistReel>>
  <2>1. ended \/ e # Token
    BY DEF Token
  <2>2. QED
    BY <1>2, <2>1 DEF TakeSample, TakeUntil, Empty, reels, history
<1>4. /\ perf_stats'[w] = Tail(q)
      /\ \A v \in WorkersOf(n) \ {w} : perf_stats'[v] = perf_stats[v]
  BY <1>1, <1>3 DEF TypeOK
<1>5. \A c \in Cells :
        /\ Cardinality(Waiting(Tail(q), c)) + one(c) = Cardinality(Waiting(q, c))
        /\ Cardinality(Late(Tail(q), c)) = Cardinality(Late(q, c))
        /\ Tokens(Tail(q)) = {i - 1 : i \in Tokens(q) \ {1}}
        /\ Signals(Tail(q)) = {i - 1 : i \in Signals(q) \ {1}}
  BY <1>2, FrontTaken
<1>6. /\ 1 \in Tokens(q) <=> e = Token
      /\ 1 \in Signals(q) <=> ended
  BY <1>2 DEF Tokens, Signals
<1>7. \A j \in 1..len : Owes(n, j)' <=> Owes(n, j) /\ (ended => j # k)
  <2>1. CASE ended
    <3>1. \/ k = len /\ pc'[n] = "report"
          \/ k < len /\ pc'[n] = "take" /\ at'[n] = k + 1
      BY <1>2, <1>3, <2>1, SweepPlace
    <3>2. QED
      BY <1>1, <1>2, <2>1, <3>1 DEF Owes
  <2>2. CASE ~ended
    BY <1>3, <2>2 DEF Owes
  <2>3. QED
    BY <2>1, <2>2
<1>8. /\ pc'[n] \in {"take", "report"}
      /\ pc'[n] = "report" => at'[n] = 1
  BY <1>2, <1>3, SweepPlace
<1>9. ASSUME NEW c \in Cells
      PROVE  ddSnap'[n][c] = ddSnap[n][c] + IF ~ended /\ e.gIdx = c THEN Interval ELSE 0
  <2>1. ddSnap[n] \in [Cells -> Nat] /\ ddSnap \in [NumaNodes -> PerCell]
    BY <1>1 DEF TypeOK, PerCell
  <2>2. CASE ended
    BY <1>3, <2>1, <2>2
  <2>3. CASE ~ended
    <3>1. ddSnap'[n] = [ddSnap[n] EXCEPT ![e.gIdx] = @ + Interval]
      BY <1>3, <2>1, <2>3
    <3>2. QED
      BY <2>1, <2>3, <3>1
  <2>4. QED
    BY <2>2, <2>3
<1> HIDE DEF w, k, len, q, e, one, ended
<1>10. ASSUME NEW c \in Cells
       PROVE  /\ AllSampled(n, c)' = AllSampled(n, c) /\ AllSampled(n, c) \in Nat
              /\ Collected(n, c)' + Stored(n, c)' <= Collected(n, c) + Stored(n, c)
              /\ Collected(n, c)' + Stored(n, c)' \in Nat
              /\ Collected(n, c) + Stored(n, c) \in Nat
              /\ (ended => e.gIdx # c) =>
                   Collected(n, c)' + Stored(n, c)' = Collected(n, c) + Stored(n, c)
  <2>1. AllSampled(n, c)' = AllSampled(n, c)
    BY <1>3 DEF AllSampled, WorkersOf
  <2>2. /\ Collected(n, c) \in Nat /\ Stored(n, c) \in Nat /\ Stored(n, c)' \in Nat
        /\ AllSampled(n, c) \in Nat /\ Collected(n, c)' \in Nat
        /\ Sampled(n, Len(dataDistReel[n]), c) \in Nat /\ ddSnap[n][c] \in Nat
    BY <1>1, WindowNumbers, WindowNumbersAfter
  <2>3. Collected(n, c)' = Collected(n, c) + IF ~ended /\ e.gIdx = c THEN Interval ELSE 0
    <3>1. Sampled(n, Len(dataDistReel[n]), c)' = Sampled(n, Len(dataDistReel[n]), c)
      BY <1>3 DEF Sampled
    <3>2. QED
      BY <1>9, <2>2, <3>1, IntervalAssumption DEF Collected
  <2>4. Stored(n, c)' + (IF e.gIdx = c THEN Interval ELSE 0) = Stored(n, c)
    <3>1. Tail(q) \in Seq(Entry)
      BY <1>2
    <3>2. PICK m \in Nat : m = Cardinality(Waiting(Tail(q), c))
      BY <3>1, QueueCounted
    <3>3. Cardinality(Waiting(q, c)) = m + IF e.gIdx = c THEN 1 ELSE 0
      BY <1>5, <3>2 DEF one
    <3>4. Stored(n, c)' + Interval * (m + IF e.gIdx = c THEN 1 ELSE 0) =
            Stored(n, c) + Interval * m
      <4>1. \A v \in WorkersOf(n) \ {w} : perf_stats'[v] = perf_stats[v] /\ sampled'[v] = sampled[v]
        BY <1>3, <1>4
      <4>2. Stored(n, c)' + Interval * Cardinality(Waiting(perf_stats[w], c)) =
              Stored(n, c) + Interval * Cardinality(Waiting(perf_stats'[w], c))
        BY <1>1, <4>1, SamplesChange
      <4>3. QED
        BY <1>4, <3>2, <3>3, <4>2 DEF q
    <3>5. \A x \in Nat : Interval * (x + 1) = Interval * x + Interval /\ Interval * x \in Nat
      BY IntervalAssumption
    <3>6. PICK im \in Nat : im = Interval * m
      BY <3>5
    <3>7. CASE e.gIdx = c
      <4>1. Stored(n, c)' + (im + Interval) = Stored(n, c) + im
        BY <3>4, <3>5, <3>6, <3>7
      <4>2. Stored(n, c)' \in Nat /\ Stored(n, c) \in Nat /\ im \in Nat /\ Interval \in Nat
        BY <2>2, IntervalAssumption
      <4>3. Stored(n, c)' + Interval = Stored(n, c)
        BY <4>1, <4>2
      <4>4. QED
        BY <3>7, <4>3
    <3>8. CASE e.gIdx # c
      <4>1. Stored(n, c)' + im = Stored(n, c) + im
        BY <3>4, <3>6, <3>8
      <4>2. QED
        BY <2>2, <3>6, <3>8, <4>1
    <3>9. QED
      BY <3>7, <3>8
  <2>5. QED
    BY <2>1, <2>2, <2>3, <2>4, IntervalAssumption, SMTT(30)
<1>11. Window(n)'
  <2>1. /\ pc'[n] \notin {"token", "take", "exec"} => at'[n] = 1
        /\ pc'[n] \notin {"take", "report"} => ddSnap'[n] = Zero
    BY <1>8
  <2>2. ASSUME NEW j \in 1..len, Owes(n, j)'
        PROVE  Tokens(perf_stats'[WorkerAt(n, j)]) # {}
    <3>1. CASE j = k
      <4>1. ~ended /\ WorkerAt(n, j) = w
        BY <1>1, <1>7, <2>2, <3>1
      <4>2. 1 \notin Tokens(q)
        BY <1>6, <4>1 DEF ended, Token
      <4>3. PICK i \in Tokens(q) : TRUE
        BY <1>2
      <4>4. \A c \in Cells : i - 1 \in Tokens(Tail(q))
        BY <1>5, <4>2
      <4>5. Tokens(Tail(q)) # {}
        <5>1. i \in 1..Len(q) /\ i # 1 /\ q[i] = Token
          BY <1>2, <4>2 DEF Tokens
        <5>2. i - 1 \in DOMAIN Tail(q) /\ Tail(q)[i - 1] = q[i]
          BY <1>2, <5>1
        <5>3. QED
          BY <5>1, <5>2 DEF Tokens
      <4>6. QED
        BY <1>4, <4>1, <4>5
    <3>2. CASE j # k
      <4>1. Owes(n, j) /\ perf_stats'[WorkerAt(n, j)] = perf_stats[WorkerAt(n, j)]
        BY <1>1, <1>4, <1>7, <2>2, <3>2
      <4>2. QED
        BY <1>1, <4>1 DEF Window
    <3>3. QED
      BY <3>1, <3>2
  <2>3. ASSUME NEW v \in WorkersOf(n), NEW c \in Cells
        PROVE  due'[v][c] + Cardinality(Late(perf_stats'[v], c)) = sampled'[v][c]
    <3>1. due[v][c] + Cardinality(Late(perf_stats[v], c)) = sampled[v][c]
      BY DEF Window
    <3>2. Cardinality(Late(perf_stats'[v], c)) = Cardinality(Late(perf_stats[v], c))
      BY <1>4, <1>5 DEF q
    <3>3. QED
      BY <1>3, <3>1, <3>2
  <2>4. \A c \in Cells : Collected(n, c)' + Stored(n, c)' <= AllSampled(n, c)'
    BY <1>10 DEF Window
  <2>5. QED
    BY <1>1, <2>1, <2>2, <2>3, <2>4 DEF Window, WorkersOf, WorkerAt
<1>12. ASSUME Lossless(n) PROVE Lossless(n)'
  <2>1. /\ Signals(q) = Tokens(q) /\ \A i, j \in Tokens(q) : i = j
    BY <1>1, <1>12 DEF Lossless, q
  <2>2. ended => e = Token
    BY <1>6, <2>1
  <2>3. ended => Tokens(q) = {1}
    BY <1>6, <2>1, <2>2
  <2>4. /\ Signals(Tail(q)) = Tokens(Tail(q))
        /\ \A i, j \in Tokens(Tail(q)) : i = j
        /\ ended => Tokens(Tail(q)) = {}
    <3>1. /\ \A i \in DOMAIN Tail(q) : i + 1 \in DOMAIN q /\ Tail(q)[i] = q[i + 1] /\ i \in Nat
      BY <1>2
    <3>2. \A i \in DOMAIN Tail(q) : /\ i \in Tokens(Tail(q)) => i + 1 \in Tokens(q)
                                    /\ i \in Tokens(Tail(q)) <=> i + 1 \in Tokens(q)
                                    /\ i \in Signals(Tail(q)) <=> i + 1 \in Signals(q)
      BY <3>1 DEF Tokens, Signals
    <3>3. Tokens(Tail(q)) \subseteq DOMAIN Tail(q) /\ Signals(Tail(q)) \subseteq DOMAIN Tail(q)
      BY DEF Tokens, Signals
    <3>4. Signals(Tail(q)) = Tokens(Tail(q))
      BY <2>1, <3>2, <3>3
    <3>5. ASSUME NEW i \in Tokens(Tail(q)), NEW j \in Tokens(Tail(q)) PROVE i = j
      <4>1. i + 1 = j + 1 /\ i \in Nat /\ j \in Nat
        BY <2>1, <3>1, <3>2, <3>3
      <4>2. QED
        BY <4>1
    <3>6. ASSUME ended PROVE Tokens(Tail(q)) = {}
      <4>1. \A i \in DOMAIN Tail(q) : i + 1 # 1
        BY <3>1, <1>2
      <4>2. QED
        BY <2>3, <3>2, <3>3, <3>6, <4>1
    <3>7. QED
      BY <3>4, <3>5, <3>6
  <2>5. \A v \in WorkersOf(n) : /\ Signals(perf_stats'[v]) = Tokens(perf_stats'[v])
                                /\ \A i, j \in Tokens(perf_stats'[v]) : i = j
    <3> TAKE v \in WorkersOf(n)
    <3>1. CASE v = w
      BY <1>4, <2>4, <3>1
    <3>2. CASE v # w
      <4>1. perf_stats'[v] = perf_stats[v]
        BY <1>4, <3>2
      <4>2. QED
        BY <1>12, <4>1 DEF Lossless
    <3>3. QED
      BY <3>1, <3>2
  <2>6. ASSUME NEW j \in 1..len, ~Owes(n, j)'
        PROVE  Tokens(perf_stats'[WorkerAt(n, j)]) = {}
    <3>1. CASE j = k
      <4>1. Owes(n, k)
        BY <1>1, <1>2 DEF Owes, k
      <4>2. ended /\ WorkerAt(n, j) = w
        BY <1>1, <1>7, <2>6, <3>1, <4>1
      <4>3. QED
        BY <1>4, <2>4, <4>2
    <3>2. CASE j # k
      <4>1. ~Owes(n, j) /\ perf_stats'[WorkerAt(n, j)] = perf_stats[WorkerAt(n, j)]
        BY <1>1, <1>4, <1>7, <2>6, <3>2
      <4>2. QED
        BY <1>1, <1>12, <4>1 DEF Lossless
    <3>3. QED
      BY <3>1, <3>2
  <2>7. \A c \in Cells : Collected(n, c)' + Stored(n, c)' = AllSampled(n, c)'
    <3> TAKE c \in Cells
    <3>1. ended => e.gIdx # c
      BY <2>2, CellsAssumption DEF Token
    <3>2. QED
      BY <1>10, <1>12, <3>1 DEF Lossless
  <2>8. QED
    BY <1>1, <2>5, <2>6, <2>7 DEF Lossless, WorkersOf, WorkerAt
<1>13. QED
  BY <1>11, <1>12 DEF Kept

\* What a sweeper took becomes a row.
LEMMA ReportKept ==
  ASSUME PoolInv, PoolInv', NEW n \in NumaNodes, ReportSamples(n), Window(n)
  PROVE  Kept(n)
<1>1. TypeOK /\ TypeOK' /\ n \in Threads
  BY DEF PoolInv, Threads
<1>2. /\ pc[n] = "report" /\ pc'[n] = "exec" /\ UNCHANGED <<at, perf_stats, sampled, due>>
      /\ dataDistReel'[n] = Append(dataDistReel[n], ddSnap[n]) /\ ddSnap'[n] = Zero
  BY <1>1 DEF ReportSamples, Goto, TypeOK, history
<1>3. \A j : ~Owes(n, j) /\ ~Owes(n, j)'
  BY <1>2 DEF Owes
<1>4. ASSUME NEW c \in Cells
      PROVE  /\ AllSampled(n, c)' = AllSampled(n, c) /\ Stored(n, c)' = Stored(n, c)
             /\ Collected(n, c)' = Collected(n, c)
  <2>1. AllSampled(n, c)' = AllSampled(n, c) /\ Stored(n, c)' = Stored(n, c)
    BY <1>2 DEF AllSampled, Stored, WorkersOf
  <2>2. dataDistReel[n] \in Seq(PerCell) /\ ddSnap[n] \in PerCell
    BY <1>1 DEF TypeOK
  <2>3. PICK reel \in Seq(PerCell) : reel = dataDistReel[n]
    BY <2>2
  <2>4. PICK row \in PerCell : row = ddSnap[n]
    BY <2>2
  <2>5. /\ RowSum(Append(reel, row), Len(reel) + 1, c) = RowSum(reel, Len(reel), c) + row[c]
        /\ RowSum(reel, Len(reel), c) \in Nat
    <3>1. Len(reel) \in 0..Len(reel)
      OBVIOUS
    <3>2. QED
      BY <3>1, RowAdded
  <2>6. /\ Collected(n, c) = RowSum(reel, Len(reel), c) + row[c]
        /\ Collected(n, c)' = RowSum(Append(reel, row), Len(Append(reel, row)), c) + Zero[c]
    BY <1>2, <2>3, <2>4 DEF Collected, Sampled, RowSum
  <2>7. Len(Append(reel, row)) = Len(reel) + 1 /\ row[c] \in Nat /\ Zero[c] = 0
    BY DEF PerCell, Zero
  <2>8. QED
    BY <2>1, <2>5, <2>6, <2>7
<1>5. Window(n)'
  <2>1. \A c \in Cells : Collected(n, c)' + Stored(n, c)' <= AllSampled(n, c)'
    BY <1>4 DEF Window
  <2>2. \A w \in WorkersOf(n), c \in Cells :
          due'[w][c] + Cardinality(Late(perf_stats'[w], c)) = sampled'[w][c]
    BY <1>2 DEF Window
  <2>3. QED
    BY <1>2, <1>3, <2>1, <2>2 DEF Window, WorkersOf
<1>6. ASSUME Lossless(n) PROVE Lossless(n)'
  <2>1. \A c \in Cells : Collected(n, c)' + Stored(n, c)' = AllSampled(n, c)'
    BY <1>4, <1>6 DEF Lossless
  <2>2. \A w \in WorkersOf(n) : /\ Signals(perf_stats'[w]) = Tokens(perf_stats'[w])
                                /\ \A i, j \in Tokens(perf_stats'[w]) : i = j
    BY <1>2, <1>6 DEF Lossless
  <2>3. \A j \in DOMAIN NUMAToWorkerCPUs[n] : Tokens(perf_stats'[WorkerAt(n, j)]) = {}
    BY <1>2, <1>3, <1>6 DEF Lossless
  <2>4. QED
    BY <2>1, <2>2, <2>3 DEF Lossless, WorkersOf, WorkerAt
<1>7. QED
  BY <1>5, <1>6 DEF Kept

\* The other steps of a sweep: between two sweeps, from the token of the memory
\* channels to the first queue, and past the last one.
LEMMA SweepKept ==
  ASSUME PoolInv, PoolInv', NEW n \in NumaNodes, Window(n),
         CheckRunning(n) \/ PushPcmToken(n) \/ TakeExecuted(n) \/ ReportExecuted(n)
           \/ TakePcm(n) \/ ReportPcm(n)
  PROVE  Kept(n)
<1>1. TypeOK /\ TypeOK' /\ n \in Threads /\ at[n] \in Nat \ {0}
  BY DEF PoolInv, TypeOK, Threads
<1>2. UNCHANGED <<perf_stats, sampled, due, ddSnap, dataDistReel>>
  BY DEF CheckRunning, PushPcmToken, TakeExecuted, ReportExecuted, TakePcm, ReportPcm, sweep,
         reels, history
<1>3. /\ pc[n] \notin {"take", "report", "token"}
      /\ \A j \in DOMAIN NUMAToWorkerCPUs[n] : Owes(n, j)' <=> Owes(n, j)
      /\ pc'[n] \notin {"token", "take", "exec"} => at'[n] = 1
      /\ pc'[n] \notin {"take", "report"} => ddSnap'[n] = Zero
  <2> USE <1>1
  <2>1. DOMAIN NUMAToWorkerCPUs[n] \subseteq Nat \ {0}
    BY WorkersByPlace
  <2>2. CASE CheckRunning(n)
    <3>1. /\ pc[n] = "check" /\ pc'[n] \in {"token", "stopped"} /\ at' = at
      BY <2>2 DEF CheckRunning, Goto, TypeOK, sweep
    <3>2. at[n] = 1 /\ ddSnap[n] = Zero
      BY <3>1 DEF Window
    <3>3. QED
      BY <1>2, <2>1, <3>1, <3>2 DEF Owes
  <2>3. CASE PushPcmToken(n)
    <3>1. /\ pc[n] = "pcmToken" /\ pc'[n] = "take" /\ at' = at
      BY <2>3 DEF PushPcmToken, Goto, TypeOK, sweep
    <3>2. at[n] = 1 /\ ddSnap[n] = Zero
      BY <3>1 DEF Window
    <3>3. QED
      BY <1>2, <2>1, <3>1, <3>2 DEF Owes
  <2>4. CASE TakeExecuted(n)
    <3>1. /\ pc[n] = "exec"
          /\ \/ pc'[n] = "reportExec" /\ at'[n] = 1
             \/ pc'[n] = "exec"
      BY <2>4, SweepPlace DEF TakeExecuted
    <3>2. ddSnap[n] = Zero
      BY <3>1 DEF Window
    <3>3. QED
      BY <1>2, <3>1, <3>2 DEF Owes
  <2>5. CASE ReportExecuted(n) \/ TakePcm(n) \/ ReportPcm(n)
    <3>1. /\ pc[n] \in {"reportExec", "takePcm", "reportPcm"}
          /\ pc'[n] \in {"check", "takePcm", "reportPcm"} /\ at' = at
      BY <2>5 DEF ReportExecuted, TakePcm, ReportPcm, Goto, TypeOK
    <3>2. at[n] = 1 /\ ddSnap[n] = Zero
      BY <3>1 DEF Window
    <3>3. QED
      BY <1>2, <3>1, <3>2 DEF Owes
  <2>6. QED
    BY <2>2, <2>3, <2>4, <2>5
<1>4. \A c \in Cells : /\ AllSampled(n, c)' = AllSampled(n, c) /\ Stored(n, c)' = Stored(n, c)
                       /\ Collected(n, c)' = Collected(n, c)
  BY <1>2 DEF AllSampled, Stored, Collected, Sampled, WorkersOf
<1>5. Window(n)'
  <2>1. \A c \in Cells : Collected(n, c)' + Stored(n, c)' <= AllSampled(n, c)'
    BY <1>4 DEF Window
  <2>2. \A w \in WorkersOf(n), c \in Cells :
          due'[w][c] + Cardinality(Late(perf_stats'[w], c)) = sampled'[w][c]
    BY <1>2 DEF Window
  <2>3. \A j \in DOMAIN NUMAToWorkerCPUs[n] :
          Owes(n, j)' => Tokens(perf_stats'[WorkerAt(n, j)]) # {}
    BY <1>2, <1>3 DEF Window
  <2>4. QED
    BY <1>3, <2>1, <2>2, <2>3 DEF Window, WorkersOf, WorkerAt
<1>6. ASSUME Lossless(n) PROVE Lossless(n)'
  <2>1. \A c \in Cells : Collected(n, c)' + Stored(n, c)' = AllSampled(n, c)'
    BY <1>4, <1>6 DEF Lossless
  <2>2. \A w \in WorkersOf(n) : /\ Signals(perf_stats'[w]) = Tokens(perf_stats'[w])
                                /\ \A i, j \in Tokens(perf_stats'[w]) : i = j
    BY <1>2, <1>6 DEF Lossless
  <2>3. \A j \in DOMAIN NUMAToWorkerCPUs[n] :
          ~Owes(n, j)' => Tokens(perf_stats'[WorkerAt(n, j)]) = {}
    BY <1>2, <1>3, <1>6 DEF Lossless
  <2>4. QED
    BY <2>1, <2>2, <2>3 DEF Lossless, WorkersOf, WorkerAt
<1>7. QED
  BY <1>5, <1>6 DEF Kept

-------------------------------------------------------------------------------
WindowInv == \A n \in NumaNodes : Window(n)
LosslessInv == \A n \in NumaNodes : Lossless(n)

\* To begin with nothing was sampled and no row reported.
LEMMA InitWindow == Init => WindowInv /\ LosslessInv
<1> SUFFICES ASSUME Init, NEW n \in NumaNodes PROVE Window(n) /\ Lossless(n)
  BY DEF WindowInv, LosslessInv
<1>1. /\ pc[n] = "check" /\ at[n] = 1 /\ ddSnap[n] = Zero /\ dataDistReel[n] = <<>>
  BY ThreadsAssumption DEF Init, Threads
<1>2. /\ WorkersOf(n) \subseteq Workers
      /\ \A w \in WorkersOf(n) : perf_stats[w] = <<>> /\ due[w] = Zero /\ sampled[w] = Zero
  BY WorkersByPlace DEF Init
<1>3. \A j : ~Owes(n, j)
  BY <1>1 DEF Owes
<1>4. \A w \in WorkersOf(n) :
        /\ Tokens(perf_stats[w]) = {} /\ Signals(perf_stats[w]) = {}
        /\ \A c : Waiting(perf_stats[w], c) = {} /\ Late(perf_stats[w], c) = {}
  BY <1>2 DEF Tokens, Signals, Waiting, Late
<1>5. ASSUME NEW c \in Cells
      PROVE  Collected(n, c) = 0 /\ Stored(n, c) = 0 /\ AllSampled(n, c) = 0
  <2>1. Collected(n, c) = 0
    <3>1. 1..0 = {} /\ Len(dataDistReel[n]) = 0
      BY <1>1
    <3>2. Sampled(n, Len(dataDistReel[n]), c) = 0
      BY <3>1, SumEmpty DEF Sampled
    <3>3. QED
      BY <1>1, <3>2 DEF Collected, Zero
  <2>2. Interval * 0 = 0
    BY IntervalAssumption
  <2>3. AllSampled(n, c) = 0
    <3> DEFINE a == [w \in WorkersOf(n) |-> Interval * sampled[w][c]]
    <3>1. \A w \in WorkersOf(n) : a[w] = 0
      BY <1>2, <2>2 DEF Zero
    <3>2. AllSampled(n, c) = SumFunctionOnSet(a, WorkersOf(n))
      BY DEF AllSampled
    <3> HIDE DEF a
    <3>3. QED
      BY <3>1, <3>2, WorkersFinite, SumNone
  <2>4. Stored(n, c) = 0
    <3> DEFINE s == [w \in WorkersOf(n) |-> Interval * Cardinality(Waiting(perf_stats[w], c))]
    <3>1. \A w \in WorkersOf(n) : s[w] = 0
      BY <1>4, <2>2, FS_EmptySet
    <3>2. Stored(n, c) = SumFunctionOnSet(s, WorkersOf(n))
      BY DEF Stored
    <3> HIDE DEF s
    <3>3. QED
      BY <3>1, <3>2, WorkersFinite, SumNone
  <2>5. QED
    BY <2>1, <2>3, <2>4
<1>6. Window(n)
  <2>1. ASSUME NEW w \in WorkersOf(n), NEW c \in Cells
        PROVE  due[w][c] + Cardinality(Late(perf_stats[w], c)) = sampled[w][c]
    <3>1. Cardinality(Late(perf_stats[w], c)) = 0
      BY <1>4, FS_EmptySet
    <3>2. QED
      BY <1>2, <3>1 DEF Zero
  <2>2. QED
    BY <1>1, <1>3, <1>5, <2>1 DEF Window
<1>7. Lossless(n)
  <2>1. \A j \in DOMAIN NUMAToWorkerCPUs[n] : Tokens(perf_stats[WorkerAt(n, j)]) = {}
    BY <1>4, WorkersByPlace
  <2>2. \A c \in Cells : Collected(n, c) + Stored(n, c) = AllSampled(n, c)
    BY <1>5
  <2>3. \A w \in WorkersOf(n) : /\ Signals(perf_stats[w]) = Tokens(perf_stats[w])
                                /\ \A i, j \in Tokens(perf_stats[w]) : i = j
    BY <1>4
  <2>4. QED
    BY <2>1, <2>2, <2>3 DEF Lossless
<1>8. QED
  BY <1>6, <1>7

\* Every step keeps every window.
LEMMA NextWindow ==
  ASSUME PoolInv, PoolInv', WindowInv, [Next]_vars
  PROVE  WindowInv' /\ (UnsetType = {"sample"} /\ LosslessInv => LosslessInv')
<1>1. ASSUME NEW n \in NumaNodes PROVE Kept(n)
  <2>1. Window(n)
    BY DEF WindowInv
  <2>2. ASSUME NEW m \in NumaNodes, Sweeper(m) PROVE Kept(n)
    <3>1. CASE m # n
      BY <2>1, <2>2, <3>1, SweepElsewhere
    <3>2. CASE m = n
      BY <2>1, <2>2, <3>2, TokenKept, TakeKept, ReportKept, SweepKept DEF Sweeper
    <3>3. QED
      BY <3>1, <3>2
  <2>3. ASSUME NEW w \in Workers, Worker(w) PROVE Kept(n)
    BY <2>1, <2>3, SampleKept, WindowUntouched DEF Worker
  <2>4. QED
    BY <2>1, <2>2, <2>3, WindowUntouched DEF Next, Exited
<1>2. QED
  BY <1>1 DEF Kept, WindowInv, LosslessInv

\* Of a worker's samples some are due, and the others wait.
LEMMA DueAndWaiting ==
  ASSUME TypeOK, NEW n \in NumaNodes, Window(n), NEW c \in Cells
  PROVE  /\ Due(n, c) \in Nat
         /\ AllSampled(n, c) <= Interval * Due(n, c) + Stored(n, c)
         /\ (\A w \in WorkersOf(n) : Tokens(perf_stats[w]) = {}) =>
              AllSampled(n, c) = Interval * Due(n, c) + Stored(n, c)
<1> DEFINE a == [w \in WorkersOf(n) |-> Interval * sampled[w][c]]
           d == [w \in WorkersOf(n) |-> due[w][c]]
           i == [w \in WorkersOf(n) |-> Interval * due[w][c]]
           s == [w \in WorkersOf(n) |-> Interval * Cardinality(Waiting(perf_stats[w], c))]
           b == [w \in WorkersOf(n) |->
                   Interval * due[w][c] + Interval * Cardinality(Waiting(perf_stats[w], c))]
<1>1. \A w \in WorkersOf(n) :
        /\ due[w][c] \in Nat /\ sampled[w][c] \in Nat
        /\ due[w][c] + Cardinality(Late(perf_stats[w], c)) = sampled[w][c]
        /\ Cardinality(Waiting(perf_stats[w], c)) \in Nat
        /\ Cardinality(Late(perf_stats[w], c)) \in Nat
        /\ Cardinality(Late(perf_stats[w], c)) <= Cardinality(Waiting(perf_stats[w], c))
  BY WindowNumbers, QueueCounted DEF Window
<1>2. /\ \A k \in Nat : Interval * k \in Nat
      /\ \A k, m \in Nat : Interval * (k + m) = Interval * k + Interval * m
      /\ \A k, m \in Nat : k <= m => Interval * k <= Interval * m
  BY IntervalAssumption
<1>3. \A w \in WorkersOf(n) : /\ a[w] \in Nat /\ d[w] \in Nat /\ i[w] \in Nat /\ s[w] \in Nat
                              /\ b[w] = i[w] + s[w] /\ i[w] = Interval * d[w] /\ b[w] \in Nat
  BY <1>1, <1>2
<1>4. \A w \in WorkersOf(n) : a[w] <= b[w]
  <2> TAKE w \in WorkersOf(n)
  <2>1. PICK m \in Nat : m = due[w][c]
    BY <1>1
  <2>2. PICK l \in Nat : l = Cardinality(Late(perf_stats[w], c))
    BY <1>1
  <2>3. PICK k \in Nat : k = Cardinality(Waiting(perf_stats[w], c))
    BY <1>1
  <2>4. a[w] = Interval * (m + l) /\ b[w] = Interval * m + Interval * k
    BY <1>1, <2>1, <2>2, <2>3
  <2>5. Interval * (m + l) <= Interval * (m + k) /\ Interval * (m + k) = Interval * m + Interval * k
    <3>1. m + l <= m + k /\ m + l \in Nat /\ m + k \in Nat
      BY <1>1, <2>2, <2>3
    <3>2. QED
      BY <1>2, <3>1
  <2>6. QED
    BY <2>4, <2>5
<1>5. ASSUME \A w \in WorkersOf(n) : Tokens(perf_stats[w]) = {}
      PROVE  \A w \in WorkersOf(n) : b[w] = a[w]
  <2> TAKE w \in WorkersOf(n)
  <2>1. Late(perf_stats[w], c) = Waiting(perf_stats[w], c)
    BY <1>5 DEF Late
  <2>2. PICK m \in Nat : m = due[w][c]
    BY <1>1
  <2>3. PICK k \in Nat : k = Cardinality(Waiting(perf_stats[w], c))
    BY <1>1
  <2>4. a[w] = Interval * (m + k) /\ b[w] = Interval * m + Interval * k
    BY <1>1, <2>1, <2>2, <2>3
  <2>5. QED
    BY <1>2, <2>4
<1>6. /\ AllSampled(n, c) = SumFunctionOnSet(a, WorkersOf(n))
      /\ Stored(n, c) = SumFunctionOnSet(s, WorkersOf(n))
      /\ Due(n, c) = SumFunctionOnSet(d, WorkersOf(n))
  BY DEF AllSampled, Stored, Due
<1> HIDE DEF a, d, i, s, b
<1>7. SumFunctionOnSet(d, WorkersOf(n)) \in Nat
  BY <1>3, WorkersFinite, SumNat
<1>8. SumFunctionOnSet(i, WorkersOf(n)) = Interval * SumFunctionOnSet(d, WorkersOf(n))
  BY <1>3, IntervalAssumption, WorkersFinite, SumTimes
<1>9. SumFunctionOnSet(b, WorkersOf(n)) =
        SumFunctionOnSet(i, WorkersOf(n)) + SumFunctionOnSet(s, WorkersOf(n))
  BY <1>3, WorkersFinite, SumPlus
<1>10. SumFunctionOnSet(a, WorkersOf(n)) <= SumFunctionOnSet(b, WorkersOf(n))
  BY <1>3, <1>4, WorkersFinite, SumLeq
<1>11. ASSUME \A w \in WorkersOf(n) : Tokens(perf_stats[w]) = {}
       PROVE  SumFunctionOnSet(b, WorkersOf(n)) = SumFunctionOnSet(a, WorkersOf(n))
  BY <1>3, <1>5, <1>11, WorkersFinite, SumSame
<1>12. QED
  BY <1>6, <1>7, <1>8, <1>9, <1>10, <1>11

\* The invariant of the windows holds throughout.
LEMMA WindowsKept ==
  Spec => []( /\ PoolInv /\ WindowInv
              /\ UnsetType = {"sample"} => LosslessInv )
<1> DEFINE I == PoolInv /\ WindowInv /\ (UnsetType = {"sample"} => LosslessInv)
<1>1. Init => I
  BY InitPool, InitWindow
<1>2. I /\ [Next]_vars => I'
  BY NextPool, NextWindow
<1>3. QED
  BY <1>1, <1>2, PTL DEF Spec

(***************************************************************************)
(* No row of the data view holds a sample twice or one that was pushed     *)
(* behind the token of its sweep, for any number of nodes, workers and     *)
(* cells, and even when a sample whose qType was never set ends a sweep.   *)
(***************************************************************************)
THEOREM RowsNeverAhead == Spec => []WindowNeverAhead
<1>1. PoolInv /\ WindowInv => WindowNeverAhead
  <2> SUFFICES ASSUME PoolInv, WindowInv, NEW n \in NumaNodes, NEW c \in Cells
               PROVE  Sampled(n, Len(dataDistReel[n]), c) + ddSnap[n][c] <= Interval * Due(n, c)
    BY DEF WindowNeverAhead
  <2>1. TypeOK /\ Window(n)
    BY DEF PoolInv, WindowInv
  <2>2. Collected(n, c) + Stored(n, c) <= AllSampled(n, c)
    BY <2>1 DEF Window
  <2>3. Due(n, c) \in Nat /\ AllSampled(n, c) <= Interval * Due(n, c) + Stored(n, c)
    BY <2>1, DueAndWaiting
  <2>4. PICK k \in Nat : k = Interval * Due(n, c)
    BY <2>3, IntervalAssumption
  <2>5. Collected(n, c) \in Nat /\ Stored(n, c) \in Nat /\ AllSampled(n, c) \in Nat
    BY <2>1, WindowNumbers
  <2>6. Collected(n, c) <= k
    BY <2>2, <2>3, <2>4, <2>5
  <2>7. QED
    BY <2>4, <2>6 DEF Collected
<1>2. QED
  BY <1>1, WindowsKept, PTL

(***************************************************************************)
(* If the qType of a sample never reads as a token, the rows cut the       *)
(* samples of each worker into consecutive windows: between sweeps the     *)
(* rows hold every sample before the last tokens, once, and no other.      *)
(***************************************************************************)
THEOREM RowsExact ==
  ASSUME UnsetType = {"sample"}
  PROVE  Spec => []WindowExact
<1>1. PoolInv /\ WindowInv /\ LosslessInv => WindowExact
  <2> SUFFICES ASSUME PoolInv, WindowInv, LosslessInv, NEW n \in NumaNodes,
                      pc[n] \notin {"token", "pcmToken", "take", "report"}, NEW c \in Cells
               PROVE  Sampled(n, Len(dataDistReel[n]), c) = Interval * Due(n, c)
    BY DEF WindowExact
  <2>1. TypeOK /\ Window(n) /\ Lossless(n)
    BY DEF PoolInv, WindowInv, LosslessInv
  <2>2. \A w \in WorkersOf(n) : Tokens(perf_stats[w]) = {}
    <3>1. \A j : ~Owes(n, j)
      BY DEF Owes
    <3>2. \A j \in DOMAIN NUMAToWorkerCPUs[n] : Tokens(perf_stats[WorkerAt(n, j)]) = {}
      BY <2>1, <3>1 DEF Lossless
    <3>3. \A w \in WorkersOf(n) : \E j \in DOMAIN NUMAToWorkerCPUs[n] : w = WorkerAt(n, j)
      BY WorkersByPlace
    <3>4. QED
      BY <3>2, <3>3
  <2>3. Collected(n, c) + Stored(n, c) = AllSampled(n, c)
    BY <2>1 DEF Lossless
  <2>4. Due(n, c) \in Nat /\ AllSampled(n, c) = Interval * Due(n, c) + Stored(n, c)
    BY <2>1, <2>2, DueAndWaiting
  <2>5. PICK k \in Nat : k = Interval * Due(n, c)
    BY <2>4, IntervalAssumption
  <2>6. Collected(n, c) \in Nat /\ Stored(n, c) \in Nat /\ AllSampled(n, c) \in Nat
    BY <2>1, WindowNumbers
  <2>7. Collected(n, c) = k
    BY <2>3, <2>4, <2>5, <2>6
  <2>8. ddSnap[n][c] = 0 /\ Sampled(n, Len(dataDistReel[n]), c) \in Nat
    BY <2>1, WindowNumbers DEF Window, Zero
  <2>9. QED
    BY <2>5, <2>7, <2>8 DEF Collected
<1>2. []( UnsetType = {"sample"} )
  BY PTL
<1>3. QED
  BY <1>1, <1>2, WindowsKept, PTL

-------------------------------------------------------------------------------
(***************************************************************************)
(* The two views of a sweep.  A worker has executed what its samples stand *)
(* for but for the query it holds, so what the rows stand for is executed, *)
(* but for one query per worker, when the sweeper comes to count it.       *)
(***************************************************************************)
ExecutedBy(w) == SumFunction(qExecutedMice[w])
SampledBy(w)  == SumFunction([c \in Cells |-> Interval * sampled[w][c]])
Busy(w) == IF query[w] = NoQuery THEN 0 ELSE 1

Settled(w) ==
  /\ pc[w] = "sample" => cnt[w] = Interval
  /\ ExecutedBy(w) + Busy(w) = SampledBy(w) + cnt[w]

\* What a worker has executed and sampled is numbers.
LEMMA WorkerNumbers ==
  TypeOK => \A w \in Workers :
    /\ ExecutedBy(w) \in Nat /\ SampledBy(w) \in Nat /\ cnt[w] \in Nat /\ Busy(w) \in {0, 1}
    /\ ExecutedBy(w) = SumFunctionOnSet(qExecutedMice[w], Cells)
    /\ qExecutedMice[w] \in [Cells -> Nat] /\ sampled[w] \in [Cells -> Nat]
<1> SUFFICES ASSUME TypeOK, NEW w \in Workers
             PROVE  /\ ExecutedBy(w) \in Nat /\ SampledBy(w) \in Nat /\ cnt[w] \in Nat
                    /\ Busy(w) \in {0, 1}
                    /\ ExecutedBy(w) = SumFunctionOnSet(qExecutedMice[w], Cells)
                    /\ qExecutedMice[w] \in [Cells -> Nat] /\ sampled[w] \in [Cells -> Nat]
  OBVIOUS
<1>1. /\ qExecutedMice[w] \in [Cells -> Nat] /\ sampled[w] \in [Cells -> Nat]
      /\ cnt[w] \in Nat /\ Busy(w) \in {0, 1}
  BY IntervalAssumption DEF TypeOK, PerCell, Busy
<1>2. ExecutedBy(w) = SumFunctionOnSet(qExecutedMice[w], Cells)
  BY <1>1 DEF ExecutedBy, SumFunction
<1>3. ExecutedBy(w) \in Nat
  <2>1. \A c \in Cells : qExecutedMice[w][c] \in Nat
    BY <1>1
  <2>2. QED
    BY <1>2, <2>1, FiniteAssumption, SumNat
<1>4. SampledBy(w) \in Nat
  <2> DEFINE s == [c \in Cells |-> Interval * sampled[w][c]]
  <2>1. \A k \in Nat : Interval * k \in Nat
    BY IntervalAssumption
  <2>2. \A c \in Cells : s[c] \in Nat
    BY <1>1, <2>1
  <2>3. SampledBy(w) = SumFunctionOnSet(s, Cells)
    BY DEF SampledBy, SumFunction
  <2> HIDE DEF s
  <2>4. QED
    BY <2>2, <2>3, FiniteAssumption, SumNat
<1>5. QED
  BY <1>1, <1>2, <1>3, <1>4

\* The same of the state after a step.
LEMMA WorkerNumbersAfter ==
  TypeOK' => \A w \in Workers :
    /\ ExecutedBy(w)' \in Nat /\ SampledBy(w)' \in Nat /\ cnt'[w] \in Nat
    /\ ExecutedBy(w)' = SumFunctionOnSet(qExecutedMice'[w], Cells)
    /\ qExecutedMice'[w] \in [Cells -> Nat] /\ sampled'[w] \in [Cells -> Nat]
<1>1. TypeOK' => (\A w \in Workers :
        /\ ExecutedBy(w) \in Nat /\ SampledBy(w) \in Nat /\ cnt[w] \in Nat /\ Busy(w) \in {0, 1}
        /\ ExecutedBy(w) = SumFunctionOnSet(qExecutedMice[w], Cells)
        /\ qExecutedMice[w] \in [Cells -> Nat] /\ sampled[w] \in [Cells -> Nat])'
  BY WorkerNumbers, PTL
<1>2. QED
  BY <1>1

\* A worker that is not the one that moves.
LEMMA OtherWorker ==
  ASSUME TypeOK, NEW w \in Workers, Settled(w),
         UNCHANGED <<pc[w], query[w], cnt[w], qExecutedMice[w], sampled[w]>>
  PROVE  Settled(w)' /\ ExecutedBy(w)' = ExecutedBy(w)
<1>1. ExecutedBy(w)' = ExecutedBy(w) /\ SampledBy(w)' = SampledBy(w) /\ Busy(w)' = Busy(w)
  BY DEF ExecutedBy, SampledBy, Busy
<1>2. QED
  BY <1>1 DEF Settled

\* What a step leaves of a worker that does not make it.
LEMMA WorkerUntouched ==
  ASSUME PoolInv, NEW w \in Workers, [Next]_vars, ~Worker(w)
  PROVE  UNCHANGED <<pc[w], query[w], cnt[w], qExecutedMice[w], sampled[w]>>
<1>1. TypeOK /\ w \in Threads /\ w \notin Routers /\ w \notin NumaNodes /\ w # main
  BY ThreadsAssumption DEF PoolInv, Threads
<1> USE <1>1
<1>2. ASSUME NEW t \in (Routers \cup Workers) \ {w}, LoadCompleted(t) \/ StoreCompleted(t)
      PROVE  UNCHANGED <<pc[w], query[w], cnt[w], qExecutedMice[w], sampled[w]>>
  BY <1>2 DEF LoadCompleted, StoreCompleted, Goto, TypeOK, work, history
<1>3. ASSUME NEW r \in Routers, Router(r)
      PROVE  UNCHANGED <<pc[w], query[w], cnt[w], qExecutedMice[w], sampled[w]>>
  <2>1. CASE DrawQuery(r)
    BY <2>1 DEF DrawQuery, Goto, TypeOK, work
  <2>2. CASE LoadPushed(r) \/ StorePushed(r)
    BY <2>2 DEF LoadPushed, StorePushed, Goto, TypeOK, work, history
  <2>3. CASE PushJob(r)
    BY <2>3 DEF PushJob, Goto, TypeOK
  <2>4. QED
    BY <1>2, <1>3, <2>1, <2>2, <2>3 DEF Router
<1>4. ASSUME NEW v \in Workers, Worker(v)
      PROVE  UNCHANGED <<pc[w], query[w], cnt[w], qExecutedMice[w], sampled[w]>>
  <2>1. v # w
    BY <1>4
  <2>2. CASE PopJob(v)
    BY <2>1, <2>2 DEF PopJob, Goto, TypeOK, history
  <2>3. CASE PushSample(v)
    BY <2>1, <2>3 DEF PushSample, LeaveSample, Goto, TypeOK
  <2>4. CASE CountExecuted(v)
    BY <2>1, <2>4 DEF CountExecuted, SetExecuted, Goto, TypeOK, history
  <2>5. QED
    BY <1>2, <1>4, <2>1, <2>2, <2>3, <2>4 DEF Worker
<1>5. ASSUME NEW n \in NumaNodes, Sweeper(n)
      PROVE  UNCHANGED <<pc[w], query[w], cnt[w], qExecutedMice[w], sampled[w]>>
  <2>1. CASE CheckRunning(n)
    BY <2>1 DEF CheckRunning, Goto, TypeOK, work, history
  <2>2. CASE PushToken(n)
    BY <2>2, SweepPlace DEF PushToken, work
  <2>3. CASE PushPcmToken(n)
    BY <2>3 DEF PushPcmToken, Goto, TypeOK, work, history
  <2>4. CASE TakeSample(n)
    <3>1. pc'[w] = pc[w]
      BY <2>4, SweepPlace DEF TakeSample, TakeUntil
    <3>2. QED
      BY <2>4, <3>1 DEF TakeSample, TakeUntil, work, history
  <2>5. CASE ReportSamples(n)
    BY <2>5 DEF ReportSamples, Goto, TypeOK, work, history
  <2>6. CASE TakeExecuted(n)
    BY <2>6, SweepPlace DEF TakeExecuted, work, history
  <2>7. CASE ReportExecuted(n)
    BY <2>7 DEF ReportExecuted, Goto, TypeOK, work, history
  <2>8. CASE TakePcm(n)
    BY <2>8 DEF TakePcm, Goto, TypeOK, work, history
  <2>9. CASE ReportPcm(n)
    BY <2>9 DEF ReportPcm, Goto, TypeOK, work, history
  <2>10. QED
    BY <1>5, <2>1, <2>2, <2>3, <2>4, <2>5, <2>6, <2>7, <2>8, <2>9 DEF Sweeper
<1>6. CASE SysSweeper
  BY <1>6 DEF SysSweeper, work
<1>7. CASE Main
  BY <1>7 DEF Main, Terminate, DumpReel, BeginDump, BeginDumpIf, Exit, Goto, TypeOK, work, history
<1>8. CASE UNCHANGED vars
  BY <1>8 DEF vars, work, history
<1>9. QED
  BY <1>3, <1>4, <1>5, <1>6, <1>7, <1>8 DEF Next, Exited

\* A worker executes and samples what it takes, and counts no query back.
LEMMA SettledStays ==
  ASSUME PoolInv, PoolInv', CountInv, CountInv', [Next]_vars, NEW w \in Workers, Settled(w)
  PROVE  Settled(w)' /\ ExecutedBy(w) <= ExecutedBy(w)'
<1>1. /\ TypeOK /\ TypeOK' /\ w \in Threads /\ IsFiniteSet(Cells)
      /\ pc[w] # "poll" => query[w] \in Cells
      /\ ExecutedBy(w) \in Nat /\ SampledBy(w) \in Nat /\ cnt[w] \in Nat
      /\ ExecutedBy(w) = SumFunctionOnSet(qExecutedMice[w], Cells)
      /\ ExecutedBy(w)' = SumFunctionOnSet(qExecutedMice'[w], Cells)
      /\ qExecutedMice[w] \in [Cells -> Nat] /\ sampled[w] \in [Cells -> Nat]
      /\ qExecutedMice'[w] \in [Cells -> Nat] /\ sampled'[w] \in [Cells -> Nat]
      /\ ExecutedBy(w) + Busy(w) = SampledBy(w) + cnt[w]
  BY WorkerNumbers, WorkerNumbersAfter, FiniteAssumption DEF PoolInv, Located, Threads, Settled
<1>2. /\ query[w] = NoQuery => Busy(w) = 0
      /\ query[w] # NoQuery => Busy(w) = 1
      /\ query'[w] = NoQuery => Busy(w)' = 0
      /\ query'[w] # NoQuery => Busy(w)' = 1
      /\ \A c \in Cells : c # NoQuery
  BY CellsAssumption DEF Busy
<1>3. CASE ~Worker(w)
  BY <1>1, <1>3, WorkerUntouched, OtherWorker
<1>4. CASE PopJob(w)
  <2>1. /\ pc[w] = "poll" /\ query'[w] \in Cells /\ cnt'[w] = cnt[w] + 1
        /\ pc'[w] = IF cnt[w] + 1 = Interval THEN "sample" ELSE "loadCompleted"
        /\ UNCHANGED <<qExecutedMice, sampled>>
    BY <1>1, <1>4 DEF PopJob, Goto, TypeOK, history
  <2>2. Busy(w) = 0 /\ Busy(w)' = 1
    BY <1>2, <2>1 DEF CountInv, EmptyHanded
  <2>3. ExecutedBy(w)' = ExecutedBy(w) /\ SampledBy(w)' = SampledBy(w)
    BY <2>1 DEF ExecutedBy, SampledBy
  <2>4. QED
    BY <1>1, <2>1, <2>2, <2>3 DEF Settled
<1>5. CASE PushSample(w)
  <2>1. PICK d \in Cells : d = query[w]
    BY <1>1, <1>5 DEF PushSample, LeaveSample
  <2>2. /\ pc[w] = "sample" /\ pc'[w] = "loadCompleted" /\ cnt'[w] = 0 /\ query' = query
        /\ sampled' = [sampled EXCEPT ![w][d] = @ + 1]
        /\ UNCHANGED qExecutedMice
    BY <1>1, <1>5, <2>1 DEF PushSample, LeaveSample, Goto, TypeOK
  <2>3. sampled'[w] = [sampled[w] EXCEPT ![d] = @ + 1]
    BY <1>1, <2>2 DEF TypeOK
  <2>4. cnt[w] = Interval
    BY <2>2 DEF Settled
  <2>5. ExecutedBy(w)' = ExecutedBy(w) /\ Busy(w)' = Busy(w)
    BY <2>2 DEF ExecutedBy, Busy
  <2>6. SampledBy(w)' = SampledBy(w) + Interval
    <3> DEFINE f == [c \in Cells |-> Interval * sampled[w][c]]
               g == [c \in Cells |-> Interval * sampled'[w][c]]
    <3>1. \A k \in Nat : Interval * k \in Nat /\ Interval * (k + 1) = Interval * k + Interval
      BY IntervalAssumption
    <3>2. /\ \A c \in Cells : f[c] \in Nat /\ g[c] \in Nat
          /\ \A c \in Cells \ {d} : g[c] = f[c]
      BY <1>1, <2>3, <3>1
    <3>3. g[d] = f[d] + Interval
      <4>1. PICK m \in Nat : m = sampled[w][d]
        BY <1>1
      <4>2. g[d] = Interval * (m + 1) /\ f[d] = Interval * m
        BY <1>1, <2>3, <4>1
      <4>3. QED
        BY <3>1, <4>2
    <3>4. SampledBy(w) = SumFunctionOnSet(f, Cells) /\ SampledBy(w)' = SumFunctionOnSet(g, Cells)
      BY DEF SampledBy, SumFunction
    <3> HIDE DEF f, g
    <3>5. SumFunctionOnSet(g, Cells) + f[d] = SumFunctionOnSet(f, Cells) + g[d]
      BY <1>1, <3>2, SumChange
    <3>6. SumFunctionOnSet(g, Cells) \in Nat /\ SumFunctionOnSet(f, Cells) \in Nat
      BY <1>1, <3>2, SumNat
    <3>7. QED
      BY <3>2, <3>3, <3>4, <3>5, <3>6, IntervalAssumption
  <2>7. QED
    BY <1>1, <1>2, <2>2, <2>4, <2>5, <2>6, IntervalAssumption DEF Settled
<1>6. CASE LoadCompleted(w) \/ StoreCompleted(w)
  <2>1. w \notin Routers
    BY ThreadsAssumption
  <2>2. /\ pc'[w] \in {"storeCompleted", "count"}
        /\ UNCHANGED <<query, cnt, qExecutedMice, sampled>>
    BY <1>1, <1>6, <2>1 DEF LoadCompleted, StoreCompleted, Goto, TypeOK, work, history
  <2>3. ExecutedBy(w)' = ExecutedBy(w) /\ SampledBy(w)' = SampledBy(w) /\ Busy(w)' = Busy(w)
    BY <2>2 DEF ExecutedBy, SampledBy, Busy
  <2>4. QED
    BY <1>1, <2>2, <2>3 DEF Settled
<1>7. CASE CountExecuted(w)
  <2>1. PICK d \in Cells : d = query[w]
    BY <1>1, <1>7 DEF CountExecuted, SetExecuted
  <2>2. /\ pc[w] = "count" /\ pc'[w] = "poll" /\ query'[w] = NoQuery
        /\ qExecutedMice' = [qExecutedMice EXCEPT ![w][d] = qExecutedMice[w][d] + 1]
        /\ UNCHANGED <<cnt, sampled>>
    BY <1>1, <1>7, <2>1 DEF CountExecuted, SetExecuted, Goto, TypeOK, history
  <2>3. qExecutedMice'[w] = [qExecutedMice[w] EXCEPT ![d] = qExecutedMice[w][d] + 1]
    BY <1>1, <2>2 DEF TypeOK
  <2>4. Busy(w) = 1 /\ Busy(w)' = 0
    BY <1>2, <2>1, <2>2
  <2>5. SampledBy(w)' = SampledBy(w)
    BY <2>2 DEF SampledBy
  <2>6. ExecutedBy(w)' = ExecutedBy(w) + 1
    <3>1. PICK f \in [Cells -> Nat] : f = qExecutedMice[w]
      BY <1>1
    <3>2. PICK g \in [Cells -> Nat] : g = qExecutedMice'[w]
      BY <1>1
    <3>3. /\ \A c \in Cells : f[c] \in Nat /\ g[c] \in Nat
          /\ \A c \in Cells \ {d} : g[c] = f[c]
          /\ g[d] = f[d] + 1
      BY <2>3, <3>1, <3>2
    <3>4. SumFunctionOnSet(g, Cells) + f[d] = SumFunctionOnSet(f, Cells) + g[d]
      BY <1>1, <3>3, SumChange
    <3>5. SumFunctionOnSet(g, Cells) \in Nat /\ SumFunctionOnSet(f, Cells) \in Nat
      BY <1>1, <3>3, SumNat
    <3>6. SumFunctionOnSet(g, Cells) = SumFunctionOnSet(f, Cells) + 1
      BY <3>3, <3>4, <3>5
    <3>7. QED
      BY <1>1, <3>1, <3>2, <3>6
  <2>7. QED
    BY <1>1, <2>2, <2>4, <2>5, <2>6 DEF Settled
<1>8. QED
  BY <1>3, <1>4, <1>5, <1>6, <1>7 DEF Worker

-------------------------------------------------------------------------------
\* The queries the first i rows stand for, the workers whose executed queries
\* the sweep has still to count, and what those have executed.
Rows(n, i) == SumFunction([c \in Cells |-> Sampled(n, i, c)])
ToCome(n) ==
  {WorkerAt(n, j) : j \in {k \in DOMAIN NUMAToWorkerCPUs[n] : pc[n] = "exec" /\ k >= at[n]}}
ExecutedIn(n, S) == SumFunctionOnSet([w \in WorkersOf(n) |-> ExecutedBy(w)], S)

(***************************************************************************)
(* While a sweep counts the executed queries: what it has counted, with    *)
(* what the workers to come have executed, covers the rows reported.       *)
(***************************************************************************)
View(n) ==
  /\ pc[n] \notin {"exec", "reportExec"} => qExecSnap[n] = Zero
  /\ pc[n] \in {"exec", "reportExec"} =>
       Rows(n, Len(dataDistReel[n]))
         <= SumFunction(qExecSnap[n]) + ExecutedIn(n, ToCome(n)) + Cardinality(WorkersOf(n))
  /\ \A i \in DOMAIN queryExecReel[n] :
       Rows(n, i) <= SumFunction(queryExecReel[n][i]) + Cardinality(WorkersOf(n))

\* The sum over all cells of a count.
LEMMA CellsCounted ==
  ASSUME NEW f \in PerCell
  PROVE  SumFunction(f) = SumFunctionOnSet(f, Cells) /\ SumFunction(f) \in Nat
<1>1. SumFunction(f) = SumFunctionOnSet(f, Cells)
  BY DEF PerCell, SumFunction
<1>2. \A c \in Cells : f[c] \in Nat
  BY DEF PerCell
<1>3. QED
  BY <1>1, <1>2, FiniteAssumption, SumNat

\* What the rows of a reel stand for is a number, and stays when the reel grows.
LEMMA RowsCounted ==
  ASSUME NEW reel \in Seq(PerCell), NEW row \in PerCell, NEW i \in 0..Len(reel)
  PROVE  /\ SumFunction([c \in Cells |-> RowSum(reel, i, c)]) \in Nat
         /\ SumFunction([c \in Cells |-> RowSum(Append(reel, row), i, c)]) =
            SumFunction([c \in Cells |-> RowSum(reel, i, c)])
<1> DEFINE f == [c \in Cells |-> RowSum(reel, i, c)]
           g == [c \in Cells |-> RowSum(Append(reel, row), i, c)]
<1>1. \A c \in Cells : RowSum(reel, i, c) \in Nat /\ RowSum(Append(reel, row), i, c) = RowSum(reel, i, c)
  BY RowAdded
<1>2. g = f /\ f \in PerCell
  BY <1>1 DEF PerCell
<1> HIDE DEF f, g
<1>3. SumFunction(g) = SumFunction(f) /\ SumFunction(f) \in Nat
  BY <1>2, CellsCounted
<1>4. QED
  BY <1>3 DEF f, g

\* Reading the rows of a node as rows of its reel.
LEMMA RowsOfReel ==
  /\ \A n, i : Rows(n, i) = SumFunction([c \in Cells |-> RowSum(dataDistReel[n], i, c)])
  /\ \A n, i : Rows(n, i)' = SumFunction([c \in Cells |-> RowSum(dataDistReel'[n], i, c)])
BY DEF Rows, Sampled, RowSum

\* The workers only execute more.
LEMMA ExecutedMore ==
  ASSUME TypeOK, TypeOK', NEW n \in NumaNodes, NEW T \in SUBSET WorkersOf(n),
         \A w \in WorkersOf(n) : ExecutedBy(w) <= ExecutedBy(w)'
  PROVE  /\ ExecutedIn(n, T) \in Nat /\ ExecutedIn(n, T)' \in Nat
         /\ ExecutedIn(n, T) <= ExecutedIn(n, T)'
<1> DEFINE f == [w \in WorkersOf(n) |-> ExecutedBy(w)]
           g == [w \in WorkersOf(n) |-> ExecutedBy(w)']
<1>1. \A w \in T : f[w] \in Nat /\ g[w] \in Nat /\ f[w] <= g[w]
  <2>1. \A w \in T : ExecutedBy(w) \in Nat /\ ExecutedBy(w)' \in Nat
    BY WorkerNumbers, WorkerNumbersAfter, WorkersByPlace
  <2>2. QED
    BY <2>1
<1>2. IsFiniteSet(T)
  BY WorkersFinite, FS_Subset
<1>3. ExecutedIn(n, T) = SumFunctionOnSet(f, T) /\ ExecutedIn(n, T)' = SumFunctionOnSet(g, T)
  BY DEF ExecutedIn, WorkersOf
<1> HIDE DEF f, g
<1>4. QED
  BY <1>1, <1>2, <1>3, SumNat, SumLeq

\* The workers to come are workers of the node.
LEMMA ToComeWorkers ==
  ASSUME NEW n \in NumaNodes
  PROVE  ToCome(n) \subseteq WorkersOf(n)
BY WorkersByPlace DEF ToCome

\* A node whose sweeper a step leaves alone.
LEMMA ViewStays ==
  ASSUME TypeOK, TypeOK', NEW n \in NumaNodes, View(n),
         UNCHANGED <<pc[n], at[n], qExecSnap[n], dataDistReel[n], queryExecReel[n]>>,
         Len(queryExecReel[n]) <= Len(dataDistReel[n]),
         \A w \in WorkersOf(n) : ExecutedBy(w) <= ExecutedBy(w)'
  PROVE  View(n)'
<1>1. ToCome(n)' = ToCome(n)
  BY DEF ToCome, WorkerAt
<1>2. \A i : Rows(n, i)' = Rows(n, i)
  BY RowsOfReel
<1>3. ASSUME pc[n] \in {"exec", "reportExec"}
      PROVE  Rows(n, Len(dataDistReel[n]))' <=
               SumFunction(qExecSnap[n])' + ExecutedIn(n, ToCome(n))' + Cardinality(WorkersOf(n))'
  <2>1. PICK T \in SUBSET WorkersOf(n) : T = ToCome(n) /\ T = ToCome(n)'
    BY <1>1, ToComeWorkers
  <2>2. /\ ExecutedIn(n, T) \in Nat /\ ExecutedIn(n, T)' \in Nat
        /\ ExecutedIn(n, T) <= ExecutedIn(n, T)'
    BY ExecutedMore
  <2>3. ExecutedIn(n, ToCome(n)) = ExecutedIn(n, T) /\ ExecutedIn(n, ToCome(n))' = ExecutedIn(n, T)'
    BY <2>1 DEF ExecutedIn
  <2>4. Rows(n, Len(dataDistReel[n])) \in Nat
    <3>1. PICK reel \in Seq(PerCell) : reel = dataDistReel[n]
      BY DEF TypeOK
    <3>2. Len(reel) \in 0..Len(reel) /\ Zero \in PerCell
      BY DEF Zero, PerCell
    <3>3. SumFunction([c \in Cells |-> RowSum(reel, Len(reel), c)]) \in Nat
      BY <3>2, RowsCounted
    <3>4. QED
      BY <3>1, <3>3, RowsOfReel
  <2>5. Rows(n, Len(dataDistReel[n]))' = Rows(n, Len(dataDistReel[n]))
    BY RowsOfReel, Zenon
  <2>6. SumFunction(qExecSnap[n]) \in Nat
    <3>1. qExecSnap[n] \in PerCell
      BY DEF TypeOK
    <3>2. QED
      BY <3>1, CellsCounted
  <2>7. Cardinality(WorkersOf(n)) \in Nat /\ Cardinality(WorkersOf(n))' = Cardinality(WorkersOf(n))
    BY WorkersFinite, FS_CardinalityType DEF WorkersOf
  <2>8. Rows(n, Len(dataDistReel[n])) <=
          SumFunction(qExecSnap[n]) + ExecutedIn(n, T) + Cardinality(WorkersOf(n))
    BY <1>3, <2>3 DEF View
  <2>9. SumFunction(qExecSnap[n])' = SumFunction(qExecSnap[n])
    OBVIOUS
  <2>10. QED
    BY <2>2, <2>3, <2>4, <2>5, <2>6, <2>7, <2>8, <2>9
<1>4. QED
  BY <1>2, <1>3 DEF View, WorkersOf

\* A row is reported: all it stands for was executed, but for a query per worker.
LEMMA RowExecuted ==
  ASSUME TypeOK, NEW n \in NumaNodes, Window(n), \A w \in WorkersOf(n) : Settled(w)
  PROVE  SumFunction([c \in Cells |-> Collected(n, c)])
           <= ExecutedIn(n, WorkersOf(n)) + Cardinality(WorkersOf(n))
<1> DEFINE W == WorkersOf(n)
           taken == [c \in Cells |-> Collected(n, c)]
           all == [c \in Cells |-> SumFunctionOnSet([w \in W |-> Interval * sampled[w][c]], W)]
           s == [w \in W |-> SumFunctionOnSet([c \in Cells |-> Interval * sampled[w][c]], Cells)]
           e == [w \in W |-> ExecutedBy(w)]
           ones == [w \in W |-> 1]
           b == [w \in W |-> ExecutedBy(w) + 1]
<1>1. \A c \in Cells : /\ taken[c] \in Nat /\ all[c] \in Nat /\ taken[c] <= all[c]
  <2> TAKE c \in Cells
  <2>1. /\ Collected(n, c) \in Nat /\ Stored(n, c) \in Nat /\ AllSampled(n, c) \in Nat
        /\ Collected(n, c) + Stored(n, c) <= AllSampled(n, c)
    BY WindowNumbers DEF Window
  <2>2. taken[c] = Collected(n, c) /\ all[c] = AllSampled(n, c)
    BY DEF AllSampled
  <2>3. QED
    BY <2>1, <2>2
<1>2. \A w \in W : /\ s[w] \in Nat /\ e[w] \in Nat /\ ones[w] = 1 /\ b[w] \in Nat
                   /\ b[w] = e[w] + ones[w] /\ s[w] <= b[w]
  <2> TAKE w \in W
  <2>1. /\ ExecutedBy(w) \in Nat /\ SampledBy(w) \in Nat /\ cnt[w] \in Nat /\ Busy(w) \in {0, 1}
        /\ ExecutedBy(w) + Busy(w) = SampledBy(w) + cnt[w]
    BY WorkerNumbers, WorkersByPlace DEF Settled
  <2>2. s[w] = SampledBy(w)
    BY DEF SampledBy, SumFunction
  <2>3. e[w] = ExecutedBy(w) /\ b[w] = ExecutedBy(w) + 1 /\ ones[w] = 1
    OBVIOUS
  <2> HIDE DEF s, e, b, ones
  <2>4. QED
    BY <2>1, <2>2, <2>3
<1>3. SumFunctionOnSet(all, Cells) = SumFunctionOnSet(s, W)
  <2> DEFINE table == [c \in Cells |-> [w \in W |-> Interval * sampled[w][c]]]
  <2>1. \A c \in Cells : \A w \in W : table[c][w] \in Nat
    <3>1. \A k \in Nat : Interval * k \in Nat
      BY IntervalAssumption
    <3>2. \A c \in Cells : \A w \in W : sampled[w][c] \in Nat
      BY WindowNumbers
    <3>3. QED
      BY <3>1, <3>2
  <2>2. IsFiniteSet(W) /\ IsFiniteSet(Cells)
    BY WorkersFinite, FiniteAssumption
  <2> HIDE DEF W
  <2>3. all = [c \in Cells |-> SumFunctionOnSet([w \in W |-> table[c][w]], W)]
    <3>1. \A c \in Cells : [w \in W |-> table[c][w]] = [w \in W |-> Interval * sampled[w][c]]
      OBVIOUS
    <3>2. QED
      BY <3>1
  <2>4. s = [w \in W |-> SumFunctionOnSet([c \in Cells |-> table[c][w]], Cells)]
    <3>1. \A w \in W : [c \in Cells |-> table[c][w]] = [c \in Cells |-> Interval * sampled[w][c]]
      OBVIOUS
    <3>2. QED
      BY <3>1
  <2> HIDE DEF table, all, s
  <2>5. SumFunctionOnSet([c \in Cells |-> SumFunctionOnSet([w \in W |-> table[c][w]], W)], Cells)
          = SumFunctionOnSet([w \in W |-> SumFunctionOnSet([c \in Cells |-> table[c][w]], Cells)], W)
    BY <2>1, <2>2, SumSwap
  <2>6. QED
    BY <2>3, <2>4, <2>5
<1>4. SumFunction(taken) = SumFunctionOnSet(taken, Cells)
  BY DEF SumFunction
<1>5. ExecutedIn(n, W) = SumFunctionOnSet(e, W)
  BY DEF ExecutedIn
<1>6. IsFiniteSet(W) /\ IsFiniteSet(Cells) /\ Cardinality(W) \in Nat
  BY WorkersFinite, FiniteAssumption, FS_CardinalityType
<1> HIDE DEF W, taken, all, s, e, ones, b
<1>7. SumFunctionOnSet(taken, Cells) <= SumFunctionOnSet(all, Cells)
  BY <1>1, <1>6, SumLeq
<1>8. SumFunctionOnSet(s, W) <= SumFunctionOnSet(b, W)
  BY <1>2, <1>6, SumLeq
<1>9. SumFunctionOnSet(b, W) = SumFunctionOnSet(e, W) + SumFunctionOnSet(ones, W)
  <2>1. \A w \in W : e[w] \in Nat /\ ones[w] \in Nat /\ b[w] = e[w] + ones[w]
    BY <1>2
  <2>2. QED
    BY <1>6, <2>1, SumPlus
<1>10. SumFunctionOnSet(ones, W) = Cardinality(W)
  BY <1>2, <1>6, SumOnes
<1>11. /\ SumFunctionOnSet(taken, Cells) \in Nat /\ SumFunctionOnSet(s, W) \in Nat
       /\ SumFunctionOnSet(e, W) \in Nat /\ SumFunctionOnSet(b, W) \in Nat
  BY <1>1, <1>2, <1>6, SumNat
<1>12. SumFunctionOnSet(taken, Cells) <= SumFunctionOnSet(e, W) + Cardinality(W)
  BY <1>3, <1>6, <1>7, <1>8, <1>9, <1>10, <1>11
<1>13. QED
  BY <1>4, <1>5, <1>12 DEF W, taken

\* The sweeper begins to count the executed queries of its workers.
LEMMA ViewReported ==
  ASSUME PoolInv, PoolInv', NEW n \in NumaNodes, ReportSamples(n), Window(n), View(n),
         \A w \in WorkersOf(n) : Settled(w) /\ ExecutedBy(w) <= ExecutedBy(w)'
  PROVE  View(n)'
<1>1. /\ TypeOK /\ TypeOK' /\ n \in Threads
      /\ dataDistReel[n] \in Seq(PerCell) /\ ddSnap[n] \in PerCell
      /\ queryExecReel[n] \in Seq(PerCell)
      /\ at[n] \in Nat
  BY DEF PoolInv, TypeOK, Threads
<1>2. /\ pc[n] = "report" /\ pc'[n] = "exec" /\ UNCHANGED <<at, qExecSnap, queryExecReel>>
      /\ dataDistReel'[n] = Append(dataDistReel[n], ddSnap[n])
  BY <1>1 DEF ReportSamples, Goto, TypeOK, history
<1>3. at[n] = 1 /\ qExecSnap[n] = Zero
  BY <1>2 DEF Window, View
<1>4. ToCome(n)' = WorkersOf(n)
  <2>1. \A k \in DOMAIN NUMAToWorkerCPUs[n] : pc'[n] = "exec" /\ k >= at'[n]
    BY <1>2, <1>3, WorkersByPlace
  <2>2. ToCome(n)' = {WorkerAt(n, j) : j \in DOMAIN NUMAToWorkerCPUs[n]}
    BY <2>1 DEF ToCome, WorkerAt
  <2>3. QED
    BY <2>2, WorkersByPlace
<1>5. SumFunction(qExecSnap'[n]) = 0
  <2>1. Zero \in PerCell /\ \A c \in Cells : Zero[c] = 0
    BY DEF Zero, PerCell
  <2>2. SumFunction(Zero) = SumFunctionOnSet(Zero, Cells)
    BY <2>1, CellsCounted
  <2>3. SumFunctionOnSet(Zero, Cells) = 0
    <3> PICK z : z = Zero
      OBVIOUS
    <3>1. \A c \in Cells : z[c] = 0
      BY <2>1
    <3>2. SumFunctionOnSet(z, Cells) = 0
      BY <3>1, FiniteAssumption, SumNone
    <3>3. QED
      BY <3>2
  <2>4. QED
    BY <1>2, <1>3, <2>2, <2>3
<1>6. PICK reel \in Seq(PerCell) : reel = dataDistReel[n]
  BY <1>1
<1>7. PICK row \in PerCell : row = ddSnap[n]
  BY <1>1
<1>8. dataDistReel'[n] = Append(reel, row) /\ Len(dataDistReel'[n]) = Len(reel) + 1 /\ Len(reel) \in Nat
  BY <1>2, <1>6, <1>7
<1>9. Rows(n, Len(dataDistReel[n]))' = SumFunction([c \in Cells |-> Collected(n, c)])
  <2>1. \A c \in Cells : RowSum(Append(reel, row), Len(reel) + 1, c) = Collected(n, c)
    <3> TAKE c \in Cells
    <3>1. Collected(n, c) = RowSum(reel, Len(reel), c) + row[c]
      BY <1>6, <1>7 DEF Collected, Sampled, RowSum
    <3>2. RowSum(Append(reel, row), Len(reel) + 1, c) = RowSum(reel, Len(reel), c) + row[c]
      BY RowAdded
    <3>3. QED
      BY <3>1, <3>2
  <2>2. [c \in Cells |-> RowSum(Append(reel, row), Len(reel) + 1, c)] = [c \in Cells |-> Collected(n, c)]
    BY <2>1
  <2>3. Rows(n, Len(dataDistReel[n]))' =
          SumFunction([c \in Cells |-> RowSum(dataDistReel'[n], Len(dataDistReel'[n]), c)])
    BY DEF Rows, Sampled, RowSum
  <2>4. QED
    BY <1>8, <2>2, <2>3
<1>10. ExecutedIn(n, WorkersOf(n)) \in Nat /\ ExecutedIn(n, WorkersOf(n))' \in Nat
       /\ ExecutedIn(n, WorkersOf(n)) <= ExecutedIn(n, WorkersOf(n))'
  <2>1. PICK T \in SUBSET WorkersOf(n) : T = WorkersOf(n)
    OBVIOUS
  <2>2. /\ ExecutedIn(n, T) \in Nat /\ ExecutedIn(n, T)' \in Nat
        /\ ExecutedIn(n, T) <= ExecutedIn(n, T)'
    BY <1>1, ExecutedMore
  <2>3. /\ ExecutedIn(n, WorkersOf(n)) = ExecutedIn(n, T)
        /\ ExecutedIn(n, WorkersOf(n))' = ExecutedIn(n, T)'
    BY <2>1 DEF ExecutedIn, WorkersOf
  <2>4. QED
    BY <2>2, <2>3
<1>11. SumFunction([c \in Cells |-> Collected(n, c)])
         <= ExecutedIn(n, WorkersOf(n)) + Cardinality(WorkersOf(n))
  BY <1>1, RowExecuted
<1>12. SumFunction([c \in Cells |-> Collected(n, c)]) \in Nat /\ Cardinality(WorkersOf(n)) \in Nat
  <2> DEFINE f == [c \in Cells |-> Collected(n, c)]
  <2>1. f \in PerCell
    BY <1>1, WindowNumbers DEF PerCell
  <2> HIDE DEF f
  <2>2. SumFunction(f) \in Nat
    BY <2>1, CellsCounted
  <2>3. QED
    BY <2>2, WorkersFinite, FS_CardinalityType DEF f
<1>13. Rows(n, Len(dataDistReel[n]))' <=
         SumFunction(qExecSnap[n])' + ExecutedIn(n, ToCome(n))' + Cardinality(WorkersOf(n))'
  <2>1. ExecutedIn(n, ToCome(n))' = ExecutedIn(n, WorkersOf(n))'
    BY <1>4 DEF ExecutedIn, WorkersOf
  <2>2. Cardinality(WorkersOf(n))' = Cardinality(WorkersOf(n))
    BY DEF WorkersOf
  <2>3. QED
    BY <1>5, <1>9, <1>10, <1>11, <1>12, <2>1, <2>2
<1>14. \A i \in DOMAIN queryExecReel'[n] :
         Rows(n, i)' <= SumFunction(queryExecReel'[n][i]) + Cardinality(WorkersOf(n))
  <2> TAKE i \in DOMAIN queryExecReel'[n]
  <2>1. i \in DOMAIN queryExecReel[n] /\ i \in 1..Len(queryExecReel[n])
    BY <1>1, <1>2
  <2>2. Len(queryExecReel[n]) <= Len(reel) /\ Len(queryExecReel[n]) \in Nat
    <3>1. Len(dataDistReel[n]) = Len(queryExecReel[n]) + 0
      BY <1>2 DEF PoolInv, InStep
    <3>2. Len(queryExecReel[n]) \in Nat
      BY <1>1
    <3>3. QED
      BY <1>6, <1>8, <3>1, <3>2
  <2>3. i \in 0..Len(reel)
    BY <1>8, <2>1, <2>2
  <2>4. SumFunction([c \in Cells |-> RowSum(Append(reel, row), i, c)]) =
          SumFunction([c \in Cells |-> RowSum(reel, i, c)])
    BY <2>3, RowsCounted
  <2>5. Rows(n, i)' = Rows(n, i)
    <3>1. Rows(n, i)' = SumFunction([c \in Cells |-> RowSum(dataDistReel'[n], i, c)])
      BY RowsOfReel
    <3>2. Rows(n, i) = SumFunction([c \in Cells |-> RowSum(dataDistReel[n], i, c)])
      BY RowsOfReel
    <3>3. QED
      BY <1>6, <1>8, <2>4, <3>1, <3>2
  <2>6. QED
    BY <1>2, <2>1, <2>5 DEF View
<1>15. QED
  BY <1>2, <1>13, <1>14 DEF View, WorkersOf


\* The executed queries of the worker come to are counted.
LEMMA ViewCounted ==
  ASSUME PoolInv, PoolInv', NEW n \in NumaNodes, TakeExecuted(n), View(n)
  PROVE  View(n)'
<1> DEFINE cur == Current(n)
           S == ToCome(n)
           e == [w \in WorkersOf(n) |-> ExecutedBy(w)]
<1>1. /\ TypeOK /\ n \in Threads /\ at[n] \in DOMAIN NUMAToWorkerCPUs[n]
      /\ cur = WorkerAt(n, at[n]) /\ cur \in WorkersOf(n) /\ cur \in Workers
      /\ qExecSnap[n] \in PerCell
      /\ qExecutedMice[cur] \in [Cells -> Nat]
  BY SweepPlace DEF TypeOK, PerCell
<1>2. /\ pc[n] = "exec" /\ UNCHANGED <<dataDistReel, queryExecReel, qExecutedMice>>
      /\ Advance(n, "reportExec")
      /\ qExecSnap' = [qExecSnap EXCEPT
                         ![n] = [c \in Cells |-> qExecSnap[n][c] + qExecutedMice[cur][c]]]
  BY DEF TakeExecuted, reels, work
<1>3. qExecSnap'[n] = [c \in Cells |-> qExecSnap[n][c] + qExecutedMice[cur][c]]
  BY <1>1, <1>2 DEF TypeOK
<1>4. \/ at[n] = Len(NUMAToWorkerCPUs[n]) /\ pc'[n] = "reportExec" /\ at'[n] = 1
      \/ at[n] < Len(NUMAToWorkerCPUs[n]) /\ pc'[n] = "exec" /\ at'[n] = at[n] + 1
  BY <1>2, SweepPlace
<1>5. cur \in S /\ ToCome(n)' = S \ {cur} /\ S \subseteq WorkersOf(n)
  <2>1. S = {WorkerAt(n, j) : j \in {k \in DOMAIN NUMAToWorkerCPUs[n] : k >= at[n]}}
    BY <1>2 DEF ToCome
  <2>2. /\ DOMAIN NUMAToWorkerCPUs[n] = 1..Len(NUMAToWorkerCPUs[n])
        /\ Len(NUMAToWorkerCPUs[n]) \in Nat
        /\ \A j \in DOMAIN NUMAToWorkerCPUs[n] : WorkerAt(n, j) = cur <=> j = at[n]
    BY WorkersByPlace, SweepPlace
  <2>3. {k \in DOMAIN NUMAToWorkerCPUs[n] : pc'[n] = "exec" /\ k >= at'[n]}
          = {k \in DOMAIN NUMAToWorkerCPUs[n] : k >= at[n]} \ {at[n]}
    BY <1>1, <1>4, <2>2
  <2>4. ToCome(n)' = {WorkerAt(n, j) : j \in {k \in DOMAIN NUMAToWorkerCPUs[n] :
                                                 pc'[n] = "exec" /\ k >= at'[n]}}
    BY DEF ToCome, WorkerAt
  <2>5. at[n] \in {k \in DOMAIN NUMAToWorkerCPUs[n] : k >= at[n]}
    BY <1>1, <2>2
  <2>6. cur \in S
    BY <1>1, <2>1, <2>5
  <2> DEFINE K == {k \in DOMAIN NUMAToWorkerCPUs[n] : k >= at[n]}
  <2>7. \A k \in K : k \in DOMAIN NUMAToWorkerCPUs[n]
    OBVIOUS
  <2>8. ToCome(n)' = {WorkerAt(n, j) : j \in K \ {at[n]}} /\ S = {WorkerAt(n, j) : j \in K}
    BY <2>1, <2>3, <2>4
  <2> HIDE DEF K, S, cur
  <2>9. {WorkerAt(n, j) : j \in K \ {at[n]}} = {WorkerAt(n, j) : j \in K} \ {cur}
    BY <2>2, <2>7
  <2>10. QED
    BY <2>6, <2>8, <2>9, ToComeWorkers DEF S
<1>6. SumFunction(qExecSnap'[n]) = SumFunction(qExecSnap[n]) + ExecutedBy(cur)
  <2>1. PICK f \in PerCell : f = qExecSnap[n]
    BY <1>1
  <2>2. PICK g \in PerCell : g = qExecutedMice[cur]
    BY <1>1 DEF PerCell
  <2>3. PICK h \in PerCell : h = qExecSnap'[n]
    BY DEF PoolInv, TypeOK
  <2>4. \A c \in Cells : f[c] \in Nat /\ g[c] \in Nat /\ h[c] = f[c] + g[c]
    BY <1>3, <2>1, <2>2, <2>3 DEF PerCell
  <2>5. SumFunctionOnSet(h, Cells) = SumFunctionOnSet(f, Cells) + SumFunctionOnSet(g, Cells)
    BY <2>4, FiniteAssumption, SumPlus
  <2>6. /\ SumFunction(f) = SumFunctionOnSet(f, Cells)
        /\ SumFunction(g) = SumFunctionOnSet(g, Cells)
        /\ SumFunction(h) = SumFunctionOnSet(h, Cells)
    BY CellsCounted
  <2>7. SumFunction(h) = SumFunction(f) + SumFunction(g)
    BY <2>5, <2>6
  <2>8. ExecutedBy(cur) = SumFunction(g)
    BY <2>2 DEF ExecutedBy
  <2>9. QED
    BY <2>1, <2>3, <2>7, <2>8
<1>7. ExecutedIn(n, S) = ExecutedBy(cur) + ExecutedIn(n, S \ {cur})
  <2>1. \A w \in S : e[w] \in Nat
    BY <1>1, <1>5, WorkerNumbers, WorkersByPlace
  <2>2. e[cur] = ExecutedBy(cur)
    BY <1>1
  <2>3. ExecutedIn(n, S) = SumFunctionOnSet(e, S)
        /\ ExecutedIn(n, S \ {cur}) = SumFunctionOnSet(e, S \ {cur})
    BY DEF ExecutedIn
  <2>4. IsFiniteSet(S)
    BY <1>5, WorkersFinite, FS_Subset
  <2> HIDE DEF e, S, cur
  <2>5. SumFunctionOnSet(e, S) = e[cur] + SumFunctionOnSet(e, S \ {cur})
    BY <1>5, <2>1, <2>4, SumRest
  <2>6. QED
    BY <2>2, <2>3, <2>5
<1>8. ExecutedIn(n, ToCome(n))' = ExecutedIn(n, S \ {cur})
  <2>1. \A w : ExecutedBy(w)' = ExecutedBy(w)
    BY <1>2 DEF ExecutedBy
  <2>2. ExecutedIn(n, ToCome(n))' = SumFunctionOnSet([w \in WorkersOf(n) |-> ExecutedBy(w)'], ToCome(n)')
    BY DEF ExecutedIn, WorkersOf
  <2>3. [w \in WorkersOf(n) |-> ExecutedBy(w)'] = e
    BY <2>1
  <2>4. ExecutedIn(n, S \ {cur}) = SumFunctionOnSet(e, S \ {cur})
    BY DEF ExecutedIn
  <2> HIDE DEF e, S, cur
  <2>5. QED
    BY <1>5, <2>2, <2>3, <2>4
<1>9. /\ SumFunction(qExecSnap[n]) \in Nat /\ ExecutedBy(cur) \in Nat
      /\ ExecutedIn(n, S \ {cur}) \in Nat /\ Cardinality(WorkersOf(n)) \in Nat
  <2>1. PICK T \in SUBSET WorkersOf(n) : T = S \ {cur}
    BY <1>5
  <2>2. ExecutedIn(n, T) \in Nat
    <3>1. \A w \in T : e[w] \in Nat
      BY <1>1, WorkerNumbers, WorkersByPlace
    <3>2. ExecutedIn(n, T) = SumFunctionOnSet(e, T)
      BY DEF ExecutedIn
    <3>3. IsFiniteSet(T)
      BY WorkersFinite, FS_Subset
    <3> HIDE DEF e
    <3>4. QED
      BY <3>1, <3>2, <3>3, SumNat
  <2>3. ExecutedIn(n, S \ {cur}) \in Nat
    BY <2>1, <2>2
  <2>4. QED
    BY <1>1, <2>3, WorkerNumbers, CellsCounted, WorkersFinite, FS_CardinalityType
<1>10. \A i : Rows(n, i)' = Rows(n, i)
  BY <1>2, RowsOfReel
<1>11. Cardinality(WorkersOf(n))' = Cardinality(WorkersOf(n))
  BY DEF WorkersOf
<1>12. Rows(n, Len(dataDistReel[n]))' <=
         SumFunction(qExecSnap[n])' + ExecutedIn(n, ToCome(n))' + Cardinality(WorkersOf(n))'
  <2>1. Rows(n, Len(dataDistReel[n])) <=
          SumFunction(qExecSnap[n]) + ExecutedIn(n, S) + Cardinality(WorkersOf(n))
    BY <1>2 DEF View
  <2>2. Rows(n, Len(dataDistReel[n]))' = Rows(n, Len(dataDistReel[n]))
    BY <1>2, RowsOfReel, Zenon
  <2> HIDE DEF S, cur
  <2>3. QED
    BY <1>6, <1>7, <1>8, <1>9, <1>11, <2>1, <2>2
<1>13. \A i \in DOMAIN queryExecReel'[n] :
         Rows(n, i)' <= SumFunction(queryExecReel'[n][i]) + Cardinality(WorkersOf(n))
  BY <1>2, <1>10 DEF View
<1>14. QED
  BY <1>4, <1>12, <1>13 DEF View, WorkersOf

\* The row of executed queries is reported.
LEMMA ViewClosed ==
  ASSUME PoolInv, PoolInv', NEW n \in NumaNodes, ReportExecuted(n), View(n)
  PROVE  View(n)'
<1>1. /\ TypeOK /\ n \in Threads /\ qExecSnap[n] \in PerCell
      /\ queryExecReel[n] \in Seq(PerCell) /\ dataDistReel[n] \in Seq(PerCell)
  BY DEF PoolInv, TypeOK, Threads
<1>2. /\ pc[n] = "reportExec" /\ pc'[n] \in {"takePcm", "check"}
      /\ UNCHANGED dataDistReel /\ qExecSnap'[n] = Zero
      /\ queryExecReel'[n] = Append(queryExecReel[n], qExecSnap[n])
  BY <1>1 DEF ReportExecuted, Goto, TypeOK
<1>3. PICK k \in Nat : k = Len(queryExecReel[n])
  BY <1>1
<1>4. Len(dataDistReel[n]) = k + 1
  <2>1. Len(dataDistReel[n]) = Len(queryExecReel[n]) + 1
    BY <1>2 DEF PoolInv, InStep
  <2>2. QED
    BY <1>3, <2>1
<1>5. ExecutedIn(n, ToCome(n)) = 0
  <2>1. ToCome(n) = {}
    BY <1>2 DEF ToCome
  <2>2. QED
    BY <2>1, SumEmpty DEF ExecutedIn
<1>6. SumFunction(qExecSnap[n]) \in Nat /\ Cardinality(WorkersOf(n)) \in Nat
  BY <1>1, CellsCounted, WorkersFinite, FS_CardinalityType
<1>7. Rows(n, k + 1) <= SumFunction(qExecSnap[n]) + Cardinality(WorkersOf(n))
  <2>1. Rows(n, k + 1) <=
          SumFunction(qExecSnap[n]) + ExecutedIn(n, ToCome(n)) + Cardinality(WorkersOf(n))
    BY <1>2, <1>4 DEF View
  <2>2. QED
    BY <1>5, <1>6, <2>1
<1>8. /\ DOMAIN queryExecReel'[n] = 1..(k + 1) /\ DOMAIN queryExecReel[n] = 1..k
      /\ queryExecReel'[n][k + 1] = qExecSnap[n]
      /\ \A i \in 1..k : queryExecReel'[n][i] = queryExecReel[n][i]
  BY <1>1, <1>2, <1>3
<1>9. \A i : Rows(n, i)' = Rows(n, i)
  BY <1>2, RowsOfReel
<1>10. \A i \in DOMAIN queryExecReel'[n] :
         Rows(n, i)' <= SumFunction(queryExecReel'[n][i]) + Cardinality(WorkersOf(n))
  <2> TAKE i \in DOMAIN queryExecReel'[n]
  <2>1. CASE i = k + 1
    BY <1>7, <1>8, <1>9, <2>1
  <2>2. CASE i \in 1..k
    BY <1>8, <1>9, <2>2 DEF View
  <2>3. QED
    BY <1>8, <2>1, <2>2
<1>11. QED
  BY <1>2, <1>10 DEF View, WorkersOf


\* What the sweeper does before it counts the executed queries and after.
LEMMA ViewIdle ==
  ASSUME TypeOK, NEW n \in NumaNodes, View(n),
         pc[n] \notin {"exec", "reportExec"}, pc'[n] \notin {"exec", "reportExec"},
         UNCHANGED <<qExecSnap[n], dataDistReel[n], queryExecReel[n]>>
  PROVE  View(n)'
<1>1. \A i : Rows(n, i)' = Rows(n, i)
  BY RowsOfReel
<1>2. \A i \in DOMAIN queryExecReel'[n] :
        Rows(n, i)' <= SumFunction(queryExecReel'[n][i]) + Cardinality(WorkersOf(n))
  BY <1>1 DEF View
<1>3. QED
  BY <1>2 DEF View, WorkersOf

\* No step of a sweep breaks the agreement of its own views.
LEMMA OwnViewKept ==
  ASSUME PoolInv, PoolInv', NEW n \in NumaNodes, Sweeper(n), Window(n), View(n),
         \A w \in WorkersOf(n) : Settled(w) /\ ExecutedBy(w) <= ExecutedBy(w)'
  PROVE  View(n)'
<1>1. TypeOK /\ n \in Threads
  BY SweepPlace
<1> DEFINE Idle == /\ pc[n] \notin {"exec", "reportExec"} /\ pc'[n] \notin {"exec", "reportExec"}
                   /\ UNCHANGED <<qExecSnap, dataDistReel, queryExecReel>>
<1>2. CASE CheckRunning(n)
  <2>1. Idle
    BY <1>1, <1>2 DEF CheckRunning, Goto, TypeOK, sweep, reels
  <2>2. QED
    BY <1>1, <2>1, ViewIdle
<1>3. CASE PushToken(n)
  <2>1. Idle
    <3>1. Advance(n, IF n = FirstNode THEN "pcmToken" ELSE "take") /\ pc[n] = "token"
      BY <1>3 DEF PushToken
    <3>2. pc'[n] \in {"token", "pcmToken", "take"}
      BY <3>1, SweepPlace
    <3>3. QED
      BY <1>3, <3>1, <3>2 DEF PushToken, reels
  <2>2. QED
    BY <1>1, <2>1, ViewIdle
<1>4. CASE PushPcmToken(n)
  <2>1. Idle
    BY <1>1, <1>4 DEF PushPcmToken, Goto, TypeOK, sweep, reels
  <2>2. QED
    BY <1>1, <2>1, ViewIdle
<1>5. CASE TakeSample(n)
  <2>1. Idle
    <3>1. pc[n] = "take" /\ (pc' = pc \/ Advance(n, "report"))
      BY <1>5 DEF TakeSample, TakeUntil
    <3>2. pc'[n] \in {"take", "report"}
      BY <3>1, SweepPlace
    <3>3. QED
      BY <1>5, <3>1, <3>2 DEF TakeSample, TakeUntil, reels
  <2>2. QED
    BY <1>1, <2>1, ViewIdle
<1>6. CASE TakePcm(n)
  <2>1. Idle
    BY <1>1, <1>6 DEF TakePcm, Goto, TypeOK, reels
  <2>2. QED
    BY <1>1, <2>1, ViewIdle
<1>7. CASE ReportPcm(n)
  <2>1. Idle
    BY <1>1, <1>7 DEF ReportPcm, Goto, TypeOK
  <2>2. QED
    BY <1>1, <2>1, ViewIdle
<1>8. QED
  BY <1>2, <1>3, <1>4, <1>5, <1>6, <1>7, ViewReported, ViewCounted, ViewClosed DEF Sweeper

\* What the other threads leave of a sweeper's place and of its two views.
LEMMA ViewUntouched ==
  ASSUME PoolInv, NEW n \in NumaNodes, [Next]_vars, ~Sweeper(n)
  PROVE  UNCHANGED <<pc[n], at[n], qExecSnap[n], dataDistReel[n], queryExecReel[n]>>
<1> DEFINE Same == UNCHANGED <<pc[n], at[n], qExecSnap[n], dataDistReel[n], queryExecReel[n]>>
<1>1. TypeOK /\ n \in Threads /\ n \notin Routers \cup Workers /\ n # main
  BY ThreadsAssumption DEF PoolInv, Threads
<1>2. ASSUME NEW t \in Routers \cup Workers, LoadCompleted(t) \/ StoreCompleted(t)
      PROVE  Same
  BY <1>1, <1>2 DEF LoadCompleted, StoreCompleted, Goto, TypeOK, sweep, reels
<1>3. ASSUME NEW r \in Routers, Router(r) PROVE Same
  BY <1>1, <1>2, <1>3 DEF Router, DrawQuery, LoadPushed, StorePushed, PushJob, Goto, TypeOK,
                          sweep, reels
<1>4. ASSUME NEW w \in Workers, Worker(w) PROVE Same
  <2>1. CASE PopJob(w)
    BY <1>1, <2>1 DEF PopJob, Goto, TypeOK, sweep, reels
  <2>2. CASE PushSample(w)
    BY <1>1, <2>2 DEF PushSample, LeaveSample, Goto, TypeOK, sweep, reels
  <2>3. CASE CountExecuted(w)
    BY <1>1, <2>3 DEF CountExecuted, SetExecuted, Goto, TypeOK, sweep, reels
  <2>4. QED
    BY <1>2, <1>4, <2>1, <2>2, <2>3 DEF Worker
<1>5. ASSUME NEW m \in NumaNodes, Sweeper(m) PROVE Same
  <2> USE <1>1
  <2>1. m # n
    BY <1>5
  <2>2. CASE CheckRunning(m)
    BY <2>1, <2>2 DEF CheckRunning, Goto, TypeOK, sweep, reels
  <2>3. CASE PushToken(m)
    <3>1. pc'[n] = pc[n] /\ at'[n] = at[n]
      BY <2>1, <2>3, SweepPlace DEF PushToken
    <3>2. QED
      BY <2>3, <3>1 DEF PushToken, reels
  <2>4. CASE PushPcmToken(m)
    BY <2>1, <2>4 DEF PushPcmToken, Goto, TypeOK, sweep, reels
  <2>5. CASE TakeSample(m)
    <3>1. pc'[n] = pc[n] /\ at'[n] = at[n]
      BY <2>1, <2>5, SweepPlace DEF TakeSample, TakeUntil
    <3>2. QED
      BY <2>5, <3>1 DEF TakeSample, TakeUntil, reels
  <2>6. CASE ReportSamples(m)
    BY <2>1, <2>6 DEF ReportSamples, Goto, TypeOK
  <2>7. CASE TakeExecuted(m)
    <3>1. pc'[n] = pc[n] /\ at'[n] = at[n]
      BY <2>1, <2>7, SweepPlace DEF TakeExecuted
    <3>2. qExecSnap'[n] = qExecSnap[n]
      BY <2>1, <2>7 DEF TakeExecuted, TypeOK
    <3>3. QED
      BY <2>7, <3>1, <3>2 DEF TakeExecuted, reels
  <2>8. CASE ReportExecuted(m)
    BY <2>1, <2>8 DEF ReportExecuted, Goto, TypeOK
  <2>9. CASE TakePcm(m)
    BY <2>1, <2>9 DEF TakePcm, Goto, TypeOK, reels
  <2>10. CASE ReportPcm(m)
    BY <2>1, <2>10 DEF ReportPcm, Goto, TypeOK
  <2>11. QED
    BY <1>5, <2>2, <2>3, <2>4, <2>5, <2>6, <2>7, <2>8, <2>9, <2>10 DEF Sweeper
<1>6. CASE SysSweeper
  BY <1>6 DEF SysSweeper, sweep, reels
<1>7. CASE Main
  BY <1>1, <1>7 DEF Main, Terminate, DumpReel, BeginDump, BeginDumpIf, Exit, Goto, TypeOK,
                    sweep, reels
<1>8. CASE UNCHANGED vars
  BY <1>8 DEF vars, sweep, reels
<1>9. QED
  BY <1>3, <1>4, <1>5, <1>6, <1>7, <1>8 DEF Next, Exited

-------------------------------------------------------------------------------
ViewInv ==
  /\ \A w \in Workers : Settled(w)
  /\ \A n \in NumaNodes : View(n)

\* Nothing is executed, sampled or reported when the program starts.
LEMMA InitView == Init => ViewInv
<1> SUFFICES ASSUME Init PROVE ViewInv
  OBVIOUS
<1>1. TypeOK /\ IsFiniteSet(Cells)
  BY InitPool, FiniteAssumption DEF PoolInv
<1>2. \A c \in Cells : Zero[c] = 0
  BY DEF Zero
<1>3. ASSUME NEW w \in Workers PROVE Settled(w)
  <2>1. /\ w \in Threads /\ w \notin Routers /\ w \notin NumaNodes /\ w # main
        /\ w \in Routers \cup Workers
    BY ThreadsAssumption DEF Threads
  <2>2. pc[w] # "sample" /\ query[w] = NoQuery /\ cnt[w] = 0
    <3>1. pc[w] = "poll"
      BY <2>1 DEF Init
    <3>2. query[w] = NoQuery /\ cnt[w] = 0
      BY <2>1 DEF Init
    <3>3. QED
      BY <3>1, <3>2
  <2>3. qExecutedMice[w] = Zero /\ sampled[w] = Zero
    BY DEF Init
  <2>4. ExecutedBy(w) = 0
    <3>1. PICK z : z = qExecutedMice[w] /\ \A c \in Cells : z[c] = 0
      BY <1>2, <2>3
    <3>2. SumFunctionOnSet(z, Cells) = 0
      BY <1>1, <3>1, SumNone
    <3>3. QED
      BY <1>1, <3>1, <3>2, WorkerNumbers
  <2>5. SampledBy(w) = 0
    <3> DEFINE s == [c \in Cells |-> Interval * sampled[w][c]]
    <3>1. Interval * 0 = 0
      BY IntervalAssumption
    <3>2. \A c \in Cells : s[c] = 0
      BY <1>2, <2>3, <3>1
    <3>3. SampledBy(w) = SumFunctionOnSet(s, Cells)
      BY DEF SampledBy, SumFunction
    <3> HIDE DEF s
    <3>4. QED
      BY <1>1, <3>2, <3>3, SumNone
  <2>6. QED
    BY <2>2, <2>4, <2>5 DEF Settled, Busy
<1>4. ASSUME NEW n \in NumaNodes PROVE View(n)
  <2>1. n \in Threads /\ n \notin Routers /\ n \notin Workers /\ n # main
    BY ThreadsAssumption DEF Threads
  <2>2. pc[n] = "check" /\ qExecSnap[n] = Zero /\ queryExecReel[n] = <<>>
    <3>1. pc[n] = "check"
      BY <2>1 DEF Init
    <3>2. qExecSnap[n] = Zero /\ queryExecReel[n] = <<>>
      BY DEF Init
    <3>3. QED
      BY <3>1, <3>2
  <2>3. DOMAIN queryExecReel[n] = {}
    BY <2>2
  <2>4. pc[n] \notin {"exec", "reportExec"}
    BY <2>2
  <2>5. \A i \in DOMAIN queryExecReel[n] :
          Rows(n, i) <= SumFunction(queryExecReel[n][i]) + Cardinality(WorkersOf(n))
    BY <2>3
  <2>6. QED
    BY <2>2, <2>4, <2>5 DEF View
<1>5. QED
  BY <1>3, <1>4 DEF ViewInv

\* The same holds after every step.
LEMMA NextView ==
  ASSUME PoolInv, PoolInv', CountInv, CountInv', WindowInv, ViewInv, [Next]_vars
  PROVE  ViewInv'
<1>1. \A w \in Workers : Settled(w)' /\ ExecutedBy(w) <= ExecutedBy(w)'
  BY SettledStays DEF ViewInv
<1>2. ASSUME NEW n \in NumaNodes PROVE View(n)'
  <2>1. View(n) /\ Window(n) /\ TypeOK /\ TypeOK'
    BY DEF ViewInv, WindowInv, PoolInv
  <2>2. \A w \in WorkersOf(n) : Settled(w) /\ ExecutedBy(w) <= ExecutedBy(w)'
    BY <1>1, WorkersByPlace DEF ViewInv
  <2>3. CASE Sweeper(n)
    BY <2>1, <2>2, <2>3, OwnViewKept
  <2>4. CASE ~Sweeper(n)
    <3>1. Len(queryExecReel[n]) <= Len(dataDistReel[n])
      <4>1. PICK k \in Nat : k = Len(queryExecReel[n])
        BY <2>1 DEF TypeOK
      <4>2. InStep(n)
        BY DEF PoolInv
      <4>3. Len(dataDistReel[n]) = k + 0 \/ Len(dataDistReel[n]) = k + 1
        BY <4>1, <4>2 DEF InStep
      <4>4. QED
        BY <4>1, <4>3
    <3>2. UNCHANGED <<pc[n], at[n], qExecSnap[n], dataDistReel[n], queryExecReel[n]>>
      BY <2>4, ViewUntouched
    <3>3. QED
      BY <2>1, <2>2, <3>1, <3>2, ViewStays
  <2>5. QED
    BY <2>3, <2>4
<1>3. (\A w \in Workers : Settled(w)') /\ (\A n \in NumaNodes : View(n)')
  BY <1>1, <1>2
<1>4. QED
  BY <1>3 DEF ViewInv, Workers, WorkersOf

(***************************************************************************)
(* The two views of every sweep fit together: what the rows of the data    *)
(* view stand for has been executed when the same sweep counts the         *)
(* executed queries, but for at most one query per worker of the node.     *)
(***************************************************************************)
THEOREM SweepViewsAgree == Spec => []ViewsAgree
<1> DEFINE I == PoolInv /\ CountInv /\ WindowInv /\ ViewInv
<1>1. Init => I
  BY InitPool, InitCounted, InitWindow, InitView
<1>2. I /\ [Next]_vars => I'
  BY NextPool, NextCounted, NextWindow, NextView
<1>3. I => ViewsAgree
  BY DEF ViewInv, View, Rows, ViewsAgree
<1>4. QED
  BY <1>1, <1>2, <1>3, PTL DEF Spec

===============================================================================
