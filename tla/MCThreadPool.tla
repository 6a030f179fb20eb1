----------------------------- MODULE MCThreadPool -----------------------------
(***************************************************************************)
(* Instances of ThreadPool for TLC.                                        *)
(***************************************************************************)
EXTENDS ThreadPool, TLC

CONSTANTS c1, c2, w1, w2, n1, r1, r2

\* Two cells, owned by one worker each, or a single cell.
MCidCPU == (c1 :> w1) @@ (c2 :> w2)
MCOneCPU == c1 :> w1

\* Both workers on one node, or a single worker.
OneNode   == n1 :> <<w1, w2>>
OneWorker == n1 :> <<w1>>

\* Routers differ in nothing but what they are about to push.
TwoRouters == {r1, r2}
Symmetry   == Permutations(TwoRouters)
===============================================================================
