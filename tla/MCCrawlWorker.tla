--------------------------- MODULE MCCrawlWorker ---------------------------
(* Two worker processes over one job.                                      *)
EXTENDS CrawlWorker, TLC

CONSTANTS j1, p1, p2, k1

MCOneJob == {j1}
MCWorkers == Procs \X (0..MaxRestarts)
MCKeyOf == [j \in Jobs |-> k1]
MCProcSymmetry == Permutations(Procs)
=============================================================================
