--------------------------- MODULE MCCrawlSubmit ---------------------------
(* Three requests for one page, room for two jobs, and one worker.         *)
EXTENDS CrawlSubmit, TLC

CONSTANTS k1

MCKeyOf == [j \in Jobs |-> k1]

\* No statement tells two jobs of the page or two requests apart.
MCSymmetry == Permutations(Workers) \cup Permutations(Jobs) \cup Permutations(Requests)
=============================================================================
