--------------------------- MODULE MCCrawlSchedule ---------------------------
(***************************************************************************)
(* CrawlSchedule on a site whose seed, 2, links to 1 and 3, each of which  *)
(* begins a path of its own.                                               *)
(***************************************************************************)
EXTENDS CrawlSchedule

MCPages == 1..6
MCRoot == 2
MCRetries == {[site |-> <<{6}, {1, 3}, {4}, {5}, {}, {}>>, maximum_pages |-> 6,
               maximum_depth |-> 3, retry_failed |-> TRUE]}
=============================================================================
