------------------------------- MODULE MCCrawl -------------------------------
(* A site of four pages, one of them under two spellings. *)
EXTENDS CrawlEngine

MCUrls == 1..5

\* 5 is another spelling of page 3.
MCCanon == [u \in MCUrls |-> IF u = 5 THEN 3 ELSE u]

MCLinks == [u \in MCUrls |-> CASE u = 1 -> {2, 3, 4} [] u = 2 -> {1, 5} [] OTHER -> {}]

=============================================================================
