------------------------------ MODULE MCCrawler ------------------------------
(* Crawler, for channels of two elements. *)
EXTENDS Crawler

==============================================================================
