-------------------------- MODULE MCScraperManager --------------------------
(* Instance of ScraperManager for TLC.                                      *)
EXTENDS ScraperManager
=============================================================================
