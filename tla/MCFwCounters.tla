----------------------------- MODULE MCFwCounters -----------------------------
(* FwCounters with the two functions of one counter, which are scraped alike. *)
EXTENDS FwCounters, TLC

Symmetry == Permutations(Scrapers)
=============================================================================
