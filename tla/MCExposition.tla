----------------------------- MODULE MCExposition ----------------------------
(***************************************************************************)
(* Two scrapes against observations on and beyond the bounds of two buckets. *)
(***************************************************************************)
EXTENDS Exposition, TLC

\* Scrapers are interchangeable.
ScraperSymmetry == Permutations(Scrapers)
==============================================================================
