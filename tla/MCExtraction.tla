--------------------------- MODULE MCExtraction ---------------------------
(* Small instances of module Extraction.                                    *)
EXTENDS Extraction, TLC

Episodes == {IngestedRecord("episodic", f) : f \in Facts}
ExtractionSymmetry == Permutations(Ids) \cup Permutations(Workers)
IdSymmetry == Permutations(Ids)
=============================================================================
