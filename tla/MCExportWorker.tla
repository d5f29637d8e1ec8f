--------------------------- MODULE MCExportWorker ---------------------------
(* Instances of ExportWorker for TLC: workers are interchangeable, and so are *)
(* delivery targets, as no definition tells one from another.                 *)
EXTENDS ExportWorker, TLC

Symmetry == Permutations(Workers) \cup Permutations(Targets)

=============================================================================
