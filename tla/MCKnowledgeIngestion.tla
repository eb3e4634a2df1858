------------------------ MODULE MCKnowledgeIngestion ------------------------
(* Model checking of KnowledgeIngestion with two documents: Notes are spellings *)
(* of one name, hence one document, with every version there is; the guide is   *)
(* another document, of one version.  Uploads and spellings are interchangeable. *)
EXTENDS KnowledgeIngestion, TLC

CONSTANT Notes

MCDocumentOf == [s \in Sources |-> IF s \in Notes THEN "notes" ELSE "guide"]

MCContents == [s \in Sources |-> IF s \in Notes THEN Versions ELSE {1}]

Symmetry == Permutations(Uploads) \cup Permutations(Notes)

=============================================================================
