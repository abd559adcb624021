----------------------------- MODULE MCNoteFile -----------------------------
(* Small instances of NoteFile for TLC. *)
EXTENDS NoteFile, TLC

\* Marks are interchangeable.
Symmetry == Permutations(Marks)
=============================================================================
