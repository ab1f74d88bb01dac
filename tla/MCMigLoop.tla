----------------------------- MODULE MCMigLoop -----------------------------
(* Small instances of the event loop for TLC. *)
EXTENDS MigLoop

\* One usable descriptor and what a failed open returns.
OneFd == {3, -1}

\* A slot is read or written, as every client in the repository does.
ReadOrWrite == {{"IN"}, {"OUT"}}
ReadOnly    == {{"IN"}}
=============================================================================
