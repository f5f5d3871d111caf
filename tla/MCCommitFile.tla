----------------------------- MODULE MCCommitFile -----------------------------
(* TLC instance of CommitFile: three markers, enough generations for every *)
(* slot to be rewritten several times with failures in between.            *)
EXTENDS CommitFile
=============================================================================
