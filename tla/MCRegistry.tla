----------------------------- MODULE MCRegistry -----------------------------
(* The registry with interchangeable editors and interchangeable servers. *)
EXTENDS ProviderRegistry, TLC

Interchangeable == Permutations(Editor) \cup Permutations(Host)
=============================================================================
