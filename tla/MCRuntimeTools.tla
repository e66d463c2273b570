----------------------------- MODULE MCRuntimeTools -----------------------------
(* Small instances of RuntimeTools: the callers and files of the runs.        *)
EXTENDS RuntimeTools

CONSTANTS t1, t2, code, cache

=============================================================================
