------------------------------ MODULE MCCleanup ------------------------------
EXTENDS Cleanup, TLC

CONSTANTS d, e, f

\* f is in e, e is in d.
Tree == (d :> NULL) @@ (e :> d) @@ (f :> e)
=============================================================================
