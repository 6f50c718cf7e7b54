------------------------- MODULE MCContextLifecycle --------------------------
(* ContextLifecycle on a small instance.                                    *)
EXTENDS ContextLifecycle
=============================================================================
