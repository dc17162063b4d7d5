------------------------- MODULE MCComponentRuntime -------------------------
(* A provider with a runnable, a consumer that requires it and handles its *)
(* events, and a consumer that can do without it.                          *)
EXTENDS RuntimeHost, TLC

CONSTANTS prov, cons, opt

RequiredDef == (prov :> {}) @@ (cons :> {prov}) @@ (opt :> {})
OptionalDef == (prov :> {}) @@ (cons :> {}) @@ (opt :> {prov})
WorkDef == (prov :> {"runnable"}) @@ (cons :> {"handler"}) @@ (opt :> {"runnable"})
=============================================================================
