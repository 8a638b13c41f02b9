----------------------------- MODULE MCAdapters -----------------------------
(* TLC instance of Adapters. *)
EXTENDS Adapters, TLC

CONSTANTS t1, t2, wide, narrow, other

ThreeRates == {wide, narrow, other}

\* a generous scope, a narrow one and another
Limits == (wide :> 2) @@ (narrow :> 1) @@ (other :> 1)

OneGlobal == <<3>>

TwoDecorators == <<3, 2>>

\* under load, and of a trusted client
HalfOrHalfAgain == {<<1, 2>>, <<3, 2>>}

=============================================================================
