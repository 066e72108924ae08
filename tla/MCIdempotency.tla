--------------------------- MODULE MCIdempotency ---------------------------
(***************************************************************************)
(* An instance of Idempotency for TLC: two commands are sent under one     *)
(* key with different payloads, each up to twice.                          *)
(***************************************************************************)
EXTENDS Idempotency, TLC

CONSTANTS send, resend, k1

MCKeyOf == [i \in Intents |-> k1]
MCPrintOf == [i \in Intents |-> i]
=============================================================================
