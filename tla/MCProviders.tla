---------------------------- MODULE MCProviders ----------------------------
(* Providers with answers of up to two tool calls and two tokens of text.   *)
EXTENDS Providers
=============================================================================
