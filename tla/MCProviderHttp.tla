--------------------------- MODULE MCProviderHttp ---------------------------
(* Instances of ProviderHttp for TLC. *)
EXTENDS ProviderHttp, TLC
=============================================================================
