--------------------------- MODULE MCSignalService ---------------------------
(***************************************************************************)
(* Two users; two keys, of which the environment gives one.                *)
(***************************************************************************)
EXTENDS SignalService

TwoNumbers == {1, 2}
TwoKeys == {"paperless_url", "signal_api_url"}
OneFromEnv == {"signal_api_url"}
=============================================================================
