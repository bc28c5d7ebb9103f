--------------------------- MODULE MCRelayHistory ---------------------------
(* RelayHistory with the settings of MCRelays.                             *)
EXTENDS MCRelays, RelayHistory
=============================================================================
