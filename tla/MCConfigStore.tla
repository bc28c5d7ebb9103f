--------------------------- MODULE MCConfigStore ---------------------------
(* The versions for the model-checking runs of ConfigStore.                *)
EXTENDS ConfigStore

Versions == {"empty", "default", "v1", "v2"}
=============================================================================
