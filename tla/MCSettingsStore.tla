-------------------------- MODULE MCSettingsStore --------------------------
(* Two tabs that set the launch models of two workspaces.                   *)
EXTENDS SettingsStore

CONSTANTS a, b

============================================================================
