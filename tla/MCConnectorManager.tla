------------------------- MODULE MCConnectorManager -------------------------
(***************************************************************************)
(* ConnectorManager for TLC: the Telegram source main registers and a      *)
(* connector that only reports over HTTP.                                  *)
(***************************************************************************)
EXTENDS ConnectorManager
=============================================================================
