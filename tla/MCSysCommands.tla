--------------------------- MODULE MCSysCommands ---------------------------
(* The SAPI per-command functions for TLC: all eight commands of the      *)
(* source tree on one context, one marshal and one unmarshal error code.  *)
EXTENDS SysCommands

MCCommands == AllCommands
MCMarshalRcs == {"INSUFFICIENT_BUFFER"}
MCUnmarshalRcs == {"INSUFFICIENT_BUFFER"}
=============================================================================
