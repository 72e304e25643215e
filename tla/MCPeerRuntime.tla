--------------------------- MODULE MCPeerRuntime ---------------------------
(***************************************************************************)
(* Small instances of PeerRuntime.                                         *)
(***************************************************************************)
EXTENDS PeerRuntime

CONSTANTS primary, fallback, town, village

Configured == {<<primary>>}
ConfiguredOrNot == {<<>>, <<primary>>}
=============================================================================
