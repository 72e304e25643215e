---------------------------- MODULE MCDiscovery ----------------------------
(***************************************************************************)
(* Small instances of Discovery: desktops of two members and a community   *)
(* node between them.                                                      *)
(***************************************************************************)
EXTENDS Discovery

CONSTANTS alice, bob, node, aliceFeed, bobFeed

OwnerOf == (aliceFeed :> alice @@ bobFeed :> bob)
OwnerOfOne == (aliceFeed :> alice)
ThroughNode == {{alice, node}, {node, bob}}
Direct == {{alice, bob}}
=============================================================================
