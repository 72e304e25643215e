------------------------- MODULE MCDesktopIdentity -------------------------
(***************************************************************************)
(* A small instance of DesktopIdentity.                                    *)
(***************************************************************************)
EXTENDS DesktopIdentity

CONSTANTS root1, root2, key1, key2, first, second, town

AllOperations == {"setup", "genesis", "activate", "revoke"}
=============================================================================
