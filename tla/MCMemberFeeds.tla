--------------------------- MODULE MCMemberFeeds ---------------------------
(* Two members; one of them writes a second feed with the same root key.   *)
EXTENDS MemberFeeds

CONSTANTS ana, ben, anaFeed, anaSecond, benFeed

HolderOf == [f \in Feed |-> IF f = benFeed THEN ben ELSE ana]

=============================================================================
