----------------------------- MODULE MCExchange -----------------------------
(***************************************************************************)
(* Two members, one offer, one request and one proposal for Exchange.      *)
(***************************************************************************)
EXTENDS Exchange, TLC

CONSTANTS ana, ben, offer1, request1, first, second, other

MCCatalogue ==
    {[id |-> offer1, owner |-> ana, side |-> "offer", minutes |-> 1],
     [id |-> request1, owner |-> ben, side |-> "request", minutes |-> 1]}

OneEach == {<<ana, first>>, <<ben, other>>}
TwoForAna == {<<ana, first>>, <<ana, second>>, <<ben, other>>}

\* The two calls of one desktop are interchangeable.
LaneSymmetry == Permutations({first, second})

\* One settlement of one minute is admitted, a second would not be.
OneMinuteOfCredit == -1
=============================================================================
