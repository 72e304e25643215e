SPECIFICATION Spec
CONSTANTS
    own = own alice = alice bob = bob
    here = here there = there
    s1 = s1 s2 = s2 s3 = s3 c1 = c1
    Pin = {own, alice, bob}
    ThisServer = {own}
    Community = here
    History <- Ledger
    Settlements = {s1, s2, s3}
    Digest <- DigestOf
    Digests = {1, 2}
    Claim <- Claims
    Worker = {worker1, worker2}
    MaxLookups = 2
    None = None
INVARIANT AdmittedIsReceipted
CHECK_DEADLOCK FALSE
