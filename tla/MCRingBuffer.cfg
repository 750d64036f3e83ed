CONSTANTS
    Writers = {w1}
    Readers = {r1}
    Blocks = {k1, k2}
    Cap = 2
    MaxSize = 2
    Bytes = {0, 1}
    Payloads <- Words
    ReadLens = {1, 3}
    NoOne = NoOne
    Junk = Junk
SPECIFICATION FairSpec
INVARIANTS SizeAgrees BlocksOwnedOnce WaitersHaveReason
PROPERTIES ImplementsStream CloseReleasesAll
