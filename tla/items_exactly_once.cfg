SPECIFICATION Spec
CONSTANTS
    a = a  aw = aw  b = b  ka = ka  kb = kb  h1 = h1  h2 = h2  h3 = h3
    Keys = {ka, kb}
    Hashes = {h1, h2, h3}
    NoHash = NoHash
    NoRecord = NoRecord
    Urls = {a, aw, b}
    Canon <- MCCanon
    BadHashes = {}
    Batches <- MCBatches
    Modes = {"resume"}
    TornKinds = {"cut"}
    Faults = {"save", "crash", "cancel"}
    MaxReruns = 0
    MaxFaults = 4
INVARIANTS TypeOK NoDuplicateLine CommittedHasOwnLine DrainHonest
PROPERTIES CommittedStays ExportsOnce
