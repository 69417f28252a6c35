SPECIFICATION FairSpec
CONSTANTS
    a = a  b = b  ka = ka  kb = kb  h1 = h1  h2 = h2  h3 = h3
    Keys = {ka, kb}
    Hashes = {h1, h2, h3}
    NoHash = NoHash
    NoRecord = NoRecord
    Urls = {a, b}
    Canon <- MCCanon
    BadHashes = {}
    Batches <- MCBatches
    Modes = {"resume"}
    TornKinds = {"cut"}
    Faults = {"save", "write", "crash", "cancel"}
    MaxReruns = 0
    MaxFaults = 3
INVARIANTS NoDuplicateLine ExportedBacked BatchFlushed
PROPERTIES EventuallyCommitted
