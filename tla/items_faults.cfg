SPECIFICATION FairSpec
CONSTANTS
    a = a  aw = aw  b = b  ka = ka  kb = kb  h1 = h1  h2 = h2  h3 = h3
    Keys = {ka, kb}
    Hashes = {h1, h2, h3}
    NoHash = NoHash
    NoRecord = NoRecord
    Urls = {a, aw, b}
    Canon <- MCCanon
    BadHashes = {h3}
    Batches <- MCRetried
    Modes = {"resume", "plain"}
    TornKinds = {"cut", "codepoint"}
    Faults = {"save", "write", "crash", "load", "cancel"}
    MaxReruns = 1
    MaxFaults = 5
INVARIANTS ExportedBacked StoreValid
PROPERTIES EventuallySettled
