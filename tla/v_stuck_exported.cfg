SPECIFICATION FairSpec
CONSTANTS
    a = a  aw = aw  b = b  ka = ka  kb = kb  h1 = h1  h2 = h2  h3 = h3
    Keys = {ka, kb}
    Hashes = {h1, h2, h3}
    NoHash = NoHash
    NoRecord = NoRecord
    Urls = {a, aw, b}
    Canon <- MCCanon
    BadHashes = {h3}
    Batches <- MCRetried
    Modes = {"resume"}
    TornKinds = {"codepoint"}
    Faults = {"save", "crash"}
    MaxReruns = 0
    MaxFaults = 3
PROPERTIES EventuallyCommitted
