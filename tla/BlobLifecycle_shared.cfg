CONSTANTS
    Scenarios = {"hashed", "contents", "stopped"}
    d1 = d1
    d2 = d2
    s1 = s1
    s2 = s2
    h1 = h1
    h2 = h2
    x1 = x1
    x2 = x2
    Digests = {d1, d2}
    Spaces = {s1, s2}
    Links = {h1, h2, x1}
    Uploads = {u1}
    Txs = {t1, t2}
    UploadTxMayFail = FALSE
    Active = {"allocate", "allocateUnhashed", "accept", "reject", "expire", "release", "acceptUnidentified", "sweep", "settle", "stops"}
    SpaceOf <- MCSpaceOf
    DigestOf <- MCDigestOf
    NoDigest = NoDigest
    NoLink = NoLink
    NoUpload = NoUpload
    Nobody = Nobody
    Sweep = Sweep
    Unidentified = Unidentified
SPECIFICATION ScenarioSpec
SYMMETRY Symmetry
INVARIANTS
    AcceptedHeld
PROPERTIES
    BytesGoByRemoval
    AcceptsUnreleased
    
