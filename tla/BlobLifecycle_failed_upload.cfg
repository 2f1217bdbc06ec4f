CONSTANTS
    Scenarios = {"failed"}
    d1 = d1
    d2 = d2
    s1 = s1
    s2 = s2
    h1 = h1
    h2 = h2
    x1 = x1
    x2 = x2
    Digests = {d1}
    Spaces = {s1, s2}
    Links = {h1, h2}
    Uploads = {u1, u2}
    Txs = {t1}
    UploadTxMayFail = TRUE
    Active = {"allocate", "accept", "reject", "release"}
    SpaceOf <- MCSpaceOf
    DigestOf <- MCDigestOf
    NoDigest = NoDigest
    NoLink = NoLink
    NoUpload = NoUpload
    Nobody = Nobody
    Sweep = Sweep
    Unidentified = Unidentified
SPECIFICATION ScenarioSpec
SYMMETRY Symmetry
INVARIANTS
    AcceptedHeld
