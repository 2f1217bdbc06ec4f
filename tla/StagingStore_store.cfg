SPECIFICATION Spec
CONSTANTS
    Digests = {d1, d2}
    Ids = {u1, u2}
    Readers = {r1}
    NoId = NoId
    NoDigest = NoDigest
    Moves = {"rename", "copy"}
INVARIANTS StoreInv DeleteDeletes BytesAreReadable
PROPERTY ImplementsBlobStore
