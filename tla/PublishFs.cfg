CONSTANTS
    Uploads = {u1, u2}
    Users = {alice}
    Reqs = {r1, r2}
    Bundles = {b2, b3}
    FilesOf <- MCFilesOf
    Backend = "fs"
    TTL = 1
    MarkReplyLost = FALSE
    None = None
    Torn = Torn
    TwoFiles = b1
SPECIFICATION Spec
SYMMETRY Symmetry
CONSTRAINT OneBusySession
CHECK_DEADLOCK TRUE
INVARIANTS TypeOK VersionIntact CommitOnce AckedBundleKept IInv
PROPERTIES Immutable ImplementsHistory
