CONSTANTS
    Uploads = {u1}
    Users = {alice}
    Reqs = {r1, r2, r3}
    Bundles = {b1, b2}
    FilesOf <- MCFilesOf
    Backend = "s3"
    TTL = 1
    MarkReplyLost = FALSE
    None = None
    Torn = Torn
    TwoFiles = b1
SPECIFICATION Spec
CHECK_DEADLOCK TRUE
PROPERTIES Immutable
