\* A rollback to a deployment of before; MinIO does not fail.
SPECIFICATION BlobSpec
CONSTANTS
    Browsers = {"new", "twin"}
    Accepts <- MCAccepts
    Absent = Absent
    Scenes <- RolledBack
    MaxActivations = 3
    Reverts = TRUE
    StoreFails = FALSE
INVARIANTS
    NotModifiedIsTrue
