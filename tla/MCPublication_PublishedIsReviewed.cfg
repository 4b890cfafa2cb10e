\* One run, one commit by another process.
SPECIFICATION Spec
CONSTANTS
    MaxRuns = 1
PROPERTIES
    PublishedIsReviewed
CHECK_DEADLOCK FALSE
