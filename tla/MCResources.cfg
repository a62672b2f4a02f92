\* The life of what the process owns, with both signals at any time.
SPECIFICATION Spec
CHECK_DEADLOCK FALSE
INVARIANTS TypeOK FreedOnce NothingLeft HandleInUse
