CONSTANTS
    None = None
    Isa <- LonetIsa
    JoinOutcomes = {"ok", "schema", "network", "dberr", "bind"}
    AnnounceOutcomes = {"ok", "dup", "dberr"}
    QueryOutcomes = {"found", "none", "dberr"}
    LookupOutcomes = {"ok", "nohost", "refused", "indexbug"}

SPECIFICATION Spec

INVARIANTS
    TypeOK
    RefusedDialReport
    ServeLogPolicy
    BugsCarryTraceback

\* every call returns or raises: a finished behaviour stops
CHECK_DEADLOCK FALSE
