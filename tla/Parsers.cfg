\* Every expression and every name of up to seven fragments, every schema of
\* up to six, well-formed or not.
CONSTANTS
    Forms <- MCForms
SPECIFICATION Spec
INVARIANTS
    ExpressionsExact
    NamesResolve
    NothingOverwritten
    SubjectsRoundTrip
    KeysDistinct
CHECK_DEADLOCK FALSE
