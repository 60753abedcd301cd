CONSTANTS
    MaxContent = 3
    MaxHeaders = 3
SPECIFICATION Spec
INVARIANTS
    TypeOK
    NoBackOfEmpty
    BodyAsDeclared
PROPERTIES
    ImplementsSections
