SPECIFICATION Spec
CONSTANTS
    Texts <- MCTexts
    MaxText <- MCMaxText
    MaxRows <- MCMaxRows
INVARIANTS
    TypeOK
    RealmListFits
    CharEnumFits
\* The table is full.
CHECK_DEADLOCK FALSE
