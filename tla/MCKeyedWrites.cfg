SPECIFICATION WritesSpec
CONSTANTS
    Declarations <- MCDeclarations
    WriteStatements <- MCWriteStatements
    Parents <- MCParents
    MaxKey = 4
    MaxWrites = 3
    UuidDigits = 4
    UuidGroup = 2
    StoredInputs <- MCStoredInputs
    StampInputs <- MCStampInputs
    ReversedInputs <- MCReversedInputs
    CopyOptions <- MCCopyOptions
    TextLines <- MCTextLines
    CsvLines <- MCCsvLines
    CopyTargets <- MCCopyTargets
    Expressions <- MCExpressions
    Around <- MCAround
    TableColumns <- MCScales
    TableRow <- MCStored
    MaxPrecision = 18
    ColumnDigits = 6
INVARIANTS WritesAgree StoredAlike CopiesAgree MinorUnitsAreExact
CHECK_DEADLOCK FALSE
