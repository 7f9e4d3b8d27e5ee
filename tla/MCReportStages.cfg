CONSTANTS
    Perm <- MCPerm
    Type <- MCType
    Block <- MCBlock
    Path <- MCPath
    Attr <- MCAttr
    Value <- MCValue
    Literal <- MCLiteral
    Inputs <- MCInputs
    Catalogs <- MCCatalogs
    BlockRank <- MCBlockRank
    NameRank <- MCNameRank
    serialiseWhen <- MCSerialise
    NilVal = NilVal
    NilCatalog = NilCatalog
    Nothing = Nothing
SPECIFICATION ReportSpec
CHECK_DEADLOCK FALSE
INVARIANTS
    StagesAgree
