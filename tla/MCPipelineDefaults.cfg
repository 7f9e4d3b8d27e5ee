CONSTANTS
    Dir <- MCDir
    Root <- MCRoot
    Name <- MCName
    Spelling <- MCSpelling
    Override <- MCOverride
    Configs <- MCConfigs
    Join <- MCJoin
    Worlds <- MCWorlds
    Perm <- MCPerm
    Type <- MCType
    Block <- MCBlock
    Path <- MCPath
    Attr <- MCAttr
    Value <- MCValue
    Literal <- MCLiteral
    Catalogs <- MCCatalogs
    NilVal = NilVal
    NilCatalog = NilCatalog
    Nothing = Nothing
SPECIFICATION PipelineSpec
CHECK_DEADLOCK FALSE
INVARIANTS
    UnreadArgumentSurfaces
