CONSTANTS
    Strays <- MCStrays
    Sections <- MCSections
    Lists <- MCLists
    Platforms <- MCPlatforms
    Overrides <- MCOverrides
    Values <- MCValues
    Depth <- MCDepth
    Package <- MCPackage
SPECIFICATION SpecEither
INVARIANTS CommandByteRight MuxAgreed ConfiguredAsMeant
