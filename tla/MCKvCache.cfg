SPECIFICATION Spec
INVARIANTS
    CacheAgrees
PROPERTIES
    DecodeCleansUp
