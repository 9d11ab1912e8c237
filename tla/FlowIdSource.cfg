CONSTANT Limit = 8
SPECIFICATION SourceSpec
INVARIANT Accounted
PROPERTY Promise
