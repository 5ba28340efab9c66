\* Metadata Structs over two keys: every scalar kind (null, unset, both
\* booleans, a finite number, NaN, an infinity, a string), flat, or one
\* nested Struct or list of up to two scalars.
CONSTANTS
    FieldNames = {k1, k2}
    k1 = k1
    k2 = k2
    Strings = {"x"}
    Numbers = {1}
    NaN = NaN
    Inf = Inf
    NoStruct = NoStruct
SPECIFICATION Spec

INVARIANT RoundTrip
