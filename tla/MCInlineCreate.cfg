SPECIFICATION InlineSpec
CONSTANTS
    Null = Null
    Exported = Exported
    Handlers = {h1, h2, h3}
    Names = {n1, n2}
    SecretNames = {s1, s2}
    Requests <- Request
SYMMETRY HandlerSymmetry
INVARIANTS InlineTypeOK RowsHaveSecrets NothingLeft
CHECK_DEADLOCK FALSE
