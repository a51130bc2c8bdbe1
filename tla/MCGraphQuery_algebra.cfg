SPECIFICATION Spec
CONSTANTS
    x = x
    y = y
    z = z
    m = m
    a = a
    b = b
    p = p
    q = q
    r = r
    Variables = {x, y, z, m}
    Terms = {a, b}
    Unbound = unbound
    Middles <- SomeMiddles
    Datasets <- SomeDatasets
    Themes <- SomeThemes
    MaxGroups = 3
CHECK_DEADLOCK FALSE
INVARIANTS TypeOK AnswersAreSolutions FailureIsRequired
