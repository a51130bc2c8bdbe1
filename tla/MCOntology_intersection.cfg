SPECIFICATION Spec
CONSTANTS
    a = a
    b = b
    c = c
    p = p
    q = q
    x = x
    f1 = f1
    f2 = f2
    Classes = {a, b, c}
    Properties = {p, q}
    Individuals = {x}
    Files = {f1, f2}
    Root = f1
    Unmapped = elsewhere
    Contents <- SomeContents
    GivenFacts <- SomeFacts
INVARIANT SafeDirectionOnly
