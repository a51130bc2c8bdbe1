SPECIFICATION Spec
CONSTANTS
    i = i
    j = j
    c = c
    d = d
    p = p
    q = q
    r = r
    x = x
    y = y
    z = z
    Individuals = {i, j}
    Classes = {c, d}
    Properties = {p, q, r}
    Type = type
    Vars = {x, y, z}
    Aux = aux
    Template = template
    Mappings <- Pairs
    FactSets <- SomeFacts
    TBoxes <- SomeTBoxes
    Queries <- SomeQueries
    Rows <- SomeRows
    MaxUpdates = 1
INVARIANTS IInv AnswersEntailed NothingMissing TypesAnsweredOnce
