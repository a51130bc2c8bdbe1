---------------------------- MODULE MCGraphQuery ----------------------------
(* Instances of queries for TLC.                                              *)
EXTENDS GraphQueryProperties

CONSTANTS x, y, z, m, a, b, p, q, r

Triple(s, pred, o) == [s |-> s, p |-> pred, o |-> o]
PathItem(path, s, pr, qr, o) == [path |-> path, s |-> s, p |-> pr, q |-> qr, o |-> o]

SomeMiddles == <<m>>

\* Rows that repeat, a cycle, and a node without q. r has no rows, or no rule.
Stated == (p :> << <<a, b>>, <<a, b>>, <<b, a>>, <<b, b>> >>) @@ (q :> << <<b, b>>, <<b, a>> >>)
SomeDatasets == {[rows |-> Stated, virtual |-> TRUE], [rows |-> Stated, virtual |-> FALSE]}

Solution(f) == f @@ NoBinding
Unbound_y == [test |-> "unbound", variable |-> y]
Equals_z == [test |-> "equals", variable |-> z, value |-> a]
Nothing == [blocks |-> {}, paths |-> {}, tables |-> {}, aliases |-> {}, filters |-> {}]

Opening(kinds) == [kind : kinds]
Exists == [kind : {"exists"}, negated : BOOLEAN]
SubSelect == [kind |-> "select", selection |-> [keep |-> {y}, distinct |-> TRUE]]

\* Groups in groups; what is written in a group; paths.
Nesting ==
    [Nothing EXCEPT !.blocks = {<<Triple(x, p, y)>>, <<Triple(x, q, z)>>},
                    !.filters = {Unbound_y}]
    @@ [openings |-> Opening({"braces", "union", "optional", "minus"}), items |-> 6]
Writing ==
    [Nothing EXCEPT !.blocks = {<<Triple(x, q, z), Triple(z, p, y)>>, <<Triple(y, r, z)>>},
                    !.tables = {<<Solution(x :> a), Solution(z :> b)>>},
                    !.aliases = {<<x, z>>},
                    !.filters = {Unbound_y, Equals_z}]
    @@ [openings |-> Opening({"braces", "union", "optional", "minus"}) \cup Exists \cup {SubSelect}, items |-> 4]
Walking ==
    [Nothing EXCEPT !.blocks = {<<Triple(x, p, y)>>},
                    !.paths = {PathItem("sequence", x, p, q, z), PathItem("alternative", x, p, q, z),
                               PathItem("inverse", x, p, p, y), PathItem("closure", y, p, p, z),
                               PathItem("closure", x, p, p, x), PathItem("zero", x, q, q, b)},
                    !.filters = {Equals_z}]
    @@ [openings |-> Opening({"braces", "union", "optional"}) \cup Exists, items |-> 4]
SomeThemes == {Nesting, Writing, Walking}
=============================================================================
