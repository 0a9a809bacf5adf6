--------------------------- MODULE MCLegacyImport ---------------------------
(* A small instance of LegacyImport: two legacy ids, and files that were changed between two      *)
(* imports, list an id twice, or hold a zero amount or a field that does not parse.               *)
EXTENDS LegacyImport, TLC

Of(id, amount) == [id |-> id, amount |-> amount, bad |-> {}]
Bad(id, amount, field) == [id |-> id, amount |-> amount, bad |-> {field}]

Import(file, owner) == [file |-> file, owner |-> owner]

MCImports ==
    {Import(<<Of(1, 1), Of(2, 2)>>, TRUE),
     Import(<<Of(1, 2), Of(2, 1)>>, FALSE),
     Import(<<Of(1, 1), Of(1, 1)>>, FALSE),
     Import(<<Of(1, 0), Bad(2, 0, "id")>>, FALSE),
     Import(<<Bad(1, 1, "rule")>>, FALSE),
     Import(<<Bad(1, 1, "start"), Of(2, -1)>>, FALSE)}

Half(rules, initial, owned) == [owned |-> owned, rules |-> rules, initial |-> initial]

\* An empty database, and the half-migrated accounts that the repair is for.
MCOpening ==
    {[user |-> FALSE, accounts |-> <<None, None>>],
     [user |-> FALSE, accounts |-> <<Half({}, <<>>, FALSE), None>>],
     [user |-> TRUE, accounts |-> <<Half({}, <<>>, TRUE), None>>],
     [user |-> TRUE, accounts |-> <<Half({"opening"}, <<>>, TRUE), None>>]}

ProcSymmetry == Permutations(Proc)
=============================================================================
