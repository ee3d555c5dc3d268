----------------------------- MODULE MCRoster -----------------------------
(* Instances of Roster: two contestants, one of whom Olimp-control also    *)
(* spells with a blank, and lists that add, omit, renumber and exchange.   *)
EXTENDS Roster, TLC

CONSTANTS unavailable, boot, a1, a2, ann, bob

MCRaw == {"ann", "ann ", "bob"}
MCStrip == [r \in MCRaw |-> IF r = "bob" THEN bob ELSE ann]

Entry(i, r) == [id |-> i, raw |-> r]
MCLists ==
    {{Entry(1, "ann"), Entry(2, "bob")}, {Entry(2, "ann"), Entry(1, "bob")},
     {Entry(2, "bob")}, {Entry(1, "bob")},
     {Entry(1, "ann"), Entry(2, "ann ")}, {Entry(1, "ann"), Entry(1, "bob")}}
=============================================================================
