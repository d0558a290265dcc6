------------------------------ MODULE MCReparse -------------------------------
(***************************************************************************)
(* One listing, or two, and a parser whose second version reads the        *)
(* posting date and another title.  A record without a position, price or  *)
(* locality; one that only the second version can read.                    *)
(***************************************************************************)
EXTENDS Reparse

P(id, title, lat, lon, locality, posted, price) ==
    [id |-> id, title |-> title, lat |-> lat, lon |-> lon, locality |-> locality,
     posted |-> posted, price |-> price]

MCRecords == {"full", "moved", "thin", "stub"}
MCParsers == <<
    [full  |-> P("a", "t", 1, 1, "north", Null, 10),
     moved |-> P("a", "t", 2, 1, "south", Null, 20),
     thin  |-> P("a", "t", 1, 1, Null, Null, Null),
     stub  |-> Unusable],
    [full  |-> P("a", "T", 1, 1, "north", 7, 10),
     moved |-> P("a", "T", 2, 2, "south", 8, 20),
     thin  |-> P("a", "T", 1, 2, Null, Null, Null),
     stub  |-> P("b", "T", Null, Null, "north", 7, 10)]>>
MCFeeds == {<<"full">>, <<"moved", "stub">>, <<"thin">>, <<"stub", "full">>}
===============================================================================
