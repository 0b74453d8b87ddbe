---- MODULE MCModuleConfig ----
EXTENDS ModuleConfig, TLC

CONSTANTS a, b, c

\* Three objects: x/yx, x/xx and one whose parentName is a url, y/x/y.
MCName == a :> <<"y", "x">> @@ b :> <<"x", "x">> @@ c :> <<"y">>
MCParentName == a :> <<"x">> @@ b :> <<"x">> @@ c :> <<"y", "/", "x">>

\* Every url of at most four characters over two letters, "/" and "*".
MCChars == {"x", "y", "/", "*"}
MCUrls == UNION {[1..n -> MCChars] : n \in 1..4}

\* The module x/yx, and the items that are called y in any x.
MCPaths == {<<"x", "/", "y", "x">>, <<"x", "/", "y">>}

\* What the theorems about matching ask of the places.
ASSUME PlacesAssumption == PlacesAreWhole /\ PlacesArePlain
====
