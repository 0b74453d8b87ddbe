---- MODULE MCShowPage ----
EXTENDS ShowPage

CONSTANTS a, b

MCRank == [p \in Pages |-> IF p = a THEN 1 ELSE 2]

DBus(p, c) == [target |-> p, cmd |-> c, dbus |-> TRUE]

\* A page, the home page and a command for another page.
MCRequests == {DBus(a, "none"), DBus(Home, "none"), DBus(b, "command")}

\* A page and the indicator of another one.
MCPageRequests == {DBus(a, "none"), DBus(b, "indicator")}

\* One page over D-Bus.
MCOneRequest == {DBus(a, "none")}
====
