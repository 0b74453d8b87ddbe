---- MODULE MCObjectTree ----
EXTENDS ObjectTree

CONSTANTS a, m, b, b2, g, c

\* A module a; the main object m of the plugin, which has no name and names no
\* parent and stands for a nameless repeater in it, too: two objects made under
\* the same name for the module, and two objects for the item of that name, of
\* which g is declared beside the items and c in the second of them.
MCName == [n \in Objects \cup {Root} |->
             CASE n = a -> "page" [] n \in {b, b2} -> "item" [] n = g -> "group" [] n = c -> "text"
               [] n = Root -> "root" [] OTHER -> None]
MCParentName == [o \in Objects |->
             CASE o = a -> "root" [] o \in {b, b2} -> "page" [] o \in {g, c} -> "item" [] OTHER -> None]
MCOwner == [o \in Objects |-> CASE o \in {a, m} -> None [] o = c -> b2 [] OTHER -> m]
MCWeight == [o \in Objects |-> IF o = b THEN 2 ELSE 1]
====
