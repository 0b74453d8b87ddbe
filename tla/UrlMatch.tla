---- MODULE UrlMatch ----
(***************************************************************************)
(* How a url of a configuration is matched with the place of an object:    *)
(* isEqualByName, isMatchByName, splitUrl of dccmanager.cpp.  What is      *)
(* matched is characters, so a url and a name are sequences of them: "/"   *)
(* separates, "*" is the wildcard, everything else stands for itself.      *)
(***************************************************************************)
EXTENDS Naturals, Sequences, FiniteSets
Lists == INSTANCE SequencesExt

Slash == <<"/">>

HasWildcard(url) == \E i \in DOMAIN url : url[i] = "*"

\* There is something before, between and after the "/".
WholeParts(url) ==
  /\ url # <<>> /\ url[1] # "/" /\ url[Len(url)] # "/"
  /\ \A i \in 1..(Len(url) - 1) : url[i] = "/" => url[i + 1] # "/"

\* isEqualByName: both are read from the end; the shorter one has to end where
\* the other has a "/".
IsEqualByName(url, name) ==
  LET n == IF Len(url) <= Len(name) THEN Len(url) ELSE Len(name)
  IN /\ \A k \in 0..(n - 1) : url[Len(url) - k] = name[Len(name) - k]
     /\ IF Len(url) = n THEN Len(name) = n \/ name[Len(name) - n] = "/"
        ELSE url[Len(url) - n] = "/"

\* Variant: the wildcard goes on over a "/".
IsMatchByNameAcross(url, name) ==
  LET path == Slash \o name
      Read[at \in (0..Len(url)) \X (0..Len(path)) \X BOOLEAN] ==
        LET u == at[1]
            p == at[2]
            wild == at[3]
        IN CASE u = 0 \/ p = 0 -> wild \/ u > 0 \/ p = 0 \/ path[p] = "/" \/ url[1] = "/"
             [] u > 0 /\ p > 0 /\ url[u] = path[p] -> Read[<<u - 1, p - 1, FALSE>>]
             [] u > 0 /\ p > 0 /\ url[u] # path[p] /\ url[u] = "*" -> Read[<<u - 1, p, TRUE>>]
             [] OTHER -> wild /\ Read[<<u, p - 1, wild>>]
  IN Read[<<Len(url), Len(path), FALSE>>]

\* Variant: a wildcard at the front of the url has to end at a "/" of the place.
IsMatchByNameNoFront(url, name) ==
  LET path == Slash \o name
      Read[at \in (0..Len(url)) \X (0..Len(path)) \X BOOLEAN] ==
        LET u == at[1]
            p == at[2]
            wild == at[3]
        IN CASE u = 0 \/ p = 0 -> u > 0 \/ p = 0 \/ path[p] = "/" \/ url[1] = "/"
             [] u > 0 /\ p > 0 /\ url[u] = path[p] -> Read[<<u - 1, p - 1, FALSE>>]
             [] u > 0 /\ p > 0 /\ url[u] # path[p] /\ url[u] = "*" -> Read[<<u - 1, p, TRUE>>]
             [] OTHER -> wild /\ path[p] # "/" /\ Read[<<u, p - 1, wild>>]
  IN Read[<<Len(url), Len(path), FALSE>>]

\* isMatchByName: the same reading with wildcards.  A wildcard takes characters
\* up to the first that the url goes on with, and never goes back; it stops at a
\* "/".  A url that is longer than the place matches if the place is read.
IsMatchByName(url, name) ==
  LET path == Slash \o name
      Read[at \in (0..Len(url)) \X (0..Len(path)) \X BOOLEAN] ==
        LET u == at[1]
            p == at[2]
            wild == at[3]
        IN CASE u = 0 \/ p = 0 -> wild \/ u > 0 \/ p = 0 \/ path[p] = "/" \/ url[1] = "/"
             [] u > 0 /\ p > 0 /\ url[u] = path[p] -> Read[<<u - 1, p - 1, FALSE>>]
             [] u > 0 /\ p > 0 /\ url[u] # path[p] /\ url[u] = "*" -> Read[<<u - 1, p, TRUE>>]
             [] OTHER -> wild /\ path[p] # "/" /\ Read[<<u, p - 1, wild>>]
  IN Read[<<Len(url), Len(path), FALSE>>]

\* splitUrl: the parts between the "/"; the last one is the target.
SplitUrl(url) ==
  LET starts == {i \in DOMAIN url : url[i] # "/" /\ (i = 1 \/ url[i - 1] = "/")}
      last(i) == CHOOSE j \in i..Len(url) :
                   /\ \A k \in i..j : url[k] # "/"
                   /\ j = Len(url) \/ url[j + 1] = "/"
  IN [n \in 1..Cardinality(starts) |->
        LET i == CHOOSE i \in starts : Cardinality({k \in starts : k <= i}) = n
        IN SubSeq(url, i, last(i))]

\* The parts as one path again, with a "/" in front of each.
JoinPath(parts) == Lists!FlattenSeq([i \in 1..Len(parts) |-> Slash \o parts[i]])

-----------------------------------------------------------------------------
(* What matching would mean. *)

\* A part of a url matches a part of a place: a wildcard is any characters.
Glob(pattern, part) ==
  LET Reach[i \in 0..Len(pattern)] ==
        IF i = 0 THEN {0}
        ELSE LET before == Reach[i - 1]
             IN IF pattern[i] = "*" THEN {k \in 0..Len(part) : \E j \in before : j <= k}
                ELSE {k \in 1..Len(part) : k - 1 \in before /\ part[k] = pattern[i]}
  IN Len(part) \in Reach[Len(pattern)]

\* A url matches a place: their last parts match, as many as the shorter has.
PartsMatch(url, name) ==
  LET us == SplitUrl(url)
      ns == SplitUrl(name)
      n == IF Len(us) <= Len(ns) THEN Len(us) ELSE Len(ns)
  IN \A k \in 0..(n - 1) : Glob(us[Len(us) - k], ns[Len(ns) - k])
====
