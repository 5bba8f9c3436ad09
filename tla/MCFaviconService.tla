-------------------------- MODULE MCFaviconService --------------------------
(* Instances of FaviconService for TLC.                                    *)
EXTENDS FaviconService

CONSTANTS c1, c2, c3, a1, a2, i1, i2, i3

OneAuthority == [c \in Lookups |-> a1]
TwoAuthorities == [c \in Lookups |-> IF c = c3 THEN a2 ELSE a1]

\* i3 is larger than a blob may be, i1 and i2 together than all may be.
Sizes == [i \in Icons |-> CASE i = i1 -> 1 [] i = i2 -> 2 [] OTHER -> 3]
============================================================================
