------------------------- MODULE MCWorkContextClaims -------------------------
(* Instances of WorkContextClaims for TLC: its inputs.                      *)
EXTENDS WorkContextClaims

CONSTANTS a, b, r, s

One(kind, actions, ids) == [kind |-> kind, actions |-> actions, ids |-> ids,
                            canonical |-> TRUE]

\* Lists of one scope that can be narrowed by action, by id, or not at all, and one of
\* each way in which a list may be odd: empty, two kinds, kinds unsorted or twice, no
\* actions, not canonical, too many scopes.
MCLists ==
    {<<One(1, {a}, {})>>, <<One(1, {a}, {r})>>, <<One(1, {a, b}, {r})>>, <<One(1, {a, b}, {r, s})>>}
    \union {<<>>, <<One(1, {a}, {r}), One(2, {b}, {})>>,
            <<One(2, {b}, {}), One(1, {a}, {r})>>, <<One(1, {a}, {}), One(1, {b}, {r})>>,
            <<One(1, {}, {})>>, <<[One(1, {a}, {}) EXCEPT !.canonical = FALSE]>>,
            <<One(1, {a}, {}), One(2, {a}, {}), One(3, {a}, {})>>}

\* A lifetime at its cap that counts before it is issued, one a second over the cap, and one
\* that ends before it begins to count.
MCWindows ==
    {[notBefore |-> -1, issuedAt |-> 0, expiresAt |-> 3],
     [notBefore |-> 0, issuedAt |-> 0, expiresAt |-> 4],
     [notBefore |-> 2, issuedAt |-> 0, expiresAt |-> 1]}

\* The seconds from the first to the last at which the skew admits the first of them, and
\* one beyond either end.
MCClock == {-2, -1, 4, 5}

=============================================================================
