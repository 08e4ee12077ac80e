---------------------------- MODULE MCLookupTables ----------------------------
(* Contents of two pointers: the third slot, or the third addition of a    *)
(* rule, meets the first again.  One exact table has a pointer for each of *)
(* its slots and the other has not.  One rule is the prefix of another.    *)
EXTENDS LookupTables

MCRules == {[ip |-> 0, depth |-> 1], [ip |-> 0, depth |-> 2],
            [ip |-> 2, depth |-> 1]}

MCPatterns == {[key |-> {1}, mask |-> {1}], [key |-> {1}, mask |-> {1, 2}]}
=============================================================================
