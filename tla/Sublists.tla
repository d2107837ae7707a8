------------------------------ MODULE Sublists ------------------------------
(***************************************************************************)
(* Entries kept in order of age - a cache's by expiry, a registry's by     *)
(* updated_at - and those of them that are in a set, in the same order.    *)
(***************************************************************************)
EXTENDS Integers, Sequences

Sublist(s, S) ==
  LET kept[i \in 0..Len(s)] ==
        IF i = 0 THEN <<>>
        ELSE IF s[i] \in S THEN Append(kept[i - 1], s[i]) ELSE kept[i - 1]
  IN kept[Len(s)]

Members(s) == {s[i] : i \in 1..Len(s)}
=============================================================================
