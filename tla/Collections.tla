------------------------------ MODULE Collections ------------------------------
(***************************************************************************)
(* Lists and dictionaries.                                                  *)
(***************************************************************************)
EXTENDS Integers, Sequences

\* The elements of `seq` at the places in `keep`, in their order.
Keep(seq, keep) ==
  LET kept[n \in 0..Len(seq)] ==
        IF n = 0 THEN <<>>
        ELSE IF n \in keep THEN Append(kept[n - 1], seq[n]) ELSE kept[n - 1]
  IN kept[Len(seq)]

\* `dict` with `value` at `key`, whether or not there was one.
Assign(dict, key, value) ==
  [k \in DOMAIN dict \cup {key} |-> IF k = key THEN value ELSE dict[k]]
=============================================================================
