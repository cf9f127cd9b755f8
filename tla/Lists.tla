-------------------------------- MODULE Lists --------------------------------
(***************************************************************************)
(* What the program does with its lists and arrays of records and the      *)
(* modules have in common: take some of the entries, and add them up.      *)
(***************************************************************************)
EXTENDS Integers, Sequences

(* The entries of list that are in S, in their order.                      *)
Only(list, S) ==
  LET kept[i \in 0..Len(list)] ==
        IF i = 0 THEN <<>>
        ELSE IF list[i] \in S THEN Append(kept[i - 1], list[i])
        ELSE kept[i - 1]
  IN kept[Len(list)]

(* The sum of the entries, each of which weighs weight[entry].             *)
Total(list, weight) ==
  LET sum[i \in 0..Len(list)] ==
        IF i = 0 THEN 0 ELSE sum[i - 1] + weight[list[i]]
  IN sum[Len(list)]

Entries(list) == {list[i] : i \in DOMAIN list}

NoDuplicates(list) == \A i, j \in DOMAIN list : list[i] = list[j] => i = j
=============================================================================
