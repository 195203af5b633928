----------------------------- MODULE CommonPrefix -----------------------------
(***************************************************************************)
(* find_common_prefix (types/_dict/find_common_prefix.py): the longest     *)
(* prefix that all words of a set share, found by comparing the first and  *)
(* the last word of the sorted list.  Its caller passes words of one       *)
(* length.                                                                 *)
(***************************************************************************)
EXTENDS Naturals, Sequences

Bits == {0, 1}
Words(n) == [1 .. n -> Bits]

\* "<" on words of one length.
Less(a, b) ==
    \E i \in DOMAIN a : a[i] < b[i] /\ \A j \in 1 .. i - 1 : a[j] = b[j]

\* _sorted[0] and _sorted[-1]
SortedFirst(words) == CHOOSE a \in words : \A b \in words : ~Less(b, a)
SortedLast(words) == CHOOSE a \in words : \A b \in words : ~Less(a, b)

\* In how many of their first bits two words agree.
Shared(a, b) ==
    CHOOSE n \in 0 .. Len(a) :
        /\ \A i \in 1 .. n : a[i] = b[i]
        /\ n = Len(a) \/ a[n + 1] # b[n + 1]

find_common_prefix(words) ==
    IF words = {} THEN << >>
    ELSE LET first == SortedFirst(words)
         IN  SubSeq(first, 1, Shared(first, SortedLast(words)))
===============================================================================
