----------------------------- MODULE RowVersions -----------------------------
(***************************************************************************)
(* A log of row versions, each [k: the key, p: the partition or window     *)
(* column, w: the watermark], and tables as bags of them: how often a      *)
(* table holds each version of the log.                                    *)
(***************************************************************************)
EXTENDS Integers, Sequences, FiniteSets, FiniteSetsExt, Functions

\* The versions of S with no newer one of their key in S.
NewestOf(log, S) == {v \in S : \A u \in S : log[u].k = log[v].k => log[u].w <= log[v].w}

InOrder(S) == CHOOSE s \in [1..Cardinality(S) -> S] : \A i, j \in DOMAIN s : i < j => s[i] < s[j]

\* The range of a set of numbers, empty if it has none.
Between(S) == IF S = {} THEN {} ELSE Min(S)..Max(S)

\* A table that does not exist holds nothing.
Missing == <<>>
Held(t) == {v \in DOMAIN t : t[v] > 0}
Adding(t, rows) == [v \in DOMAIN t |-> t[v] + IF v \in rows THEN 1 ELSE 0]
SumOf(s, t) == [v \in DOMAIN t |-> t[v] + IF v \in DOMAIN s THEN s[v] ELSE 0]
Without(t, rows) == [v \in DOMAIN t |-> IF v \in rows THEN 0 ELSE t[v]]
=============================================================================
