----------------------------- MODULE MCNameMaps -----------------------------
(* Parameters of NameMaps for TLC. *)
EXTENDS NameMaps

\* Two ordinary tokens and the empty one, in the order of their strings.
MCEmpty == 0
MCToken == 0..2

\* Every name of up to three ordinary tokens, and some with dots at their ends.
MCName ==
  {<<a>> : a \in 1..2} \union {<<a, b>> : a, b \in 1..2}
    \union {<<a, b, c>> : a, b, c \in 1..2}
    \union {<<0>>, <<1, 0>>, <<1, 0, 0>>, <<0, 1>>, <<1, 0, 2>>}

\* std::map<std::string, ...> iterates in lexicographic order.
LexLess(a, b) ==
  \E k \in 1..Len(b) :
    /\ k <= Len(a) + 1
    /\ \A i \in 1..(k - 1) : a[i] = b[i]
    /\ k <= Len(a) => a[k] < b[k]
=============================================================================
