-------------------------------- MODULE Seqs --------------------------------
(***************************************************************************)
(* ToSet and FoldLeft of SequencesExt and Min of FiniteSetsExt, for the    *)
(* modules that proofs are about: those libraries come with more than a    *)
(* hundred definitions, and each is in the way of every step of a proof.   *)
(***************************************************************************)
EXTENDS Naturals, Sequences

Elements(s) == {s[n] : n \in DOMAIN s}

Fold(op(_, _), base, s) ==
  LET first[n \in 0 .. Len(s)] == IF n = 0 THEN base ELSE op(first[n - 1], s[n])
  IN first[Len(s)]

Least(S) == CHOOSE n \in S : \A m \in S : n <= m
=============================================================================
