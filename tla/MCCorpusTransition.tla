------------------------- MODULE MCCorpusTransition -------------------------
(***************************************************************************)
(* An instance of CorpusTransition for TLC: two finalizations of different *)
(* sessions, towards different corpora, compete for the initial corpus.    *)
(***************************************************************************)
EXTENDS CorpusTransition, TLC

CONSTANTS c0, c1, c2, i1, i2

MCTarget == [input \in Input |-> IF input = i1 THEN c1 ELSE c2]
=============================================================================
