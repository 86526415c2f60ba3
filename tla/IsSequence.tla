------------------------------ MODULE IsSequence ------------------------------
(***************************************************************************)
(* What is meant by a sequence where its elements may be anything.         *)
(***************************************************************************)
EXTENDS Integers, Sequences, SequencesExt, FiniteSetsExt

\* A sequence, whatever its elements.
IsSeq(s) == s \in Seq({s[i] : i \in DOMAIN s})
===============================================================================
