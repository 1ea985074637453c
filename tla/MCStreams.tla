----------------------------- MODULE MCStreams -----------------------------
(* The event streams for TLC.                                                  *)
EXTENDS Streams, TLC

Symmetry == {f @@ g @@ h @@ k : f \in Permutations(Id), g \in Permutations(Record),
                                h \in Permutations(Stream), k \in Permutations(Match)}
=============================================================================
