---------------------------- MODULE MCEmbeddings ----------------------------
(***************************************************************************)
(* An instance of Embeddings: Apple's model and two MiniLM directories,    *)
(* which are both minilm:384, and two rows, which one batch can hold, so   *)
(* that a text too short and one to embed share a transaction.             *)
(***************************************************************************)
EXTENDS Embeddings

CONSTANTS apple_nl, minilm, minilm_other

Models == {apple_nl, minilm, minilm_other}
NameAndDimension ==
    [model \in Models |-> IF model = apple_nl THEN "apple_nl:512" ELSE "minilm:384"]
=============================================================================
