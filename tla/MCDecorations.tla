---------------------------- MODULE MCDecorations ----------------------------
(* The texts and users of the decoration runs.                             *)
EXTENDS Decorations

CONSTANTS ann, bob, eve

By(text, authors) == [i \in DOMAIN text |-> [ch |-> text[i], client |-> authors[i]]]

SmallUsers == (ann :> "ann") @@ (bob :> "bob") @@ (eve :> "bob")

SmallSources ==
    {<< >>,
     By(<<"*", "a", "*", "b">>, <<bob, ann, bob, ann>>),
     By(<<"a", "\n", "a">>, <<ann, ann, bob>>)}

=============================================================================
