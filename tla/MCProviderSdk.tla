--------------------------- MODULE MCProviderSdk ---------------------------
(* Two documents compete for a cache of one; texts of one to three lines.  *)
EXTENDS ProviderSdk

SmallTexts == {<<"">>, <<"a", "b">>, <<"b", "a", "">>, <<"a", "a", "b">>}
SmallLengths == [l \in {"", "a", "b"} |-> IF l = "" THEN 0 ELSE 1]
=============================================================================
