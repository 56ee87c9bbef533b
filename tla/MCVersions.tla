---- MODULE MCVersions ----
(* Instance of Versions for TLC: texts whose common lines can be matched in
   more than one way. *)
EXTENDS Versions

SmallTexts == {<<>>, <<"a", "b">>}
SmallHistories == <<<<<<"b", "c">>>>, <<<<"b", "c">>, <<"a", "b">>>>>>
====
