--------------------------- MODULE MCAsyncTraversal ---------------------------
(* Two key levels and trees of up to two levels below them. *)
EXTENDS AsyncTraversal

Small ==
  {<<"a">>, <<"b">>, <<"a", "a">>, <<"a", "b">>, <<"b", "a">>,
   <<"a", "a", "a">>, <<"a", "a", "b">>, <<"a", "a", "a", "a">>}
SmallRegistered == {<<"a">>, <<"b">>, <<"a", "a">>}
SmallStored == {<<"a", "a">>, <<"a", "a", "a">>}
SmallBases == {<<>>, <<"a">>}

===============================================================================
