--------------------------- MODULE MCReplyStream ---------------------------
(* The instance of ReplyStream that TLC checks. *)
EXTENDS ReplyStream

(* Text, a call's body, a body that is no object, a stop string in two     *)
(* halves, whole tags, and the open tag in two tokens.  The tokenizer has  *)
(* both tags as single tokens; only the open one is looked for in pieces.  *)
SomeTokens ==
  {<<"a">>, <<"j">>, <<"n">>, <<"o1">>, <<"o2">>, Open, Close, <<"s">>, <<"z">>}

(* Text, parts of both closing marks, and of <thinking> and </thinking>: in *)
(* two lines, in one, and in one with a mark.                               *)
SomeWords ==
  {<<"a">>, <<"t">>, <<"i">>, <<"o">>, <<"i", "w">>, <<"a", "t">>,
   <<"b">>, <<"k", "t">>, <<"b", "k">>, <<"e">>, <<"b", "k", "a", "t", "i">>}
=============================================================================
