---------------------------- MODULE MCLiveStream ----------------------------
EXTENDS LiveStream

(* A character, a CRLF and an empty line that chunks may cut; a lone half of *)
(* a character, a CR inside a line; a line that is too long, by one byte.    *)
MCTexts == {
  <<"hi", "lo", "cr", "nl", "cr", "lo", "nl">>,
  <<"nl", "x", "nl", "x", "x", "x", "x">>}
=============================================================================
