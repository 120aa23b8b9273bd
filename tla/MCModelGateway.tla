--------------------------- MODULE MCModelGateway ---------------------------
(* Small instances of ModelGateway: a primary and one other model, which is  *)
(* the fallback or, for pictures, the dedicated vision model; a behaviour    *)
(* asks one question, with or without pictures, as often as it likes.        *)
EXTENDS ModelGateway, TLC

CONSTANTS m1, m2, text, picture
MCFallbacks == <<m2>>
MCLikely == {m2}
MCQuestions == {text, picture}
MCPictures == {picture}
MCBoth == BOOLEAN
MCOneQuestion == {{text}, {picture}}
=============================================================================
