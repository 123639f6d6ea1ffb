---------------------------- MODULE MCJudgments ----------------------------
(* Source 1 has three candidates, so it needs a full batch of two and a    *)
(* short one. One entry is reversed, one is a reversed repetition. Every   *)
(* card has one of two texts to begin with, so an edit may move keys or    *)
(* take a card away.                                                          *)
EXTENDS Judgments

MCRules == 1..4
MCInput == << <<1, 2>>, <<3, 1>>, <<2, 1>>, <<1, 4>> >>
=============================================================================
