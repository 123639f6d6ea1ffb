---------------------------- MODULE MCDirectives ----------------------------
(* One rule and two comments are enough for a duplicate that is none. *)
EXTENDS Directives

MCRuleIds == {"foo"}
MCLists == { <<All>>, <<"foo">> }
=============================================================================
