--------------------------- MODULE MCHookTopLevel ---------------------------
(* A declared hook, an anonymous component, a declared helper and a        *)
(* callback; one name that calls may use, no imports and no options.       *)
EXTENDS HookTopLevel

MCFunctions ==
  { [name |-> "useSelf", hookish |-> TRUE], [name |-> NoName, hookish |-> TRUE],
    [name |-> "helper", hookish |-> FALSE], [name |-> NoName, hookish |-> FALSE] }
MCHooks == { "useSelf" }
MCNone == {}
MCNoSources == <<>>
=============================================================================
