-------------------------------- MODULE MCVfs --------------------------------
(***************************************************************************)
(* A small instance of Vfs for TLC, and its refinement of Namespace. The    *)
(* namespace is kept in a variable so that each step computes it once.      *)
(***************************************************************************)
EXTENDS Vfs

VARIABLE ns

MCvars == <<node, files, last, seeded, ns>>

MCInit == Init /\ ns = NamespaceMap
MCNext == Next /\ ns' = IF node' = node THEN ns ELSE NamespaceMap'
MCSpec == MCInit /\ [][MCNext]_MCvars

\* "/", "x", "tmp/", "/tmp/x", "tmp//x/y", "welcome/", "welcome/y", "".
MCPaths == {<<"", "">>, <<"x">>, <<"tmp", "">>, <<"", "tmp", "x">>, <<"tmp", "", "x", "y">>,
            <<"welcome", "">>, <<"welcome", "y">>, <<"">>}
MCTexts == {<<2>>}
MCFlags == {{"READ"}, {"WRITE", "CREATE"}, {"WRITE", "APPEND"}}

StateView == <<node, files, seeded>>

(* Seen through paths, the calls are those of module Namespace, with its    *)
(* answers: walking the inodes gives what a flat map would.                 *)
NS == INSTANCE Namespace WITH Offsets <- 0 .. MaxSize
ImplementsNamespace == NS!Spec
=============================================================================
