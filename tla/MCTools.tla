------------------------------ MODULE MCTools -------------------------------
(***************************************************************************)
(* Either of the two tools: the build loop over a roadmap of two tasks in  *)
(* all their states, with a task removed and one put in another's place,   *)
(* for four iterations, so that the third idle cycle is not the last; or   *)
(* the cross-decode gate over two approved cases and two containers an     *)
(* encoder may produce.                                                    *)
(***************************************************************************)
EXTENDS Tools

VARIABLE tool        \* "loop" or "gate"

TaskOf(name, state) == [name |-> name, state |-> state]

MCRoadmaps ==
  {<<TaskOf("a", s), TaskOf("b", t)>> : s, t \in {"todo", "doing", "done"}}
  \cup {<<TaskOf("a", "done")>>, <<TaskOf("a", "done"), TaskOf("c", "todo")>>}

MCCases      == <<"plain", "encrypted">>
MCContainers == {"A", "B"}
MCCaseLists  == {<<>>, <<"plain">>, <<"plain", "encrypted">>, <<"encrypted", "encrypted">>,
                 <<"plain", "unapproved">>}

(* The tool that is not run stands still at one of its initial states.     *)
ToolsInit ==
  \/ /\ tool = "loop"
     /\ Gate!Init /\ ~alone /\ \A c \in DOMAIN manifest : manifest[c] = "none"
     /\ Init
  \/ /\ tool = "gate"
     /\ Init /\ branch = "main" /\ changed /\ upstream = None
     /\ roadmap = commits[1] /\ roadmap = <<TaskOf("a", "done")>>
     /\ Gate!Init

Loops == tool = "loop" /\ Next /\ UNCHANGED <<tool, gateVars>>
Gates == tool = "gate" /\ Gate!Next /\ UNCHANGED <<tool, vars>>

ToolsSpec == ToolsInit /\ [][Loops \/ Gates]_<<tool, vars, gateVars>>
=============================================================================
