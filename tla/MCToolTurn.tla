----------------------------- MODULE MCToolTurn -----------------------------
(* Instances of ToolTurn for model checking.                               *)
EXTENDS ToolTurn

CONSTANTS whole, cut

MCUrls == {whole, cut}

(* An address with a bracket in it is found up to the bracket only.        *)
MCReadAs == [u \in MCUrls |-> cut]

Do(tool, arg) == [tool |-> tool, arg |-> arg]

(* A plan made, replaced, worked through in order and out of it.           *)
MCPlanTurns ==
  {<<Do("set_plan", 2), Do("complete_subtask", 1)>>, <<Do("set_plan", 3)>>,
   <<Do("complete_subtask", 1), Do("complete_subtask", 2)>>,
   <<Do("complete_subtask", 3)>>,
   <<Do("browser_snapshot", NoArg)>>}

(* Navigations in a row, one that cannot succeed, clicks by reference.     *)
MCBrowserTurns ==
  {<<Do("browser_navigate", u), Do("browser_navigate", v)>> : u, v \in Urls}
    \cup {<<Do("browser_click_ref", NoArg), Do("browser_navigate", NoArg)>>,
          <<Do("browser_snapshot", NoArg)>>}

MCTurns == MCPlanTurns \cup MCBrowserTurns

=============================================================================
