---------------------------- MODULE MCAgentThread ----------------------------
(* Instances of AgentThread for TLC.  One tool per tier, one that is       *)
(* sensitive and never grantable, and a table of rules that moves two of   *)
(* them when their arguments are of class "listed".                        *)
EXTENDS AgentThread, TLC

MCTools == {"browser_snapshot", "browser_click", "browser_evaluate"}
MCArgs == {"plain", "listed"}
MCRead == {"browser_snapshot"}
MCNeverGrantable == {"browser_evaluate"}

(* Two rules match a listed snapshot: the more restrictive one must win.   *)
MCRules ==
  {[tool |-> "browser_click", matches |-> {"listed"}, tier |-> "reversible"],
   [tool |-> "browser_snapshot", matches |-> {"listed"}, tier |-> "sensitive"],
   [tool |-> "browser_snapshot", matches |-> MCArgs, tier |-> "read"]}

CallOf(tool, args) == [name |-> tool, args |-> args]

Snapshot == CallOf("browser_snapshot", "plain")
Click    == CallOf("browser_click", "plain")
Evaluate == CallOf("browser_evaluate", "plain")

(* An automatic turn, one that pauses, a mixed one, and two that a rule    *)
(* moves from one tier to another.                                         *)
MCProposals ==
  {{Snapshot}, {Click}, {Snapshot, Evaluate},
   {CallOf("browser_click", "listed")}, {CallOf("browser_snapshot", "listed")}}

MCSlashCalls == {Snapshot, Click}

(* Two requests at once multiply the states: two proposals suffice, one    *)
(* that a grant makes automatic and one that no grant does.                *)
MCPairProposals == {{Click}, {Evaluate}}

(* Requests are interchangeable.                                           *)
RequestSymmetry == Permutations(Requests)

=============================================================================
