--------------------------- MODULE ApprovalPolicy ---------------------------
(***************************************************************************)
(* The reversibility tiers of services/langgraph-agent/app/                *)
(* approval_policy.py: which tool calls may run without asking a human.    *)
(* A call is a tool name with its arguments; what a rule looks at in the   *)
(* arguments is abstracted to a member of Args.                            *)
(***************************************************************************)
EXTENDS Integers, FiniteSets

CONSTANTS
  Tools,                (* tool names the model may call                    *)
  Args,                 (* classes of arguments a rule can tell apart       *)
  ManagePlanTool,       (* name of the local planning tool                  *)
  TierReadTools,        (* TIER_READ_TOOLS                                  *)
  TierReversibleTools,  (* TIER_REVERSIBLE_TOOLS                            *)
  AutoApprovedTools,    (* AUTO_APPROVED_TOOLS, the backward-compatible list*)
  NeverGrantableTools,  (* NEVER_GRANTABLE_TOOLS                            *)
  Rules                 (* RULES: argument rules, from APPROVAL_RULES_PATH  *)

Tiers == {"read", "reversible", "sensitive"}

TierRank == [read |-> 0, reversible |-> 1, sensitive |-> 2]

Call == [name : Tools, args : Args]

(* A rule names a tool, the argument classes its matcher accepts, a tier.  *)
Rule == [tool : Tools, matches : SUBSET Args, tier : Tiers]

ASSUME PolicyAssumption ==
  /\ Rules \subseteq Rule
  /\ NeverGrantableTools \subseteq Tools

-----------------------------------------------------------------------------

MatchingTiers(c) ==
  {rule.tier : rule \in {x \in Rules : x.tool = c.name /\ c.args \in x.matches}}

(* Several rules may match: the most restrictive tier wins.                *)
MostRestrictive(tiers) ==
  CHOOSE t \in tiers : \A u \in tiers : TierRank[u] <= TierRank[t]

ToolTier(tool) ==
  IF tool = ManagePlanTool \/ tool \in TierReadTools THEN "read"
  ELSE IF tool \in TierReversibleTools \cup AutoApprovedTools THEN "reversible"
  ELSE "sensitive"

(* A matching rule replaces the tool's static tier, it is not added to it. *)
ResolvedTier(c) ==
  IF MatchingTiers(c) # {} THEN MostRestrictive(MatchingTiers(c))
                           ELSE ToolTier(c.name)

(* Faulty variant: a grant that covers every tool.                         *)
EffectiveTierGrantsAll(c, grants) ==
  IF ResolvedTier(c) = "sensitive" /\ c.name \in grants
  THEN "reversible" ELSE ResolvedTier(c)

(* A session grant relaxes sensitive to reversible, and nothing else.      *)
EffectiveTier(c, grants) ==
  IF /\ ResolvedTier(c) = "sensitive"
     /\ c.name \in grants
     /\ c.name \notin NeverGrantableTools
  THEN "reversible"
  ELSE ResolvedTier(c)

IsAutoApproved(c, grants) == EffectiveTier(c, grants) \in {"read", "reversible"}

=============================================================================
