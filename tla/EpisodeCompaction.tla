-------------------------- MODULE EpisodeCompaction --------------------------
(***************************************************************************)
(* _apply_episode_compaction of services/langgraph-agent/app/graph.py:     *)
(* which messages of the conversation the model still reads.  A message is *)
(* its index, from 0; a plan is the sequence of its subtasks' statuses;    *)
(* starts is subtask_message_start.                                        *)
(***************************************************************************)
EXTENDS Naturals, Sequences

CONSTANT EpisodeCompactionTurnThreshold  (* messages before anything is compacted *)

Status == {"a_faire", "en_cours", "fait"}

Active(plan) == {i \in DOMAIN plan : plan[i] = "en_cours"}

(* _active_subtask_index                                                   *)
ActiveSubtaskIndex(plan) == CHOOSE i \in Active(plan) : \A j \in Active(plan) : i <= j

(* Where the active subtask's messages begin.                              *)
Limit(count, plan, starts) ==
  IF Active(plan) # {} /\ ActiveSubtaskIndex(plan) \in DOMAIN starts
  THEN starts[ActiveSubtaskIndex(plan)]
  ELSE count

(* Faulty variant: the message the subtask was planned in goes with it.    *)
SubtaskRangeEarly(i, count, plan, starts) ==
  {m \in 0..(count - 1) :
     /\ starts[i] <= m + 1
     /\ m < Limit(count, plan, starts)
     /\ i + 1 \in DOMAIN starts => m < starts[i + 1]}

(* The messages of one subtask.                                            *)
SubtaskRange(i, count, plan, starts) ==
  {m \in 0..(count - 1) :
     /\ starts[i] <= m
     /\ m < Limit(count, plan, starts)
     /\ i + 1 \in DOMAIN starts => m < starts[i + 1]}

(* Messages replaced by the summary of a completed subtask.                *)
Compacted(count, plan, starts) ==
  IF count <= EpisodeCompactionTurnThreshold THEN {}
  ELSE UNION {SubtaskRange(i, count, plan, starts) :
                i \in {j \in DOMAIN starts \cap DOMAIN plan : plan[j] = "fait"}}

=============================================================================
