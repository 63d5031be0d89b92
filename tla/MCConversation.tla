--------------------------- MODULE MCConversation ---------------------------
(* Instance of Conversation for TLC: answers of a call that have room for  *)
(* one fold and its answer, budgets that both run out, and a history of    *)
(* three rounds.                                                           *)
EXTENDS Conversation

=============================================================================
