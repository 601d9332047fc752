---------------------------- MODULE MCConversation --------------------------
(* Small instances of Conversation for TLC.                                *)
EXTENDS Conversation, TLC

Symmetry == Permutations(Client) \cup Permutations(Key) \cup Permutations(Conv)
                \cup Permutations(Project) \cup Permutations(Content)
=============================================================================
