---------------------------- MODULE MCConversations ----------------------------
(***************************************************************************)
(* A small instance of Conversations: one conversation, two users, and     *)
(* three things to say.                                                    *)
(***************************************************************************)
EXTENDS Conversations

CONSTANTS ann, bob, w1, w2, w3

MCAuthor == w1 :> ann @@ w2 :> ann @@ w3 :> bob

=============================================================================
