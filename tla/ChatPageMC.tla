------------------------------ MODULE ChatPageMC ------------------------------
(* Small instances of ChatPage: two conversations, of which one exists when  *)
(* the page is loaded, and three users.                                      *)
EXTENDS ChatPage

CONSTANTS talk1, talk2   \* conversations

OneConversation == {talk1}
TwoConversations == {talk1, talk2}

VARIABLE user   \* asks two questions, or one beside an import, or beside a search

AsksOnce == \A r \in Runs \ {1} : chatRun'[r] = NoQuestion
Never(kinds) == \A c \in calls' : c.kind \notin kinds
Keeps ==
  \/ user = "asks" /\ Never({"create", "confirm", "search", "delete"})
  \/ user = "imports" /\ AsksOnce /\ Never({"search"})
  \/ user = "searches" /\ AsksOnce /\ Never({"confirm"})

UserInit == PageInit /\ user \in {"asks", "imports", "searches"}
UserNext == PageNext /\ Keeps /\ UNCHANGED user
===============================================================================
