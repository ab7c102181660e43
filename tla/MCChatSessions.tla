--------------------------- MODULE MCChatSessions ---------------------------
EXTENDS ChatSessions, TLC

Symmetry == Permutations(Logins) \cup Permutations(Visits) \cup Permutations(Users)
=============================================================================
