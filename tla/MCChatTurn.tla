----------------------------- MODULE MCChatTurn -----------------------------
EXTENDS ChatTurn
MCMessages == {"ask", "yes", "no"}
=============================================================================
