-------------------------- MODULE MCTeammateMailbox --------------------------
(***************************************************************************)
(* A small instance of TeammateMailbox: three messages into the inbox of   *)
(* an in-process teammate, with or without the attachments of its turns,   *)
(* of a session with polls and attachments, or of a print session.         *)
(***************************************************************************)
EXTENDS TeammateMailbox

CONSTANTS peer, lead, shutdown, permission, runner, poll, attach, print

MCKind == [m \in Messages |->
             CASE m = peer -> "peer" [] m = lead -> "lead"
               [] m = shutdown -> "shutdown" [] m = permission -> "permission"]
MCRole == [c \in Consumers |->
             CASE c = runner -> "runner" [] c = poll -> "poller"
               [] c = attach -> "attachments" [] c = print -> "print"]
MCOwners == {{runner}, {runner, attach}, {poll, attach}, {print}}

\* Three messages for the loop of a teammate.  The other readers treat shutdown
\* requests and permission answers alike, and get one of them.
TwoForOthers == owners # {runner} => pc'[shutdown] = "idle"
MailboxSpec == Init /\ [][Next /\ TwoForOthers]_vars /\ Fairness
==============================================================================
