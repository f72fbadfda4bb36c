--------------------------- MODULE MCProcessBatch ---------------------------
(* Two groups; this client, a user with two devices and one with one.      *)
EXTENDS ProcessBatch

MCGroups == <<"g1", "g2">>
MCMembers == {"self", "bob1", "bob2", "eve"}
MCMoving == {"self", "bob1", "bob2"}
MCMessages == [g \in {"g1", "g2"} |-> IF g = "g1" THEN 3 ELSE 0]
MCJid == [m \in MCMembers |-> CASE m = "self" -> "me" [] m = "eve" -> "eve" [] OTHER -> "bob"]
=============================================================================
