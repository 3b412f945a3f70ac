---------------------------- MODULE MCIndexSessions ----------------------------
(***************************************************************************)
(* A server that watches, with two threads for tools on its own connection.*)
(***************************************************************************)
EXTENDS IndexSessions

ServerAndCommand ==
    [p \in Procs |-> CASE p \in Watchers -> "watch" [] p \in Commands -> "cli" [] OTHER -> "server"]

ToolRequests ==
    [p \in Tools \cup Commands |->
        CASE p = "tool1" -> {"undo", "files", "vectors"}
          [] p = "tool2" -> {"query", "move", "mail"}
          [] OTHER -> {"build"}]
=============================================================================
