-------------------------- MODULE MCPriorityQueue --------------------------
(* PriorityQueue for TLC: the tasks, and one more of them than there are slots. *)
EXTENDS PriorityQueue

MCTasks == {[priority |-> ADMIN, taskId |-> 2], [priority |-> ADMIN, taskId |-> 5],
            [priority |-> USER, taskId |-> 1], [priority |-> USER, taskId |-> 3],
            [priority |-> USER, taskId |-> 4], [priority |-> USER, taskId |-> 6]}
=============================================================================
