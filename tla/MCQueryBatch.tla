---------------------------- MODULE MCQueryBatch ----------------------------
(***************************************************************************)
(* QueryBatch for TLC: all files of up to four lines, of which there are a *)
(* query of each length that matters, an administrator's, a comment that   *)
(* is too long for the runner, and the lines that are no query.            *)
(***************************************************************************)
EXTENDS QueryBatch

MCLines == {[kind |-> "query", length |-> 1], [kind |-> "query", length |-> 3],
            [kind |-> "admin", length |-> 1], [kind |-> "comment", length |-> 2],
            [kind |-> "SHUTDOWN", length |-> 1], [kind |-> "mention", length |-> 1],
            [kind |-> "empty", length |-> 1]}

MCFiles == UNION {[1 .. n -> MCLines] : n \in 0 .. 4}
=============================================================================
