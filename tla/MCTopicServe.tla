---------------------------- MODULE MCTopicServe -----------------------------
(***************************************************************************)
(* A small instance of TopicServe for TLC.                                 *)
(***************************************************************************)
EXTENDS TopicServe

Bound(f) == [e \in Event |-> IF e \in DOMAIN f THEN f[e] ELSE 0]

(* People and machines misbehave a little.                                 *)
Rough == Bound([say |-> 2, decide |-> 1, resolve_record |-> 1, resolve_midway |-> 1,
                resolve_origin |-> 1, mix_origin |-> 1, delete |-> 1, fail |-> 1, kill |-> 1])
=============================================================================
