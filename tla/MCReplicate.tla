---------------------------- MODULE MCReplicate ----------------------------
(***************************************************************************)
(* Studies of two or three replications on each kind of backend.           *)
(***************************************************************************)
EXTENDS ReplicateProofs

Study(name, spool, aware, configs, outcomes) ==
    [kind |-> ResolveBackend(name, TRUE), spool |-> spool, aware |-> aware,
     configs |-> configs, outcomes |-> outcomes]

Values == {"value", "raises", Unpicklable}
Mixed(name) == {Study(name, FALSE, FALSE, {"config"}, o) : o \in [1 .. 2 -> Values]}

MCStudies ==
    UNION {Mixed(name) : name \in {"threads", "auto", "interpreters"}}
    \cup {Study("threads", TRUE, TRUE, {Unpicklable}, <<"value", "value", "raises">>),
          Study("processes", TRUE, FALSE, {"config"}, <<"value", "value", "raises">>),
          Study("interpreters", FALSE, FALSE, {"config", Unpicklable}, <<"value">>)}

\* The study of the run `cancelled`: nothing of it fails by itself.
Sound == {Study("threads", FALSE, FALSE, {"config"}, <<"value", "value">>)}
=============================================================================
