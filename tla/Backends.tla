------------------------------ MODULE Backends ------------------------------
(***************************************************************************)
(* The execution backends (parallel/backends.py): which executor a name    *)
(* stands for, what crosses its boundary, and where a pool may be nested.  *)
(* Values travel as the form they are encoded in; what fails to pickle is  *)
(* the value Unpicklable.                                                  *)
(***************************************************************************)
EXTENDS Integers

Kinds == {"threads", "interpreters", "processes"}
BackendNames == Kinds \cup {"auto"}

\* ExecutionBackend.resolve
ResolveBackend(name, gil) ==
    IF name # "auto" THEN name ELSE IF gil THEN "processes" ELSE "threads"

RequiresTransport(kind) == kind # "threads"
SharesToken(kind) == kind = "threads"

\* OffloadPool._resolve_backend; worker: the kind of the Experiment worker
\* this runs in, or "none".  A pool that cannot be nested is refused.
BrokenNestings == {<<"interpreters", "processes">>}
PoolMode(name, worker, gil) ==
    CASE name = "inline" \/ (name = "auto" /\ worker # "none") -> "inline"
      [] name = "auto" /\ worker = "none" -> ResolveBackend(name, gil)
      [] <<worker, name>> \in BrokenNestings -> "refused"
      [] OTHER -> name

\* The forms of a payload on its way back (_encode_payload, _decode_payload,
\* ReplicationResult.value): decoding undoes what encoding did, if told the same.
Unpicklable == "unpicklable"
Pickles(value) == value # Unpicklable

Encode(value, transport, spool) ==
    [form |-> IF spool THEN "zstd" ELSE IF transport THEN "pickle" ELSE "raw",
     of |-> value]

Decode(payload, transported, spooled) ==
    LET form == IF spooled THEN "zstd" ELSE IF transported THEN "pickle" ELSE "raw"
    IN  IF form = payload.form THEN payload.of
        ELSE IF form = "raw" THEN payload.form ELSE "corrupt"

=============================================================================
