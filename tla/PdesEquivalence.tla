--------------------------- MODULE PdesEquivalence ---------------------------
(***************************************************************************)
(* run_threaded beside its oracle: the same program is first run by        *)
(* run_sequential and then, on fresh shards, by run_threaded.              *)
(***************************************************************************)
EXTENDS PdesThreads

VARIABLES
  oNow, oHeap, oEid, oPending, oMail, oSequence, oBody, oTrace, oRaised,
  oStage, oIndex, oBounds, oHorizon, oWindow, oSyncError

Oracle == INSTANCE PdesSequential WITH
  now <- oNow, heap <- oHeap, eid <- oEid, pending <- oPending, mail <- oMail,
  sequence <- oSequence, body <- oBody, trace <- oTrace, raised <- oRaised,
  stage <- oStage, index <- oIndex, bounds <- oBounds, horizon <- oHorizon,
  window <- oWindow, syncError <- oSyncError

oracleVars == <<oNow, oHeap, oEid, oPending, oMail, oSequence, oBody, oTrace, oRaised,
                oStage, oIndex, oBounds, oHorizon, oWindow, oSyncError>>
bothVars == <<vars, oracleVars>>

InitBoth == Init /\ Oracle!Init

OracleStep == Oracle!Next /\ UNCHANGED vars

ThreadsStep == Oracle!Finished /\ Next /\ UNCHANGED oracleVars

Both == Finished /\ UNCHANGED bothVars

NextBoth == OracleStep \/ ThreadsStep \/ Both

FairnessBoth ==
  /\ WF_bothVars(OracleStep)
  /\ \A s \in Shards : WF_bothVars(Oracle!Finished /\ ShardThread(s) /\ UNCHANGED oracleVars)
  /\ WF_bothVars(Oracle!Finished /\ CoordinatorThread /\ UNCHANGED oracleVars)

SpecBoth == InitBoth /\ [][NextBoth]_bothVars /\ FairnessBoth

-----------------------------------------------------------------------------
\* The sequential oracle, too, runs the safe-window algorithm.
OracleImplementsRounds == Oracle!ImplementsRounds

OracleReturned == oStage = "returned"

\* Bitwise trace equivalence: however the threads interleave, each shard
\* processes the same events, with the same times, priorities, event ids and
\* arrivals, in the same order as in the sequential run - at every moment a
\* prefix of it, and all of it when run_threaded returns.
TracesAgree ==
  OracleReturned =>
    \A s \in Shards :
      /\ Len(trace[s]) <= Len(oTrace[s])
      /\ trace[s] = SubSeq(oTrace[s], 1, Len(trace[s]))
      /\ outcome = Returned => Len(trace[s]) = Len(oTrace[s])

\* The threads fail exactly when the oracle does.
SameVerdict == Finished => (outcome = Returned <=> OracleReturned)

\* The threads blame the shard whose exception the oracle raises.
SameBlame ==
  Finished => \A s \in Shards : oRaised[s] # NoError => outcome.shard = s

\* A LookaheadError of a running shard is reported like any other failure of
\* a run: wrapped in a ShardError that names the shard.
RunFailuresWrapped ==
  Finished /\ wired => outcome.result \in {"returned", "ShardError", "horizon"}
=============================================================================
