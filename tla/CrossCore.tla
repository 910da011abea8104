----------------------------- MODULE CrossCore -----------------------------
(***************************************************************************)
(* What the CAN task on core 1 and the tasks of core 0 do to each other     *)
(* outside the rules and the diagnostic job: the gateway's statistics, the  *)
(* words of a diagnostic result, decoded signals and the change of the DBC, *)
(* the observation tables, the frame cache, the trace queue, the replay     *)
(* engine, and the handshake before deep sleep. They share no state, and no *)
(* step of one reads another, so a behaviour looks at one of them and the   *)
(* rest stays as it began.                                                  *)
(***************************************************************************)
EXTENDS StatsSnapshot, ResultWords, DecodePath, ObservationTables, FrameCache, CanTrace, Replay,
        ParkedPower

VARIABLE focus   \* the one looked at

Init ==
    /\ StatsInit /\ ResultInit /\ DecodeInit /\ ObservationInit
    /\ FrameCacheInit /\ TraceInit /\ ReplayInit /\ ParkedInit
    /\ focus \in {"statistics", "result", "signals", "observation", "frames", "trace", "replay",
                  "parked"}
    /\ focus # "parked" => poweredOn

Looks(at) == focus = at /\ UNCHANGED focus

Statistics ==
    /\ Looks("statistics") /\ StatsNext
    /\ UNCHANGED <<resultVars, decodeVars, observationVars, frameCacheVars,
                   traceVars, replayVars, parkedVars>>
Results ==
    /\ Looks("result") /\ ResultNext
    /\ UNCHANGED <<statsVars, decodeVars, observationVars, frameCacheVars,
                   traceVars, replayVars, parkedVars>>
Signals ==
    /\ Looks("signals") /\ DecodeNext
    /\ UNCHANGED <<statsVars, resultVars, observationVars, frameCacheVars,
                   traceVars, replayVars, parkedVars>>
Observation ==
    /\ Looks("observation") /\ ObservationNext
    /\ UNCHANGED <<statsVars, resultVars, decodeVars, frameCacheVars,
                   traceVars, replayVars, parkedVars>>
Frames ==
    /\ Looks("frames") /\ FrameCacheNext
    /\ UNCHANGED <<statsVars, resultVars, decodeVars, observationVars,
                   traceVars, replayVars, parkedVars>>
Trace ==
    /\ Looks("trace") /\ TraceNext
    /\ UNCHANGED <<statsVars, resultVars, decodeVars, observationVars,
                   frameCacheVars, replayVars, parkedVars>>
Replays ==
    /\ Looks("replay") /\ ReplayNext
    /\ UNCHANGED <<statsVars, resultVars, decodeVars, observationVars,
                   frameCacheVars, traceVars, parkedVars>>
Parked ==
    /\ Looks("parked") /\ ParkedNext
    /\ UNCHANGED <<statsVars, resultVars, decodeVars, observationVars,
                   frameCacheVars, traceVars, replayVars>>

Next ==
    \/ Statistics \/ Results \/ Signals \/ Observation
    \/ Frames \/ Trace \/ Replays \/ Parked

vars == <<statsVars, resultVars, decodeVars, observationVars, frameCacheVars, traceVars,
          replayVars, parkedVars, focus>>
Spec == Init /\ [][Next]_vars
-----------------------------------------------------------------------------
\* Every variable of the eight keeps to its type.
CrossCoreTypeOK ==
    /\ StatsTypeOK /\ ResultTypeOK /\ DecodeTypeOK /\ ObservationTypeOK
    /\ FrameCacheTypeOK /\ TraceTypeOK /\ ReplayTypeOK /\ ParkedTypeOK

\* gateway.cpp:281-293, diagnostic_transport.cpp:240-263, signal_cache.cpp:191-220,
\* frame_cache.cpp:129-319: what a reader gets from any of them is what one writer
\* put there at one time, and the frames of the cache are the last of their
\* identities.
ReadsAreWhole ==
    /\ StatsAreWhole /\ ResultsAreWhole /\ SignalReadsAreWhole
    /\ CopiesAreWhole /\ EntriesAgree
=============================================================================
