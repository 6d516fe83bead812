------------------------------ MODULE Offline -------------------------------
(***************************************************************************)
(* The programs of the study that run without the cluster, before and after *)
(* the campaigns, and the collection of one run's evidence.  Each is started *)
(* by hand and reads only finished files of the others, so one of them runs *)
(* at a time and the others stand still.                                    *)
(***************************************************************************)
EXTENDS Events, Clock, Evidence, Protocol, Analysis

CONSTANT Started  \* the programs that may be started on their own

VARIABLE program  \* the one that runs

datasetVars == <<suiteVars, mutationVars, matchingVars, eventTable>>
studyVars   == <<clockVars, evidenceVars, protocolVars, analysisVars>>
offlineVars == <<program, datasetVars, studyVars>>

OfflineInit ==
  /\ program \in Started
  /\ SuiteInit /\ MutationInit /\ MatchingInit /\ EventsInit
  /\ ClockInit /\ EvidenceInit /\ ProtocolInit /\ AnalysisInit

\* A program that reads the files of another is started when they are complete.
Proceed ==
  /\ \/ /\ program = "suite" /\ SuiteWritten /\ program' = "mutations"
        /\ SuiteExits /\ UNCHANGED matchingVars
     \/ /\ program = "matching" /\ DatasetWritten /\ program' = "events"
        /\ UNCHANGED <<suiteVars, matchingVars>>
  /\ UNCHANGED <<mutationVars, eventTable, studyVars>>

Dataset ==
  /\ UNCHANGED <<program, studyVars>>
  /\ \/ program = "suite" /\ SuiteNext /\ UNCHANGED <<mutationVars, matchingVars, eventTable>>
     \/ program = "mutations" /\ MutationNext /\ UNCHANGED <<suiteVars, matchingVars, eventTable>>
     \/ program = "matching" /\ MatchingNext /\ UNCHANGED <<suiteVars, mutationVars, eventTable>>
     \/ program = "events" /\ ProcessEvents /\ UNCHANGED <<suiteVars, mutationVars, matchingVars>>

Study ==
  /\ UNCHANGED <<program, datasetVars>>
  /\ \/ program = "clock" /\ ClockNext /\ UNCHANGED <<evidenceVars, protocolVars, analysisVars>>
     \/ program = "evidence" /\ EvidenceNext /\ UNCHANGED <<clockVars, protocolVars, analysisVars>>
     \/ program = "protocol" /\ ProtocolNext /\ UNCHANGED <<clockVars, evidenceVars, analysisVars>>
     \/ program = "analysis" /\ AnalysisNext /\ UNCHANGED <<clockVars, evidenceVars, protocolVars>>

OfflineNext == Proceed \/ Dataset \/ Study

OfflineSpec == OfflineInit /\ [][OfflineNext]_offlineVars
=============================================================================
