----------------------------- MODULE MCSchedules -----------------------------
(* Three parts of the platform that must get on under fair scheduling and
   share no state: the observatory, the chain of datasets and the governance
   run.  `part` is the one a behaviour is about; the others keep one initial
   state, in which fairness asks nothing of them. *)
EXTENDS Integers, Sequences, FiniteSets

CONSTANTS Runs, Fingerprints, IssueLabels, Seeded, down, downInNamespace  \* Observatory
CONSTANTS Sources, Csv, Batch, Anchor, MaxBatches, MaxCsvLoads            \* DatasetChain
CONSTANTS Sides, Retries, MaxActive, MaxFaults                            \* GovernanceRun

VARIABLES part
VARIABLES firing, agent, trace, issues, labelIds, together
VARIABLES bronze, recent, told, silver, gold, updated, asked, run, stranded, setup
VARIABLES bot, secret, rotator, active, task, faults

observatoryVars == <<firing, agent, trace, issues, labelIds, together>>
chainVars == <<bronze, recent, told, silver, gold, updated, asked, run, stranded, setup>>
governanceVars == <<bot, secret, rotator, active, task, faults>>
vars == <<part, observatoryVars, chainVars, governanceVars>>

\* The fingerprint of one problem occurs in that of another.
Within(f, g) == f = g \/ (f = down /\ g = downInNamespace)

Observatory == INSTANCE Observatory
Chain == INSTANCE DatasetChain
Governance == INSTANCE GovernanceRun

ASSUME SchedulesAssumption ==
       /\ Observatory!SeededAssumption /\ Observatory!WithinAssumption
       /\ Chain!ChainAssumption /\ Governance!GovernanceAssumption

Init ==
    /\ part \in {"observatory", "chain", "governance"}
    /\ Observatory!Init /\ Chain!Init /\ Governance!Init
    /\ part # "observatory" => firing = {}

Next ==
    \/ /\ part = "observatory" /\ Observatory!Next
       /\ UNCHANGED <<part, chainVars, governanceVars>>
    \/ /\ part = "chain" /\ Chain!Next
       /\ UNCHANGED <<part, observatoryVars, governanceVars>>
    \/ /\ part = "governance" /\ Governance!Next
       /\ UNCHANGED <<part, observatoryVars, chainVars>>

\* As Governance!Fairness, in the behaviours that are about it.
Governed == part = "governance"
GovernanceFairness ==
    /\ WF_governanceVars(Governed /\ Governance!ReadToken)
    /\ WF_governanceVars(Governed /\ Governance!PatchPrimary)
    /\ WF_governanceVars(Governed /\ Governance!PatchMirror)
    /\ WF_governanceVars(Governed /\ Governance!CreateRun)
    /\ WF_governanceVars(Governed /\ Governance!FinishRun)
    /\ \A t \in Governance!Tasks :
          /\ WF_governanceVars(Governed /\ Governance!StartTry(t))
          /\ WF_governanceVars(Governed /\ Governance!UpstreamFailed(t))
          /\ WF_governanceVars(Governed /\ Governance!TimesOut(t))
          /\ WF_governanceVars(Governed /\ (Governance!TrySucceeds(t) \/ Governance!TryFails(t)))

Spec == Init /\ [][Next]_vars /\ Observatory!Fairness /\ Chain!Fairness /\ GovernanceFairness

\* The type invariants of the three modules.
SchedulesTypeOK ==
    Observatory!ObservatoryTypeOK /\ Chain!ChainTypeOK /\ Governance!GovernanceTypeOK

\* Observatory: two issues on one fingerprint come from overlapping runs.
OneIssuePerFingerprint == Observatory!OneIssuePerFingerprint

\* Observatory: a run does not stay "running".
RunsReachAnEnd == Observatory!RunsReachAnEnd

\* DatasetChain: announced rows arrive in silver; a smooth bootstrap ends with
\* filled marts.
SilverFollowsBronze == Chain!SilverFollowsBronze
SetupBuildsMarts == Chain!SetupBuildsMarts

\* GovernanceRun: the governance run recovers from faults by itself.
GovernanceRecovers == part = "governance" => Governance!GovernanceRecovers
=============================================================================
