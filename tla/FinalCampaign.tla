---------------------------- MODULE FinalCampaign ----------------------------
(***************************************************************************)
(* experiments/final_matrix.py around ExperimentRun: the campaign runs its  *)
(* planned runs one after the other, analyzes each (analysis/analyze.py)    *)
(* and stops at the first that is not admitted; analysis/final_campaign.py  *)
(* then decides whether the campaign can be reported.                       *)
(***************************************************************************)
EXTENDS ExperimentRun

CONSTANT Planned  \* unique_executed_runs

ASSUME PlannedAssumption == Planned \in Nat \ {0}

VARIABLES
    cpc,       \* where execute_campaign is
    plan,      \* the worktree campaign_manifest.json names
    admitted,  \* what is kept of the runs whose admission was appended
    outcome,   \* status in campaign_summary.json; "none" without that file
    accepted   \* final_campaign.py accepted the campaign

campaign == <<cpc, plan, admitted, outcome, accepted>>
vars == <<run, campaign>>

Init ==
    /\ RunInit
    /\ cpc = "planning"
    /\ plan = "none"
    /\ admitted = << >>
    /\ outcome = "none"
    /\ accepted = FALSE

\* build_campaign_plan, and the refusal of a dirty worktree.
Plans ==
    /\ cpc = "planning"
    /\ cpc' = IF Dirty(tree) THEN "ended" ELSE "running"
    /\ plan' = IF Dirty(tree) THEN plan ELSE tree
    /\ UNCHANGED <<run, admitted, outcome, accepted>>

Runs(A) == cpc = "running" /\ A /\ UNCHANGED campaign

\* run_once raised: the campaign ends with the exception and no summary.
RunFails ==
    /\ cpc = "running"
    /\ rpc = "raised"
    /\ cpc' = "ended"
    /\ UNCHANGED <<run, plan, admitted, outcome, accepted>>

\* load_run refuses a run without evidence of success.
Loadable ==
    /\ summary = "success"
    /\ \A c \in Child : rc[c] = "ok"
    /\ file["simulator"] = "complete"

\* _scientific_admission: the gates on what this model has.
ScientificAdmission ==
    /\ ~Dirty(manifest) /\ ~Dirty(tree)
    /\ file["gateway"] = "complete" /\ file["collector"] = "complete"
    /\ flow.dropped = 0
    /\ flow.abandoned = 0
    /\ flow.sent = flow.counted

\* Lines stand for readings here: no record is appended twice, since one is sent
\* again only after a connection that ended at a line that was not appended.
Evidence ==
    [manifest |-> manifest, passed |-> ScientificAdmission,
     missing |-> flow.accepted + flow.dropped - flow.got,
     unwritten |-> flow.counted - flow.got,
     strayed |-> strayed, moved |-> moved]

\* The next run starts from scratch.
NewRun ==
    /\ rpc' = "idle" /\ cur' = "collector" /\ signalled' = "none" /\ waited' = 0
    /\ status' = "failed" /\ cut' = FALSE
    /\ manifest' = "none" /\ summary' = "none"
    /\ proc' = [c \in Child |-> "none"] /\ rc' = [c \in Child |-> "none"]
    /\ file' = [c \in Child |-> "none"] /\ draining' = 0
    /\ flow' = NoFlow /\ conn' = "none"
    /\ strayed' = FALSE /\ moved' = FALSE
    /\ UNCHANGED <<tree, mishaps>>

\* analyze_run after a successful run: its admission is appended; the campaign
\* goes on with the next run, or ends with a summary.
Analyzes ==
    /\ cpc = "running"
    /\ rpc = "returned"
    /\ Loadable
    /\ admitted' = Append(admitted, Evidence)
    /\ \/ /\ ~ScientificAdmission
          /\ outcome' = "admission_failed" /\ cpc' = "ended" /\ UNCHANGED run
       \/ /\ ScientificAdmission /\ Len(admitted) + 1 = Planned
          /\ outcome' = "success" /\ cpc' = "ended" /\ UNCHANGED run
       \/ /\ ScientificAdmission /\ Len(admitted) + 1 < Planned
          /\ UNCHANGED <<outcome, cpc>> /\ NewRun
    /\ UNCHANGED <<plan, accepted>>

\* _validate_campaign_headers
ValidHeaders ==
    /\ outcome = "success"
    /\ plan = "frozen"
    /\ Len(admitted) = Planned

\* The mutant takes the admission for the whole check.
ValidRunAdmitted(e) == e.passed

\* _load_run of the campaign analysis.
ValidRun(e) ==
    /\ Commit(e.manifest) = Commit(plan)
    /\ ~Dirty(e.manifest)
    /\ e.passed

Accepts ==
    /\ cpc = "ended"
    /\ ~accepted
    /\ ValidHeaders
    /\ \A i \in DOMAIN admitted : ValidRun(admitted[i])
    /\ accepted' = TRUE
    /\ UNCHANGED <<run, cpc, plan, admitted, outcome>>

Next ==
    \/ Plans
    \/ Runs(RunnerStep)
    \/ Runs(Tick)
    \/ Runs(CtrlC)
    \/ Runs(~Over /\ ProcessStep)
    \/ Runs(WorktreeChanges)
    \/ RunFails
    \/ Analyzes
    \/ Accepts

\* The runner's event loop runs, and so does the clock; nothing is assumed of
\* the processes it controls.
Spec == Init /\ [][Next]_vars /\ WF_vars(Runs(RunnerStep)) /\ WF_vars(Runs(Tick))

-----------------------------------------------------------------------------

\* What the report is built on: an accepted campaign has all planned runs, each
\* with every reading that reached the gateway collected, but for as many as the
\* collector counted and could not append to its output, which the gates do not
\* look at; and each executed by the frozen commit - unless somebody changed the
\* worktree during that run, which neither the manifest, written before the
\* processes start, nor the analysis after it can see.
AcceptedCampaignSound ==
    accepted =>
       /\ Len(admitted) = Planned
       /\ \A i \in DOMAIN admitted :
             LET e == admitted[i] IN
             /\ e.missing = e.unwritten
             /\ e.manifest = "frozen"
             /\ e.strayed => e.moved
=============================================================================
