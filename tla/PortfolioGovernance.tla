------------------------ MODULE PortfolioGovernance ------------------------
(***************************************************************************)
(* The three authorities a candidate passes before it may be promoted      *)
(* (learning/portfolio_governance.rs): the PETFC assessment of a           *)
(* trajectory of checkpoints, the offline gate, and the staged canary.     *)
(* Each judges paired evaluation reports; each result is a sealed value    *)
(* that the caller carries to the next, in whatever order it calls them.   *)
(*                                                                         *)
(* A report is the candidate, the evidence it observed (the caller labels  *)
(* each piece with a group and a window of ticks), and per metric an       *)
(* interval of the effect and whether the hard invariant is held, open or  *)
(* violated.  A digest is the value it seals, so a gate, an assessment and *)
(* a canary state hold the reports they are about.  One metric catalogue   *)
(* and one policy of each kind are in use; the numbers of the PETFC path   *)
(* (length, tortuosity, waste, conservation, utility) are one verdict,     *)
(* "within", "exceeded" or "unidentified", chosen freely.                  *)
(***************************************************************************)
EXTENDS Integers, FiniteSets, Sequences, FiniteSetsExt, SequencesExt

CONSTANTS Baseline,        \* the variant the candidates are compared with
          Evaluation,      \* the arguments of the evaluations callers make
          Metric,          \* the metric catalogue
          Guarded,         \* the metrics with a hard invariant
          Quality,         \* PetfcPolicy::quality_metric_id
          Required,        \* CandidateGatePolicy::minimum_improvement
          GateGroups,      \* CandidateGatePolicy::minimum_independent_groups
          EvaluationGroups,\* RobustEvaluationPolicy::minimum_independent_groups
          Allowed,         \* CanaryPolicy::maximum_regression
          StageSeq,        \* the stage lists given to CanaryPolicy::new
          MinReports, MaxReports,  \* PetfcPathLimits
          MaxPoints,       \* MAX_TRAJECTORY_POINTS
          Subject,         \* canary subjects, named by their bucket
          Unsealed         \* no sealed value yet

ASSUME PolicyAssumption ==
    /\ Guarded \subseteq Metric /\ Quality \in Metric
    /\ Required \in [Metric -> Int] /\ Allowed \in [Metric -> Int]
    /\ {EvaluationGroups, GateGroups, MinReports, MaxReports, MaxPoints} \subseteq Nat
    /\ EvaluationGroups >= 2 /\ GateGroups >= EvaluationGroups
    /\ MinReports >= 2 /\ MaxReports >= MinReports /\ MaxReports < MaxPoints
    /\ Subject \subseteq Nat
    /\ \A s \in StageSeq : s \in Seq([exposure : Nat, groups : Nat])

\* Windows are of ticks, and do not end before they start; pairs are listed.
ASSUME EvaluationAssumption ==
    \A e \in Evaluation :
        /\ IsFiniteSet(e.units)
        /\ \A u \in e.units : u.start \in Nat /\ u.end \in Nat /\ u.start <= u.end
        /\ e.shows.lo \in [Metric -> Int] /\ e.shows.hi \in [Metric -> Int]

VARIABLES stages,      \* the canary policy in use
          trajectory,  \* the reports of the PETFC trajectory, oldest first
          petfc,       \* the last PETFC assessment
          gate,        \* the last gate decision
          canary       \* the canary state the caller holds

governanceVars == <<stages, trajectory, petfc, gate, canary>>

-----------------------------------------------------------------------------
(* A report, and what it shows. *)

\* evaluate_paired_groups: one pair is one group, one piece of evidence and one
\* window whichever metric it is observed for, and evidence is of one pair.
WellPaired(units) ==
    /\ units # {}
    /\ \A u, v \in units : u.pair = v.pair \/ u.evidence = v.evidence => u = v

\* The metrics are observed on the same pairs; shows is what their robust
\* estimates say: effect intervals lo .. hi and the hard invariants.
ReportOf(candidate, units, shows) ==
    [candidate |-> candidate, evidence |-> {u.evidence : u \in units},
     design |-> {u.group : u \in units},
     start |-> Min({u.start : u \in units}), end |-> Max({u.end : u \in units}),
     level |-> shows.level, base |-> shows.base, lo |-> shows.lo, hi |-> shows.hi]

Report == {ReportOf(i.candidate, i.units, i.shows) :
              i \in {j \in Evaluation : j.candidate # Baseline /\ WellPaired(j.units)}}

Groups(r) == Cardinality(r.design)

\* observed_radius: one group has no radius, and its intervals are unknown.
HasRadius(r) == Groups(r) >= 2

Sufficient(r) == Groups(r) >= EvaluationGroups

Violated(r) == HasRadius(r) /\ \E m \in Guarded : r.level[m] = "violated"

Unproven(r) == \E m \in Guarded : ~HasRadius(r) \/ r.level[m] = "open"

EvidenceOf(reports) == UNION {r.evidence : r \in reports}

Verdict == {"reject", "rollback", "unknown", "compatible", "advance"}

ASSUME UnsealedIsNoState ==
    Unsealed \notin [gate : [report : Report, verdict : Verdict],
                    phase : {"awaiting", "rollback", "validated"}, stage : Nat,
                    reports : SUBSET Report, evidence : SUBSET EvidenceOf(Report), end : Nat]

After(r, tick) == r.start > tick

-----------------------------------------------------------------------------
(* PETFC: the path of checkpoints, each compared with the same baseline. *)

Appendable(r) ==
    /\ Len(trajectory) + 1 < MaxPoints
    /\ r.design = Head(trajectory).design
    /\ EvidenceOf(Range(trajectory)) \cap r.evidence = {}
    /\ \A p \in Range(trajectory) : p.candidate # r.candidate
    /\ After(r, Last(trajectory).end)

\* Variant: the path is judged at its last checkpoint only.
HardAtTheEnd(reports) ==
    {r.candidate : r \in {p \in {Last(reports)} : Violated(p)}}

\* The reasons of an assessment.  The first point is the baseline as the
\* first report saw it, the others are the candidates.
HardReasons(reports) ==
    {r.candidate : r \in {p \in Range(reports) : Violated(p)}}
        \cup (IF HasRadius(Head(reports)) /\ Head(reports).base = "violated"
              THEN {Baseline} ELSE {})

NotImproved(reports) ==
    HasRadius(Last(reports)) /\ Last(reports).lo[Quality] <= 0

Undecided(reports) ==
    \/ Len(reports) < MinReports \/ Head(reports).base = "open"
    \/ \E r \in Range(reports) : ~Sufficient(r) \/ ~HasRadius(r) \/ Unproven(r)

PetfcVerdict(reports, geometry) ==
    LET hard == HardReasons(reports) IN
    IF Baseline \in hard THEN "reject"
    ELSE IF hard # {} THEN "rollback"
    ELSE IF NotImproved(reports) \/ geometry = "exceeded" THEN "reject"
    ELSE IF Undecided(reports) \/ geometry = "unidentified" THEN "unknown"
    ELSE "compatible"

-----------------------------------------------------------------------------
(* The offline gate. *)

Uncertain(r) ==
    \E m \in Metric : r.lo[m] < Required[m] /\ Required[m] <= r.hi[m]

GateVerdict(r) ==
    LET measured == Groups(r) >= GateGroups /\ HasRadius(r) IN
    IF Violated(r) \/ (measured /\ \E m \in Metric : r.hi[m] < Required[m])
    THEN "reject"
    ELSE IF Unproven(r) \/ ~measured \/ Uncertain(r) THEN "unknown"
    ELSE "advance"

-----------------------------------------------------------------------------
(* The canary. *)

\* Variant: the stages are not compared with one another.
StagesInAnyOrder(s) == s # <<>>

\* CanaryPolicy::new
ValidStages(s) ==
    /\ s # <<>> /\ \A i \in DOMAIN s : s[i].exposure > 0 /\ s[i].groups >= 2
    /\ \A i \in 1 .. Len(s) - 1 : /\ s[i].exposure < s[i + 1].exposure
                                  /\ s[i].groups <= s[i + 1].groups

Measured(r, stage) == Groups(r) >= stage.groups /\ HasRadius(r)

Regressed(r, stage) ==
    Measured(r, stage) /\ \E m \in Metric : r.hi[m] < 0 - Allowed[m]

Doubtful(r, stage) ==
    \/ Unproven(r) \/ ~Measured(r, stage)
    \/ \E m \in Metric : r.lo[m] < 0 - Allowed[m] /\ 0 - Allowed[m] <= r.hi[m]

\* Variant: the stage is advanced before the last one is told apart.
PhaseBeyond(c, r) ==
    IF Violated(r) \/ Regressed(r, stages[c.stage])
    THEN [phase |-> "rollback", stage |-> c.stage]
    ELSE IF Doubtful(r, stages[c.stage])
    THEN [phase |-> "awaiting", stage |-> c.stage]
    ELSE IF c.stage < Len(stages)
    THEN [phase |-> "awaiting", stage |-> c.stage + 1]
    ELSE [phase |-> "validated", stage |-> c.stage + 1]

\* The phase after report r at the stage the canary awaits.
NextPhase(c, r) ==
    IF Violated(r) \/ Regressed(r, stages[c.stage])
    THEN [phase |-> "rollback", stage |-> c.stage]
    ELSE IF Doubtful(r, stages[c.stage])
    THEN [phase |-> "awaiting", stage |-> c.stage]
    ELSE IF c.stage < Len(stages)
    THEN [phase |-> "awaiting", stage |-> c.stage + 1]
    ELSE [phase |-> "validated", stage |-> c.stage]

\* Variant: freshness is asked of the report, not of its evidence.
JudgeableByReport(c, r) ==
    /\ c.phase = "awaiting"
    /\ r.candidate = c.gate.report.candidate
    /\ r \notin c.reports
    /\ After(r, c.end)

\* evaluate_stage: what a report must be to be judged.
Judgeable(c, r) ==
    /\ c.phase = "awaiting"
    /\ r.candidate = c.gate.report.candidate
    /\ r \notin c.reports
    /\ c.evidence \cap r.evidence = {}
    /\ After(r, c.end)

\* subject_is_selected
Exposed(c) ==
    IF c = Unsealed \/ c.phase = "rollback" THEN {}
    ELSE {s \in Subject : s < stages[c.stage].exposure}

-----------------------------------------------------------------------------
(* What joins the authorities. *)

\* Variant: the evidence of the canary is compared with the gate's only.
PromotableByGate(g, p, c) ==
    /\ g.report.candidate = p.candidate
    /\ g.report.design = p.design
    /\ c.gate = g
    /\ g.verdict = "advance" /\ p.verdict = "compatible" /\ c.phase = "validated"
    /\ g.report.evidence \cap p.evidence = {}
    /\ p.end < g.report.start

\* Variant: any assessment of the candidate will do.
PromotableInAnyOrder(g, p, c) ==
    /\ g.report.candidate = p.candidate
    /\ c.gate = g
    /\ g.verdict = "advance" /\ p.verdict = "compatible" /\ c.phase = "validated"

\* authenticate_adapter_promotion_witnesses
Promotable(g, p, c) ==
    /\ g.report.candidate = p.candidate
    /\ g.report.design = p.design
    /\ c.gate = g
    /\ g.verdict = "advance" /\ p.verdict = "compatible" /\ c.phase = "validated"
    /\ c.reports # {}
    /\ g.report.evidence \cap p.evidence = {}
    /\ p.evidence \cap c.evidence = {}
    /\ g.report.evidence \subseteq c.evidence
    /\ Cardinality(c.evidence) > Cardinality(g.report.evidence)
    /\ p.end < g.report.start
    /\ c.end > g.report.end

\* ParetoCandidate::from_verified_gates
ParetoEligible(g, p) ==
    /\ g.verdict = "advance" /\ p.verdict = "compatible"
    /\ g.report.candidate = p.candidate
    /\ g.report.evidence \cap p.evidence = {}
    /\ g.report.end < p.start \/ g.report.start > p.end

-----------------------------------------------------------------------------
GovernanceInit ==
    /\ stages \in {s \in StageSeq : ValidStages(s)}
    /\ trajectory = <<>> /\ petfc = Unsealed /\ gate = Unsealed /\ canary = Unsealed

\* PetfcTrajectory::start
StartTrajectory(r) ==
    /\ trajectory' = <<r>>
    /\ UNCHANGED <<stages, petfc, gate, canary>>

\* PetfcTrajectory::append_report
AppendReport(r) ==
    /\ trajectory # <<>> /\ Appendable(r)
    /\ trajectory' = Append(trajectory, r)
    /\ UNCHANGED <<stages, petfc, gate, canary>>

EvaluatePetfc(geometry) ==
    /\ trajectory # <<>> /\ Len(trajectory) <= MaxReports
    /\ petfc' = [candidate |-> Last(trajectory).candidate,
                 design |-> Head(trajectory).design,
                 reports |-> trajectory,
                 evidence |-> EvidenceOf(Range(trajectory)),
                 start |-> Head(trajectory).start, end |-> Last(trajectory).end,
                 verdict |-> PetfcVerdict(trajectory, geometry)]
    /\ UNCHANGED <<stages, trajectory, gate, canary>>

DecideCandidate(r) ==
    /\ gate' = [report |-> r, verdict |-> GateVerdict(r)]
    /\ UNCHANGED <<stages, trajectory, petfc, canary>>

\* CanaryState::start
StartCanary ==
    /\ gate # Unsealed /\ gate.verdict = "advance"
    /\ canary' = [gate |-> gate, phase |-> "awaiting", stage |-> 1,
                  reports |-> {}, evidence |-> gate.report.evidence,
                  end |-> gate.report.end]
    /\ UNCHANGED <<stages, trajectory, petfc, gate>>

EvaluateStage(r) ==
    /\ canary # Unsealed /\ Judgeable(canary, r)
    /\ LET next == NextPhase(canary, r)
       IN canary' = [gate |-> canary.gate, phase |-> next.phase, stage |-> next.stage,
                     reports |-> canary.reports \cup {r},
                     evidence |-> canary.evidence \cup r.evidence, end |-> r.end]
    /\ UNCHANGED <<stages, trajectory, petfc, gate>>

GovernanceNext ==
    \/ \E r \in Report : \/ StartTrajectory(r) \/ AppendReport(r)
                         \/ DecideCandidate(r) \/ EvaluateStage(r)
    \/ \E geometry \in {"within", "exceeded", "unidentified"} : EvaluatePetfc(geometry)
    \/ StartCanary

GovernanceSpec == GovernanceInit /\ [][GovernanceNext]_governanceVars

-----------------------------------------------------------------------------
(* Properties. *)

\* Every value an authority seals has its shape, and a canary awaits, or ended
\* at, a stage its policy has.
GovernanceTypeOK ==
    /\ ValidStages(stages)
    /\ Len(trajectory) < MaxPoints /\ \A r \in Range(trajectory) : r.start <= r.end
    /\ petfc # Unsealed => petfc.verdict \in Verdict /\ petfc.start <= petfc.end
    /\ gate # Unsealed => gate.verdict \in Verdict
    /\ canary # Unsealed => /\ canary.stage \in DOMAIN stages
                        /\ canary.phase \in {"awaiting", "rollback", "validated"}
                        /\ canary.evidence = EvidenceOf(canary.reports \cup {canary.gate.report})

\* The reports a promotion rests on.
Behind(g, p, c) == Range(p.reports) \cup {g.report} \cup c.reports

CanPromote == /\ gate # Unsealed /\ petfc # Unsealed /\ canary # Unsealed
              /\ Promotable(gate, petfc, canary)

\* "This prevents one observation from satisfying multiple authorities under
\* different labels": in a chain that may be promoted no two reports share
\* evidence, and all of them are in one strict order of time, the trajectory
\* first, then the gate, then the canary, although no authority compares the
\* windows of more than two of them.
OneAuthorityPerObservation ==
    CanPromote =>
        /\ \A r, s \in Behind(gate, petfc, canary) :
              r # s => /\ r.evidence \cap s.evidence = {}
                       /\ r.end < s.start \/ s.end < r.start
        /\ \A r \in Range(petfc.reports) : r.end < gate.report.start
        /\ \A r \in canary.reports : gate.report.end < r.start

\* Nothing undecided becomes an approval: every report behind a promotion,
\* those of earlier checkpoints of the trajectory included, was measured on
\* enough groups and shows every hard invariant held, the gate's and the
\* trajectory's on as many groups as the evaluation policy asks.
NothingUnprovenIsPromoted ==
    CanPromote =>
        /\ \A r \in Range(petfc.reports) \cup {gate.report} :
              Sufficient(r) /\ ~Violated(r) /\ ~Unproven(r)
        /\ \A m \in Metric : gate.report.lo[m] >= Required[m]

\* A validated canary passed each of its stages on a report of its own, in the
\* order of time, and none of the reports it was ever shown was a violation or
\* a definite regression: an inconclusive report is spent, never erased.
ValidatedOnEveryStage ==
    canary # Unsealed /\ canary.phase = "validated" =>
        \E passed \in [DOMAIN stages -> canary.reports] :
            /\ \A i \in DOMAIN stages :
                  ~Doubtful(passed[i], stages[i]) /\ ~Unproven(passed[i])
            /\ \A i \in DOMAIN stages, j \in DOMAIN stages :
                  i < j => /\ passed[i].end < passed[j].start
                           /\ passed[i].evidence \cap passed[j].evidence = {}
            /\ \A r \in canary.reports :
                  /\ ~Violated(r)
                  /\ r.evidence \cap canary.gate.report.evidence = {}

\* A subject that meets the candidate keeps meeting it until a rollback, which
\* spares every subject: exposure never moves to other subjects.
ExposureOnlyGrows ==
    [][canary # Unsealed /\ canary'.gate = canary.gate /\ canary'.reports # {} =>
          \/ Exposed(canary) \subseteq Exposed(canary')
          \/ canary'.phase = "rollback" /\ Exposed(canary') = {}]_canary

\* The promotion and the Pareto selection judge one chain alike: what may be
\* promoted was eligible for selection.
PromotableIsEligible == CanPromote => ParetoEligible(gate, petfc)

\* Nothing is promoted on evidence that any authority before it would have
\* refused or left undecided, or that two of them were shown.
PromotionsAreEarned ==
    GovernanceTypeOK /\ NothingUnprovenIsPromoted /\ PromotableIsEligible /\ OneAuthorityPerObservation

\* A canary is validated stage by stage, and meanwhile keeps its subjects.
CanaryIsHonest == []ValidatedOnEveryStage /\ ExposureOnlyGrows
=============================================================================
