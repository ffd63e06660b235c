------------------------- MODULE StrategyEvolution --------------------------
(***************************************************************************)
(* Strategy evolution (evaluation/evolution.py, evaluation/attribution.py):*)
(* generations of candidate strategies, each measured on a training and a  *)
(* holdout split of the benchmark, of which one may become the next base.  *)
(*                                                                         *)
(* A strategy is its version name and, for each field, 0 for the default   *)
(* or the number of one of the values _MUTATIONS lists (for instructions:  *)
(* 1 with the recovery hint).  Every call of evaluate_live runs its cases  *)
(* anew, so that each measurement may give any possible score, also of a   *)
(* strategy that was measured before: the base is measured twice on the    *)
(* holdout tasks in each generation, once to be compared with and once as  *)
(* the first candidate.                                                    *)
(***************************************************************************)
EXTENDS CodingBenchmark

CONSTANTS
    Mutations,      \* the fields of _MUTATIONS in order, and their values:
                    \* a sequence of [field, values]
    Splits,         \* [train, holdout : the ids of the tasks]
    MaxCandidates,  \* --max-candidates
    Generations,    \* --generations
    EarlierTraces   \* traces --attribution-trace may name

HintedFields == {"instructions", "skill_top_k", "retry_max_retries"}
Fields == {Mutations[i].field : i \in DOMAIN Mutations} \cup HintedFields

ASSUME EvolutionAssumption ==
    /\ MaxCandidates \in Nat /\ Generations \in Nat \ {0}
    /\ Mutations \in Seq([field : STRING, values : Nat \ {0}])
    /\ Splits \in [{"train", "holdout"} -> Seq(STRING)]

VARIABLES
    extras,      \* extra_candidates
    base,        \* current
    generation,
    candidates,  \* of this generation
    base_holdout,  \* this generation's holdout scores of the base, or NoScores
    results,     \* the generation's measured candidates so far
    status       \* "base", "candidates", "saved", "failed"

evolutionVars == <<extras, base, generation, candidates, base_holdout,
                   results, status>>

Default == [version |-> <<"v1", "", 0>>, knobs |-> [f \in Fields |-> 0]]
With(s, kind, field, value) ==
    [version |-> <<kind, field, value>>, knobs |-> [s.knobs EXCEPT ![field] = value]]

-----------------------------------------------------------------------------
(* generate_candidates: the base first, then one change of one field. *)
Changes ==
    FoldLeft(LAMBDA cs, m : cs \o [v \in 1..m.values |-> <<m.field, v>>],
             <<>>, Mutations)

GenerateCandidates(b) ==
    LET Add(cs, c) == IF b.knobs[c[1]] = c[2] THEN cs
                      ELSE Append(cs, With(b, "cand", c[1], c[2]))
        all == FoldLeft(Add, <<b>>, Changes)
    IN  SubSeq(all, 1, IF Len(all) <= Larger(1, MaxCandidates) THEN Len(all)
                       ELSE Larger(1, MaxCandidates))

(***************************************************************************)
(* generate_attribution_candidates: a hint for failed tools, more skills   *)
(* when less than half of the failures recovered, three retries, the       *)
(* second value of _MUTATIONS, for timeouts and failing handlers.          *)
(***************************************************************************)
AttributionCandidates(b, trace) ==
    LET a == Attribution(trace)
    IN  (IF a.failed_tools # {} THEN <<With(b, "attr", "instructions", 1)>> ELSE <<>>)
        \o (IF a.recoverable > 0 /\ 2 * a.recovered < a.recoverable
               /\ b.knobs["skill_top_k"] = 0
            THEN <<With(b, "attr", "skill_top_k", 1)>> ELSE <<>>)
        \o (IF a.error_kinds \cap {"timeout", "execution"} # {}
               /\ b.knobs["retry_max_retries"] # 2
            THEN <<With(b, "attr", "retry_max_retries", 2)>> ELSE <<>>)

Candidates(b, extra) ==
    LET own == GenerateCandidates(b)
        known == {own[i].version : i \in DOMAIN own}
        AddNew(cs, c) == IF c.version \in known THEN cs ELSE Append(cs, c)
    IN  FoldLeft(AddNew, own, extra)

-----------------------------------------------------------------------------
(***************************************************************************)
(* Scores.  Reports of one split have the same number of tasks, so that    *)
(* totals compare like averages.                                           *)
(***************************************************************************)
RecoveredMore(a, b) ==
    IF a.recoverable = 0 THEN FALSE
    ELSE IF b.recoverable = 0 THEN a.recovered > 0
    ELSE a.recovered * b.recoverable > b.recovered * a.recoverable

RanksHigher(a, b) ==
    \/ a.passed > b.passed
    \/ a.passed = b.passed /\ a.tokens < b.tokens
    \/ a.passed = b.passed /\ a.tokens = b.tokens /\ a.seconds < b.seconds
    \/ /\ a.passed = b.passed /\ a.tokens = b.tokens /\ a.seconds = b.seconds
       /\ RecoveredMore(a, b)

\* Mutant of ImprovesHoldout: cheaper is enough.
ImprovesCost(candidate, b) ==
    \/ candidate.tokens < b.tokens \/ candidate.seconds < b.seconds
    \/ RecoveredMore(candidate, b)

ImprovesHoldout(candidate, b) ==
    /\ candidate.passed >= b.passed
    /\ \/ candidate.tokens < b.tokens \/ candidate.seconds < b.seconds
       \/ RecoveredMore(candidate, b)

(* max keeps the first of several best, and the base is the first of all. *)
Best == CHOOSE i \in DOMAIN results :
            /\ \A j \in DOMAIN results :
                    ~RanksHigher(results[j].train, results[i].train)
            /\ \A j \in 1..(i - 1) :
                    RanksHigher(results[i].train, results[j].train)

-----------------------------------------------------------------------------
(* evaluate_live: the cases of a split, one after the other. *)
Scores(r) ==
    [passed |-> r.passed, tokens |-> r.tokens, seconds |-> r.seconds,
     recovered |-> r.recovered, recoverable |-> r.recoverable]
PossibleScores ==
    [split \in DOMAIN Splits |->
        {Scores(r) : r \in {Aggregate(cases) : cases \in
            {[i \in DOMAIN os |-> CaseResult(Splits[split][i], os[i])] :
                os \in [DOMAIN Splits[split] -> Outcomes]}}}]
NoScores == [passed |-> -1]

EvolutionInit ==
    /\ base = Default
    /\ extras \in {AttributionCandidates(Default, t) : t \in EarlierTraces}
    /\ generation = 1
    /\ candidates = Candidates(Default, extras)
    /\ base_holdout = NoScores /\ results = <<>>
    /\ status = "base"

MeasureBase ==
    /\ status = "base"
    /\ base_holdout' \in PossibleScores["holdout"]
    /\ status' = "candidates"
    /\ UNCHANGED <<extras, base, generation, candidates, results>>

MeasureCandidate ==
    /\ status = "candidates"
    /\ Len(results) < Len(candidates)
    /\ \E t \in PossibleScores["train"], h \in PossibleScores["holdout"] :
            results' = Append(results,
                [version |-> candidates[Len(results) + 1].version,
                 train |-> t, holdout |-> h])
    /\ UNCHANGED <<extras, base, generation, candidates, base_holdout, status>>

(***************************************************************************)
(* The end of _evolve_generation and of the round of evolve around it.     *)
(***************************************************************************)
Promotes(best) ==
    /\ best.version # base.version
    /\ ImprovesHoldout(best.holdout, base_holdout)

\* The first candidate of that version.
Named(version) ==
    candidates[CHOOSE i \in DOMAIN candidates :
                    /\ candidates[i].version = version
                    /\ \A j \in 1..(i - 1) : candidates[j].version # version]

Successor(best) == IF Promotes(best) THEN Named(best.version) ELSE base

Decide ==
    /\ status = "candidates"
    /\ Len(results) = Len(candidates)
    /\ results' = <<>> /\ base_holdout' = NoScores
    /\ \E next \in {Successor(results[Best])} :
            /\ base' = next
            /\ IF next # base /\ generation < Generations
               THEN /\ generation' = generation + 1 /\ status' = "base"
                    /\ candidates' = Candidates(next, extras)
               ELSE UNCHANGED <<generation, candidates>> /\ status' = "saved"
    /\ UNCHANGED extras

(* A case that raises ends evolve, and nothing measured is saved. *)
MeasurementRaises ==
    /\ status = "base" \/ (status = "candidates" /\ Len(results) < Len(candidates))
    /\ status' = "failed"
    /\ results' = <<>> /\ base_holdout' = NoScores
    /\ UNCHANGED <<extras, base, generation, candidates>>

EvolutionStep == MeasureBase \/ MeasureCandidate \/ Decide \/ MeasurementRaises
EvolutionIsDone == status \in {"saved", "failed"}

-----------------------------------------------------------------------------
(***************************************************************************)
(* What is promoted has earned it in its generation, over any number of    *)
(* generations, although a strategy measures differently each time, the    *)
(* winner is looked up by its name, names are given anew in each           *)
(* generation and the extra candidates keep coming back from the first     *)
(* base: the new base is a candidate that was measured, of which no other  *)
(* ranks higher on the training tasks and which ranks above the base there;*)
(* on the holdout tasks it passes no fewer than the base just did, with    *)
(* fewer tokens, less time or more recoveries; and it is the base, or the  *)
(* first base, with the one change its name tells.  Nothing is said of     *)
(* bases of earlier generations: an extra candidate drops what was         *)
(* promoted before it, and a lucky measurement may bring a strategy back   *)
(* (evolution.py:87-104, 189-301).                                         *)
(***************************************************************************)
Earned(i, new) ==
    LET winner == results[i]
    IN  /\ new = candidates[i] /\ new.version # base.version
        /\ \A j \in DOMAIN results : ~RanksHigher(results[j].train, winner.train)
        /\ candidates[1] = base /\ RanksHigher(winner.train, results[1].train)
        /\ winner.holdout.passed >= base_holdout.passed
        /\ \/ winner.holdout.tokens < base_holdout.tokens
           \/ winner.holdout.seconds < base_holdout.seconds
           \/ RecoveredMore(winner.holdout, base_holdout)
        /\ \E s \in {base, Default} :
                new.knobs = [s.knobs EXCEPT ![new.version[2]] = new.version[3]]

PromotionsAreEarned ==
    [][base' # base => \E i \in DOMAIN results : Earned(i, base')]_evolutionVars
=============================================================================
