------------------------------ MODULE Protocol ------------------------------
(***************************************************************************)
(* The final experiment as a matrix of runs: build_step14.py freezes the    *)
(* runs and their randomized order, the campaigns execute them,             *)
(* finalize_campaign.py writes the table of accepted runs, build_step16.py  *)
(* gives every run with the safety controller its comparator without it,    *)
(* process_step17.py collects both campaigns, and analyze_step18.py pairs   *)
(* the runs it compares.                                                    *)
(***************************************************************************)
EXTENDS Integers, SequencesExt

CONSTANTS
  Pairs,        \* the accuracy-matched forecast pairs
  References,   \* workloads, each with a reference run under its oracle
  ConditionOf,  \* [<<pair, side>> -> condition]: the semantic of that side's forecast
  SafetyCells,  \* <<pair, side>> repeated with the safety controller (SAFETY_SECONDARY)
  SafetyContrasts,  \* <<pair, condition>> analyze_step18.py compares without and with it
  Blocks,       \* repetitions of every side of a pair: the number of blocks
  FewBlocks,    \* the first blocks, with the reference and the safety runs too
  MaxGivenUp    \* bound: runs of the primary campaign that are never accepted

ASSUME ProtocolAssumption ==
  /\ IsFiniteSet(Pairs) /\ IsFiniteSet(References)
  /\ SafetyCells \subseteq Pairs \X {"a", "b"}
  /\ \A p \in Pairs : ConditionOf[<<p, "a">>] # ConditionOf[<<p, "b">>]
  /\ SafetyContrasts = {<<c[1], ConditionOf[c]>> : c \in SafetyCells}
  /\ Blocks \in Nat /\ FewBlocks \in 0..Blocks /\ MaxGivenUp \in Nat

VARIABLES
  order,      \* randomized-run-order.csv, a sequence of runs
  completed,  \* completed-runs.csv of the primary campaign
  matrix,     \* safety-execution-matrix.csv: a comparator for every safety run
  table,      \* the processed runs of both campaigns
  step        \* the program that comes next

protocolVars == <<order, completed, matrix, table, step>>

\* forecast_ref: the semantic of a run's forecast, which a side of one pair may share with
\* a side of another.
Semantic(pair, side) == IF side = "reference" THEN "oracle" ELSE ConditionOf[<<pair, side>>]

\* run_row, its column forecast_condition included.
Run(phase, pair, side, repetition, safety) ==
  [phase |-> phase, pair |-> pair, side |-> side, repetition |-> repetition, safety |-> safety,
   condition |-> Semantic(pair, side)]

\* make_rows.
Rows ==
  {Run("primary", p, s, r, FALSE) : p \in Pairs, s \in {"a", "b"}, r \in 1..Blocks}
  \cup {Run("reference", w, "reference", r, FALSE) : w \in References, r \in 1..FewBlocks}
  \cup {Run("secondary_safety", c[1], c[2], r, TRUE) : c \in SafetyCells, r \in 1..FewBlocks}

\* condition-catalog.csv: how often each side of a pair is to be run, without and with
\* the safety controller.
ConditionCatalog ==
  {[pair |-> p, side |-> s, repetitions |-> Blocks,
    safety |-> IF <<p, s>> \in SafetyCells THEN FewBlocks ELSE 0] :
     p \in Pairs, s \in {"a", "b"}}

\* The phases of the primary campaign.
InCampaign(r) == r.phase \in {"primary", "reference"}

ProtocolInit ==
  /\ order = << >> /\ completed = {} /\ matrix = {} /\ table = {} /\ step = "order"
-----------------------------------------------------------------------------
\* randomized_order: blocks follow each other, each in an order of its own.
Block == (IF order = << >> THEN 0 ELSE Last(order).repetition) + 1
OfBlock(b) == {r \in Rows : r.repetition = b}

OrderBlock ==
  /\ step = "order" /\ Block <= Blocks
  /\ \E o \in SetToSeqs(OfBlock(Block)) : order' = order \o o
  /\ UNCHANGED <<completed, matrix, table, step>>

\* main: the checks on the finished order and on the population of each phase.
Planned(phase) == Cardinality({r \in Rows : r.phase = phase})

Freeze ==
  /\ step = "order" /\ Block > Blocks
  /\ step' = IF /\ Len(order) = Cardinality(Rows) /\ ToSet(order) = Rows
                /\ Planned("primary") = 2 * Cardinality(Pairs) * Blocks
                /\ Planned("reference") = Cardinality(References) * FewBlocks
                /\ Planned("secondary_safety") = Cardinality(SafetyCells) * FewBlocks
                /\ \A r \in Rows : r.phase = "primary" => ~r.safety
             THEN "campaign" ELSE "failed"
  /\ UNCHANGED <<order, completed, matrix, table>>

\* The places the primary campaign's runs have in the order.
CampaignPlaces == {i \in DOMAIN order : InCampaign(order[i])}

\* validate_framework.py, before the campaign: no run twice, none with the safety
\* controller, and how many of which phase.
FrameworkIsValid ==
  LET OfPhase(phase) == Cardinality({i \in CampaignPlaces : order[i].phase = phase})
      planned        == 2 * Cardinality(Pairs) * Blocks + Cardinality(References) * FewBlocks
  IN  /\ Cardinality(CampaignPlaces) = planned
      /\ Cardinality({order[i] : i \in CampaignPlaces}) = planned
      /\ \A i \in CampaignPlaces : ~order[i].safety
      /\ OfPhase("primary") = 2 * Cardinality(Pairs) * Blocks
      /\ OfPhase("reference") = Cardinality(References) * FewBlocks

\* The campaign ends, with every run accepted or some given up, and what is
\* accepted is written; whether the audit passed, the next program does not ask.
Finalize ==
  /\ step = "campaign"
  /\ LET planned == {r \in ToSet(order) : InCampaign(r)}
     IN  \E missing \in SUBSET planned :
           /\ Cardinality(missing) <= MaxGivenUp
           /\ completed' = planned \ missing
  /\ step' = "matrix"
  /\ UNCHANGED <<order, matrix, table>>

\* The comparators of a safety run, found by the side of the pair.
Matches(row) ==
  {r \in completed : r.pair = row.pair /\ r.side = row.side /\ r.repetition = row.repetition}

\* build_step16: one comparator for every safety run, or no matrix; and the checks on
\* the matrix it has written.
SafetyRuns == {r \in ToSet(order) : r.phase = "secondary_safety" /\ r.safety}
SafetyMatrix == UNION {{[run |-> row, off |-> r] : r \in Matches(row)} : row \in SafetyRuns}
FrozenSafetyRuns == Cardinality(SafetyContrasts) * FewBlocks

MatrixIsValid ==
  /\ \A c \in SafetyContrasts :
       Cardinality({row \in SafetyRuns : row.condition = c[2]}) = FewBlocks
  /\ Cardinality({m.off : m \in SafetyMatrix}) = FrozenSafetyRuns

BuildMatrix ==
  /\ step = "matrix"
  /\ IF /\ Cardinality(SafetyRuns) = FrozenSafetyRuns
        /\ \A row \in SafetyRuns : Cardinality(Matches(row)) = 1
     THEN /\ matrix' = SafetyMatrix
          /\ step' = IF MatrixIsValid THEN "process" ELSE "failed"
     ELSE step' = "failed" /\ UNCHANGED matrix
  /\ UNCHANGED <<order, completed, table>>

\* discover: the accepted runs of the primary campaign, and every run of the
\* safety campaign, which has to be complete.
Process ==
  /\ step = "process"
  /\ \E accepted \in SUBSET {m.run : m \in matrix} :
       IF accepted = {m.run : m \in matrix}
       THEN table' = completed \cup accepted /\ step' = "processed"
       ELSE step' = "failed" /\ UNCHANGED table
  /\ UNCHANGED <<order, completed, matrix>>

ProtocolNext == OrderBlock \/ Freeze \/ Finalize \/ BuildMatrix \/ Process
-----------------------------------------------------------------------------
(* analyze_step18.py: the comparisons, as sets of the two runs compared.     *)

\* The runs of a side of a pair, by repetition (set_index).
Runs(phase, pair, side) ==
  {r \in table : r.phase = phase /\ r.pair = pair /\ r.side = side}

\* The runs of a condition of a pair.
\* The seeded fault: of the condition alone, which two pairs may have.
RunsOfAnyPair(phase, pair, condition) ==
  {r \in table : r.phase = phase /\ r.condition = condition}

RunsOfCondition(phase, pair, condition) ==
  {r \in table : r.phase = phase /\ r.pair = pair /\ r.condition = condition}

\* The two sides joined on the repetitions both have.
\* The seeded fault: in order instead, the k-th of one with the k-th of the other.
JoinedInOrder(A, B) ==
  LET Rank(S, r) == Cardinality({s \in S : s.repetition < r.repetition})
  IN  {c \in A \X B : Rank(A, c[1]) = Rank(B, c[2])}

Joined(A, B) == {c \in A \X B : c[1].repetition = c[2].repetition}

\* primary_tests and safety_tests.
PrimaryComparison(p) == Joined(Runs("primary", p, "a"), Runs("primary", p, "b"))
SafetyComparison(c) ==
  Joined(RunsOfCondition("primary", c[1], c[2]), RunsOfCondition("secondary_safety", c[1], c[2]))

\* interaction_tests: the difference of two differences, again joined on the
\* repetitions both have: of the timing pairs, and of the safety controller's effect.
Interaction(first, second) ==
  {i \in first \X second : i[1][1].repetition = i[2][1].repetition}

TimingInteraction(p, q) == Interaction(PrimaryComparison(p), PrimaryComparison(q))
SafetyInteraction(c, d) == Interaction(SafetyComparison(c), SafetyComparison(d))

Interactions ==
  UNION ({TimingInteraction(p, q) : p, q \in Pairs}
         \cup {SafetyInteraction(c, d) : c, d \in SafetyContrasts})

Comparisons ==
  UNION ({PrimaryComparison(p) : p \in Pairs} \cup {SafetyComparison(c) : c \in SafetyContrasts})

\* main: "valid" of analysis-validation.json.
AnalysisIsValid ==
  /\ Cardinality(table) = Cardinality(Rows)
  /\ \A p \in Pairs : Cardinality(PrimaryComparison(p)) = Blocks
  /\ \A c \in SafetyContrasts : Cardinality(SafetyComparison(c)) = FewBlocks
-----------------------------------------------------------------------------
Position(r) == CHOOSE i \in DOMAIN order : order[i] = r
BlockOf(r) ==
  {i \in DOMAIN order : order[i].repetition = order[Position(r)].repetition}

\* Whatever runs were given up, the study compares like with like: two accepted
\* runs of one pair that differ in exactly one thing, the side of the forecast or
\* the safety controller, and that stand in one block of the frozen order, so that
\* a drift of the cluster over the weeks hits both; the block is one stretch of
\* the order.  The safety runs, which analyze_step18.py finds by pair and condition, are
\* compared with exactly the comparators of the matrix, which build_step16.py finds by
\* the side of the pair; the order the primary campaign gets is
\* one its validator accepts (validate_framework.py); and a valid analysis has used every
\* planned run but the references, and every condition as often as its catalog says.
\* A difference of two differences stays within one block too, and a valid analysis
\* has one for every repetition.
ComparesLikeWithLike ==
  /\ \A c \in Comparisons :
       LET x == c[1]
           y == c[2]
       IN  /\ x.pair = y.pair /\ {x, y} \subseteq ToSet(order)
           /\ (x.side # y.side) # (x.safety # y.safety)
           /\ BlockOf(x) = BlockOf(y)
           /\ BlockOf(x) = Min(BlockOf(x))..Max(BlockOf(x))
  /\ \A i \in Interactions :
       Cardinality({BlockOf(i[1][1]), BlockOf(i[1][2]), BlockOf(i[2][1]), BlockOf(i[2][2])}) = 1
  /\ step = "campaign" => FrameworkIsValid
  /\ step = "processed" /\ AnalysisIsValid =>
       /\ \A c \in ConditionCatalog :
            /\ Cardinality(Runs("primary", c.pair, c.side)) = c.repetitions
            /\ Cardinality(Runs("secondary_safety", c.pair, c.side)) = c.safety
       /\ \A p, q \in Pairs : Cardinality(TimingInteraction(p, q)) = Blocks
       /\ \A c, d \in SafetyContrasts : Cardinality(SafetyInteraction(c, d)) = FewBlocks
  /\ step = "processed" =>
       /\ {<<m.off, m.run>> : m \in matrix} = {c \in Comparisons : c[2].safety}
       /\ AnalysisIsValid => \A r \in Rows :
            r.phase = "reference" \/ \E c \in Comparisons : r \in {c[1], c[2]}
=============================================================================
