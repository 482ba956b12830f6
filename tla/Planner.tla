-------------------------------- MODULE Planner --------------------------------
(***************************************************************************)
(* What a configuration is turned into, without any file: which scenario   *)
(* gets which label (generator/planner.py), which scenarios are held back  *)
(* (splits.py), and the numbers of the documents (scenarios.py, cli.py).   *)
(*                                                                         *)
(* A configuration is a record: the fields of GeneratorConfig that decide  *)
(* these things.  The weights are in thousandths, in the order in which    *)
(* the file names the labels; the holdout's fraction is in percent.        *)
(* Document i belongs to scenario i, and identifiers are their numbers:    *)
(* they are zero-padded, so they sort as numbers do.                       *)
(***************************************************************************)
EXTENDS Rounding, FiniteSets, Sequences, SequencesExt

CONSTANTS
    Roster,     \* vendors and materials defined in master_data.py
    CeilsUp     \* <<n, fraction>>: the product is a whole number, its float is above it

ASSUME PlannerAssumption ==
    /\ Roster \in Nat
    /\ CeilsUp \subseteq Nat \X (1..99)
    /\ \A pair \in CeilsUp : (pair[1] * pair[2]) % 100 = 0

(* labels.py. *)
ExceptionLabel == {"CLEAN", "PRICE_MINOR", "PRICE_MAJOR", "QTY_OVER", "GR_MISSING", "GR_PARTIAL",
                   "DUP_INVOICE", "AMBIGUOUS"}
AmbiguousVariant == {"DANGLING_PO_LINE", "UNAUTHORISED_OVER_DELIVERY", "CONFLICTING_RECEIPTS"}
NoVariant == "none"

SumOf(numbers) ==
    LET sum[n \in 0..Len(numbers)] == IF n = 0 THEN 0 ELSE sum[n - 1] + numbers[n]
    IN  sum[Len(numbers)]

(* What GeneratorConfig lets through: the keys of a mapping differ, the      *)
(* variants of a list need not.                                              *)
Valid(cfg) ==
    /\ {cfg.count, cfg.masters} \subseteq Nat \ {0}
    /\ cfg.fraction \in 1..99 /\ cfg.seed \in Int
    /\ cfg.variants \in Seq(AmbiguousVariant)
    /\ cfg.weights \in Seq([label : ExceptionLabel, share : Int])
    /\ IsInjective([i \in DOMAIN cfg.weights |-> cfg.weights[i].label])
    /\ SumOf([i \in DOMAIN cfg.weights |-> cfg.weights[i].share]) = 1000

-----------------------------------------------------------------------------
(* planner.py.                                                               *)

(* The buckets: each label's share of the count, rounded, and what rounding  *)
(* left over or borrowed put on the largest bucket, the first of the         *)
(* largest.                                                                  *)
Shares(cfg) ==
    [i \in DOMAIN cfg.weights |-> Rounded(cfg.count * cfg.weights[i].share, 1000)]
Biggest(shares) ==
    CHOOSE i \in DOMAIN shares :
        \A j \in DOMAIN shares : shares[j] < shares[i] \/ (shares[j] = shares[i] /\ i <= j)
Remainder(cfg) == cfg.count - SumOf(Shares(cfg))

BucketsOfLast(cfg) ==          \* a slip: the remainder goes to the last bucket
    [Shares(cfg) EXCEPT ![Len(cfg.weights)] = @ + Remainder(cfg)]
Buckets(cfg) ==
    [Shares(cfg) EXCEPT ![Biggest(Shares(cfg))] = @ + Remainder(cfg)]

(* A bucket's scenarios: a label and a variant each, the variants of         *)
(* AMBIGUOUS in equal parts, the first ones getting what is left over.       *)
Repeat(kind, n) == IF n <= 0 THEN <<>> ELSE [i \in 1..n |-> kind]
Bucket(cfg, label, n) ==
    IF label # "AMBIGUOUS" THEN Repeat(<<label, NoVariant>>, n)
    ELSE LET k == Len(cfg.variants)
             part(i) == (n \div k) + (IF i <= n % k THEN 1 ELSE 0) IN
         FlattenSeq([i \in 1..k |-> Repeat(<<label, cfg.variants[i]>>, part(i))])

(* Random.shuffle with the seed's own stream: some permutation, the same     *)
(* one each time.                                                            *)
Shuffled(kinds, seed) ==
    [i \in DOMAIN kinds |-> kinds[((i - 1 + seed) % Len(kinds)) + 1]]

PlanOfLabels(cfg) ==
    Shuffled(FlattenSeq([i \in DOMAIN cfg.weights |->
                            Bucket(cfg, cfg.weights[i].label, Buckets(cfg)[i])]), cfg.seed)

-----------------------------------------------------------------------------
(* splits.py.  A plan gives each scenario its kind; the last of every kind   *)
(* are held back.                                                            *)

(* math.ceil(len(ids) * eval_fraction): 25 * 0.28 is above 7 and gives 8.     *)
NEval(n, fraction) ==
    ((n * fraction + 99) \div 100) + (IF <<n, fraction>> \in CeilsUp THEN 1 ELSE 0)

OfKind(plan, kind) == {i \in DOMAIN plan : plan[i] = kind}
LaterOfKind(plan, i) == {j \in OfKind(plan, plan[i]) : j > i}
HeldOf(plan, i, fraction) ==
    NEval(Cardinality(OfKind(plan, plan[i])), fraction)

HeldTail(plan, fraction) ==      \* a slip: a slice of the whole list
    {i \in DOMAIN plan : Len(plan) - i < NEval(Len(plan), fraction)}
Held(plan, fraction) ==
    {i \in DOMAIN plan : Cardinality(LaterOfKind(plan, i)) < HeldOf(plan, i, fraction)}
Dev(plan, fraction) ==
    {i \in DOMAIN plan : Cardinality(LaterOfKind(plan, i)) >= HeldOf(plan, i, fraction)}

-----------------------------------------------------------------------------
(* build_dataset.                                                            *)

(* master_data._take, plan_labels and assign_splits raise on the rest.  The  *)
(* variants are divided by where AMBIGUOUS has a weight, zero or not.        *)
VariantsNamed(cfg) ==
    (\E i \in DOMAIN cfg.weights : cfg.weights[i].label = "AMBIGUOUS") => cfg.variants # <<>>
Buildable(cfg) ==
    /\ cfg.masters <= Roster
    /\ VariantsNamed(cfg)
    /\ cfg.golden \subseteq Dev(PlanOfLabels(cfg), cfg.fraction)

LabelOf(plan, i) == plan[i][1]
VariantOf(plan, i) == plan[i][2]

(* The injected magnitude: drawn from the scenario's own stream and measured *)
(* against the tolerances.  It stands for those of all labels that have one. *)
DetailOf(plan, cfg, i) ==
    IF LabelOf(plan, i) = "PRICE_MAJOR" THEN <<cfg.seed, cfg.tolerances>> ELSE <<>>

(* rng.choice among the vendors, and among the materials. *)
MasterOf(cfg, i) == ((i + cfg.seed) % cfg.masters) + 1

(* The second invoice of a duplicate has the next number.  A scenario whose  *)
(* receipt is missing has none.                                              *)
InvoicesOf(plan, i) ==
    IF LabelOf(plan, i) = "DUP_INVOICE" THEN <<<<i, 1>>, <<i, 2>>>> ELSE <<<<i, 1>>>>
ReceiptsOf(plan) == {i \in DOMAIN plan : LabelOf(plan, i) # "GR_MISSING"}

EntryOf(plan, cfg, i) == [label |-> LabelOf(plan, i), variant |-> VariantOf(plan, i),
                          detail |-> DetailOf(plan, cfg, i)]

=============================================================================
