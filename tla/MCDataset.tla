------------------------------ MODULE MCDataset -------------------------------
(* One configuration whose files, readers and edits are followed through, and *)
(* many that are only generated from: the weights of the repository's own, of *)
(* equal labels and of two, with the counts where rounding matters.           *)
EXTENDS Dataset

Weighted(labels, shares) == [i \in DOMAIN labels |-> [label |-> labels[i], share |-> shares[i]]]
Eight == <<"CLEAN", "PRICE_MINOR", "PRICE_MAJOR", "QTY_OVER", "GR_MISSING", "GR_PARTIAL",
           "DUP_INVOICE", "AMBIGUOUS">>
Variants == <<"DANGLING_PO_LINE", "UNAUTHORISED_OVER_DELIVERY", "CONFLICTING_RECEIPTS">>

Followed ==
    [count |-> 6, weights |-> Weighted(<<"PRICE_MAJOR", "DUP_INVOICE", "AMBIGUOUS">>, <<334, 333, 333>>),
     variants |-> SubSeq(Variants, 1, 2), seed |-> 0, tolerances |-> 1, masters |-> 2,
     fraction |-> 20, golden |-> {3}]
Reseeded   == [Followed EXCEPT !.seed = 1, !.golden = {}]
Tightened  == [Followed EXCEPT !.tolerances = 2]
Fewer      == [Followed EXCEPT !.count = 3, !.golden = {}, !.masters = 1]
Unbuildable == [Followed EXCEPT !.masters = 3]    \* more than there are

Generated(weights, counts, fractions, seeds) ==
    {[count |-> n, weights |-> weights, seed |-> s, tolerances |-> 1, masters |-> 2,
      variants |-> IF \E i \in DOMAIN weights : weights[i].label = "AMBIGUOUS"
                   THEN Variants ELSE <<>>,
      fraction |-> f, golden |-> {}] : n \in counts, f \in fractions, s \in seeds}

MCConfigs ==
    {Followed}
    \cup Generated(Weighted(Eight, <<400, 100, 120, 100, 80, 80, 60, 60>>), {4, 7, 25}, {20}, {7})
    \cup Generated(Weighted(Eight, [i \in 1..8 |-> 125]), {4, 5}, {20}, {0})
    \cup Generated(Weighted(<<"CLEAN", "GR_MISSING", "AMBIGUOUS">>, <<333, 334, 333>>), {4}, {20}, {0})
    \cup Generated(Weighted(<<"CLEAN", "AMBIGUOUS">>, <<250, 750>>), {10}, {1, 99}, {1})
    \cup Generated(Weighted(<<"CLEAN", "QTY_OVER">>, <<500, 500>>), {50}, {28, 56}, {0})
(* The products of a number below fifty and a percentage whose floats lie    *)
(* above them: 25 * 0.28 and 25 * 0.56.                                      *)
MCCeilsUp == {<<25, 28>>, <<25, 56>>}
MCTexts == [label |-> {"AMBIGUOUS"}, variant |-> {"CONFLICTING_RECEIPTS"},
            detail |-> {<<"typed by hand">>}]
MCRevisions(cfg) ==
    IF cfg.weights = Followed.weights THEN {Followed, Reseeded, Tightened, Fewer, Unbuildable} \ {cfg} ELSE {}

=============================================================================
