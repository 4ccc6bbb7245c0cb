-------------------------- MODULE RegimeClassifier --------------------------
(***************************************************************************)
(* analytics/regime.ts and analytics/volatility.ts.  The window of prices  *)
(* is kept as far as it is told apart: whether it has filled up to the     *)
(* WARMUP prices the classifier asks for.  What the statistics of a full   *)
(* window say is open.                                                     *)
(***************************************************************************)
EXTENDS MarketGraph

CONSTANTS WARMUP,  \* prices before the first verdict, 60
          Signals  \* what the statistics of a window may be

Statistics == [annVol : {"calm", "high"}, vr : {"above", "between", "below"},
               slope : {"up", "down", "flat"}]

ASSUME ClassifierAssumption == WARMUP \in Nat \ {0} /\ Signals \subseteq Statistics

VARIABLES series,     \* prices seen of each pair, up to WARMUP
          lastRegime  \* the verdict remembered for each pair

regimeVars == <<series, lastRegime>>

Forgotten == /\ series = [k \in Pairs |-> 0]
             /\ lastRegime = [k \in Pairs |-> "unknown"]

Forget == /\ series' = [k \in Pairs |-> 0]
          /\ lastRegime' = [k \in Pairs |-> "unknown"]

RegimeTypeOK == /\ series \in [Pairs -> 0 .. WARMUP]
                /\ lastRegime \in [Pairs -> Regime]

(* The volatility is 0 at the first price of a pair.                       *)
updateVol(k) == IF series[k] = 0 THEN {"calm"} ELSE {"calm", "high"}

(* Mutant: the oldest price stays in the window.                           *)
pushPriceUnshifted(k) == series' = [series EXCEPT ![k] = @ + 1]

pushPrice(k) ==
    series' = [series EXCEPT ![k] = IF @ < WARMUP THEN @ + 1 ELSE @]

(* A high volatility overrides the rest; between the thresholds of the     *)
(* variance ratio the verdict of before stays.                             *)
Verdict(s, prev) == IF s.annVol = "high" THEN "high_vol"
                    ELSE IF s.vr = "above" /\ s.slope = "up" THEN "trending_up"
                    ELSE IF s.vr = "above" /\ s.slope = "down" THEN "trending_down"
                    ELSE IF s.vr = "below" \/ prev = "unknown" THEN "mean_reverting"
                    ELSE prev

(* The verdicts there may be after a price of pair k.                      *)
Verdicts(k) == IF series[k] + 1 < WARMUP THEN {"unknown"}
               ELSE {Verdict(s, lastRegime[k]) : s \in {t \in Signals : t.annVol \in updateVol(k)}}

Remember(k, r) ==
    lastRegime' = IF r = "unknown" THEN lastRegime ELSE [lastRegime EXCEPT ![k] = r]
=============================================================================
