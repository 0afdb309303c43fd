------------------------------ MODULE Signals ------------------------------
(***************************************************************************)
(* The vectorised strategies (engine/src/funnel/strategies): each turns    *)
(* the day's indicators into a position in {-1, 0, 1}.  What an indicator  *)
(* computes is left out; of a day the model keeps what the strategy's      *)
(* comparisons say of it, its reading: long, short, neither, or, when an   *)
(* indicator is NaN and every comparison with it is false, undefined.      *)
(*                                                                         *)
(* The families differ in how they build the series, its shape, and the    *)
(* shape alone decides what a reading does.                                *)
(***************************************************************************)
EXTENDS Integers, TLC

Readings == {"long", "short", "neither", "undefined"}

Shapes == {"sign",         \* np.sign(x), or where(~condition, side)
           "long_only",    \* where(~condition, 1.0)
           "chain",        \* where(x > low, 1.0), then where(x < high, -1.0)
           "fade",         \* where(x < high, -1.0), then where(x > low, 1.0)
           "latch",        \* mask(condition, side), then ffill
           "chain_latch",  \* where twice on an empty series, then ffill
           "loop"}         \* a loop over the rows (TrailingStops)

\* volatility.py: a where keeps a row only if its comparison holds
VolatilityShapes == [f \in {"atr_breakout", "volatility_breakout", "squeeze_breakout"} |->
  CASE f = "atr_breakout"        -> "chain"
    [] f = "volatility_breakout" -> "sign"
    [] f = "squeeze_breakout"    -> "latch"]

\* volume.py
VolumeShapes ==
  [f \in {"obv_trend", "chaikin_money_flow_trend", "money_flow_index_trend",
          "volume_surge", "force_index_trend", "chaikin_oscillator"} |->
     IF f = "money_flow_index_trend" THEN "chain" ELSE "sign"]

\* pattern.py
PatternShapes ==
  [f \in {"engulfing", "three_bar_reversal", "higher_highs_higher_lows", "pivot_bounce"} |->
     IF f \in {"engulfing", "three_bar_reversal"} THEN "latch" ELSE "sign"]

\* composite.py
CompositeShapes == [f \in {"macd_rsi_confirm", "triple_screen", "chandelier"} |->
  IF f = "chandelier" THEN "loop" ELSE "sign"]

\* meanrev.py
MeanReversionShapes ==
  [f \in {"rsi_revert", "bollinger_revert", "zscore_revert", "stochastic_revert",
          "cci_revert", "williams_r_revert", "keltner_revert", "vwap_revert",
          "percent_b_revert", "connors_rsi_revert", "ultimate_oscillator_revert",
          "gap_fade"} |->
     CASE f \in {"rsi_revert", "bollinger_revert"} -> "latch"
       [] f = "gap_fade"                           -> "fade"
       [] OTHER                                    -> "chain"]

\* trend.py, up to the first loop
BreakoutShapes ==
  [f \in {"ma_crossover", "time_series_momentum", "roc_momentum", "macd",
          "donchian_breakout", "bollinger_breakout"} |->
     CASE f = "donchian_breakout"  -> "chain"
       [] f = "bollinger_breakout" -> "chain_latch"
       [] OTHER                    -> "sign"]

\* trend.py, between its loops and after them
FilterShapes ==
  [f \in {"adx_trend", "ichimoku", "linreg_slope_trend", "aroon_trend", "vortex_trend",
          "trix_trend", "hull_ma_trend", "kama_trend"} |->
     IF f = "ichimoku" THEN "chain" ELSE "sign"]
MomentumShapes == [f \in {"dual_momentum", "elder_ray"} |->
  IF f = "dual_momentum" THEN "long_only" ELSE "sign"]
StopShapes == [f \in {"supertrend", "parabolic_sar", "turtle"} |-> "loop"]

\* build_all_configs: how many parameter sets it enumerates of every family,
\* category by category; the parameters themselves are left out
TrendGrid ==
  [ma_crossover |-> 4, time_series_momentum |-> 5, roc_momentum |-> 4, macd |-> 4,
   donchian_breakout |-> 4, bollinger_breakout |-> 4, supertrend |-> 4,
   parabolic_sar |-> 3, adx_trend |-> 4, ichimoku |-> 3, linreg_slope_trend |-> 3,
   aroon_trend |-> 3, vortex_trend |-> 3, trix_trend |-> 3, hull_ma_trend |-> 3,
   kama_trend |-> 3, turtle |-> 3, dual_momentum |-> 3, elder_ray |-> 3]
MeanReversionGrid ==
  [f \in DOMAIN MeanReversionShapes |-> IF f \in {"rsi_revert", "zscore_revert"} THEN 4 ELSE 3]
VolumeGrid     == [f \in DOMAIN VolumeShapes |-> IF f = "obv_trend" THEN 4 ELSE 3]
VolatilityGrid == [f \in DOMAIN VolatilityShapes |-> IF f = "atr_breakout" THEN 4 ELSE 3]
PatternGrid    ==
  [engulfing |-> 1, three_bar_reversal |-> 1, higher_highs_higher_lows |-> 3, pivot_bounce |-> 3]
CompositeGrid  == [macd_rsi_confirm |-> 3, triple_screen |-> 3, chandelier |-> 3]

Grid == TrendGrid @@ MeanReversionGrid @@ VolumeGrid @@ VolatilityGrid
          @@ PatternGrid @@ CompositeGrid
Families == DOMAIN Grid
Category == [f \in Families |->
  CASE f \in DOMAIN TrendGrid         -> "trend"
    [] f \in DOMAIN MeanReversionGrid -> "mean_reversion"
    [] f \in DOMAIN VolumeGrid        -> "volume"
    [] f \in DOMAIN VolatilityGrid    -> "volatility"
    [] f \in DOMAIN PatternGrid       -> "pattern"
    [] f \in DOMAIN CompositeGrid     -> "composite"]

Shape == BreakoutShapes @@ FilterShapes @@ MomentumShapes @@ StopShapes
           @@ MeanReversionShapes @@ VolumeShapes @@ VolatilityShapes
           @@ PatternShapes @@ CompositeShapes

\* every family of the grid is one of the strategies
ASSUME GridAssumption == DOMAIN Shape = Families
-----------------------------------------------------------------------------
\* a NaN fails the comparison of every where, and the last where wins; a mask
\* leaves it NaN, for ffill to fill or clean_positions to flatten
WhenUndefined(shape, held) ==
  CASE shape \in {"chain", "chain_latch"} -> -1
    [] shape = "fade"                     -> 1
    [] shape = "latch"                    -> held
    [] OTHER                              -> 0

\* the position of a row; held: of the row before, 0 before the first
Position(shape, reading, held) ==
  CASE reading = "long"      -> 1
    [] reading = "short"     -> IF shape = "long_only" THEN 0 ELSE -1
    [] reading = "neither"   -> IF shape \in {"latch", "chain_latch"} THEN held ELSE 0
    [] reading = "undefined" -> WhenUndefined(shape, held)
=============================================================================
