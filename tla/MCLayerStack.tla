---------------------------- MODULE MCLayerStack ----------------------------
EXTENDS LayerStack

\* Calendars that agree; an asset that trades on fewer days, the last label
\* being older than its row; and one with days the proxy does not have.
MCCalendars ==
  {[proxy |-> 0..4, asset |-> 0..4],
   [proxy |-> {0, 1, 2, 4, 5, 6}, asset |-> {1, 3, 4, 6}],
   [proxy |-> {1, 2, 4, 5, 6}, asset |-> {0, 2, 3, 5}]}
MCStacks    == {<<"rsi_revert">>, <<"macd", "zscore_revert">>}
MCOverrides == {[f \in {} |-> "choppy"], [f \in {"rsi_revert"} |-> "trending"]}
=============================================================================
