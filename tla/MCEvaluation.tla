---------------------------- MODULE MCEvaluation ----------------------------
\* Two pairs of one category; each metric below, at and above its threshold.
EXTENDS Evaluation

MCCategory == <<"trend", "trend">>
MCLengths == 5..8
MCSettings == {0, 1, 3}
MCTight == -2
MCDeep == -5
MCMeasurable ==
  {[is_sharpe |-> 3, oos_sharpe |-> o, max_drawdown |-> d] : o \in {1, 2, 3}, d \in {-3, -1}}
    \cup {[is_sharpe |-> s, oos_sharpe |-> 2, max_drawdown |-> -1] : s \in {-1, 0, 1}}
    \cup {[is_sharpe |-> -1, oos_sharpe |-> -2, max_drawdown |-> -1]}
=============================================================================
