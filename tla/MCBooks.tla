------------------------------ MODULE MCBooks ------------------------------
(***************************************************************************)
(* The day-by-day books of the engine, one at a time: the overlay          *)
(* simulator, the regime detectors, the layer stack on top of them, the    *)
(* two stop loops and the cross-sectional portfolio.  The other books rest *)
(* at their start.                                                         *)
(***************************************************************************)
EXTENDS MCOverlaySim, MCLayerStack, ParabolicSar, BreakoutExits, CrossSection

VARIABLE book

\* Six assets ranked at once; one delisted before a rebalance and three listed
\* after the first row; two, then five, then six.
Listed(a, z) == [first |-> a, last |-> z]
MCPanels ==
  {[a \in 1..6 |-> Listed(0, 3)],
   [a \in 1..6 |-> CASE a = 1 -> Listed(0, 2) [] a \in 2..3 -> Listed(0, 5) [] OTHER -> Listed(1, 6)],
   [a \in 1..6 |-> CASE a < 3 -> Listed(0, 6) [] a \in 3..5 -> Listed(2, 7) [] OTHER -> Listed(5, 8)]}
MCLookbacks == {[trailing |-> 2, skip |-> 0], [trailing |-> 1, skip |-> 1]}
MCBps == [a \in 1..6 |-> IF a = 1 THEN 2 ELSE IF a = 2 THEN 0 ELSE 1]

OverlayRest == spec = (CHOOSE sp \in Specs : TRUE) /\ Init
RegimeRest  == detector = "hmm" /\ frame = 0 /\ RegimeInit
StackRest   ==
  plan = [configs |-> <<"macd">>, calendar |-> [proxy |-> {}, asset |-> {}],
          overrides |-> [f \in {} |-> "choppy"], method |-> "none", regimes |-> FALSE]
  /\ bar = -1 /\ aligned = NoLabel /\ raw = [c \in Configs |-> 0] /\ warm = Configs
  /\ decided = [knew |-> -1, target |-> [s \in Surviving |-> 0]] /\ earning = decided
SarRest     == last = (CHOOSE b \in Bars : TRUE) /\ SarInit
ExitsRest   == system = "turtle" /\ ExitsInit
CrossRest   == /\ panel = (CHOOSE p \in Panels : TRUE) /\ lookback = (CHOOSE l \in Lookbacks : TRUE)
               /\ CrossInit

BooksInit ==
  \/ book = "overlay" /\ Init /\ RegimeRest /\ StackRest /\ SarRest /\ ExitsRest /\ CrossRest
  \/ book = "regimes" /\ OverlayRest /\ RegimeInit /\ StackRest /\ SarRest /\ ExitsRest /\ CrossRest
  \/ book = "layers" /\ OverlayRest /\ StackInit /\ SarRest /\ ExitsRest /\ CrossRest
  \/ book = "sar" /\ OverlayRest /\ RegimeRest /\ StackRest /\ SarInit /\ ExitsRest /\ CrossRest
  \/ book = "exits" /\ OverlayRest /\ RegimeRest /\ StackRest /\ SarRest /\ ExitsInit /\ CrossRest
  \/ book = "cross" /\ OverlayRest /\ RegimeRest /\ StackRest /\ SarRest /\ ExitsRest /\ CrossInit

InOverlay == book = "overlay" /\ UNCHANGED <<book, regimeVars, stackVars, sarVars, exitVars, crossVars>>
InRegimes == book = "regimes" /\ UNCHANGED <<book, vars, stackVars, sarVars, exitVars, crossVars>>
InLayers  == book = "layers" /\ UNCHANGED <<book, vars, sarVars, exitVars, crossVars>>
InSar     == book = "sar" /\ UNCHANGED <<book, vars, regimeVars, stackVars, exitVars, crossVars>>
InExits   == book = "exits" /\ UNCHANGED <<book, vars, regimeVars, stackVars, sarVars, crossVars>>
InCross   == book = "cross" /\ UNCHANGED <<book, vars, regimeVars, stackVars, sarVars, exitVars>>

BooksNext ==
  \/ InOverlay /\ \E s \in Spots : Warmup(s)
  \/ InOverlay /\ \E s \in Spots, v \in Vols : Enter(s, v)
  \/ InOverlay /\ \E s \in Spots, v \in Vols, likely \in BOOLEAN : Hold(s, v, likely)
  \/ InRegimes /\ \E regime \in Regimes : Refit(regime)
  \/ InRegimes /\ \E above \in SUBSET (0 .. frame - 1) : Filter(above)
  \/ InLayers /\ \E regime \in Regimes : Label(regime)
  \/ InLayers /\ \E readings \in [Configs -> Readings], scale \in 0 .. Unit + 1 : Close(readings, scale)
  \/ InSar /\ \E bar_now \in Bars, c \in Candidates : Turn(bar_now, c)
  \/ InSar /\ \E bar_now \in Bars, c \in Candidates : Ride(bar_now, c)
  \/ InExits /\ \E q \in Rows : Wait(q)
  \/ InExits /\ \E q \in Rows : Seek(q)
  \/ InExits /\ \E q \in Rows, distance \in Distances : Keep(q, distance)
  \/ InCross /\ Rebalance
  \/ InCross /\ Carry

BooksSpec ==
  BooksInit /\ [][BooksNext]_<<book, vars, regimeVars, stackVars, sarVars, exitVars, crossVars>>
=============================================================================
