---------------------------- MODULE OverlaySim ----------------------------
(***************************************************************************)
(* simulate_overlay (engine/src/funnel/options/overlays.py): one overlay   *)
(* structure held over the daily grid, closed and reopened at every roll   *)
(* and settlement.  One action per path through the body of the day loop.  *)
(*                                                                         *)
(* Money is counted in whole units for one contract of one share.  Prices, *)
(* strikes and costs are parameters: of Black-Scholes the model keeps only *)
(* the bounds that no-arbitrage gives, so that what it says of risk holds  *)
(* for every pricing formula within them.                                  *)
(***************************************************************************)
EXTENDS Integers, Sequences

CONSTANTS
  Days,               \* rows of the price history
  Spots, Vols,        \* closes, and values of synthetic_iv after its warmup
  Strikes,
  Dtes,               \* values of OverlaySpec.dte_target
  Price(_, _, _, _, _),  \* bs_price: kind, spot, strike, days left, vol
  Selected(_, _, _),  \* _selector_strike at dte_target: spec, spot, vol
  Width(_),           \* spread_width_pct * spot
  Commission,         \* per_contract_commission
  Haircut,            \* 1 / spread_haircut_pct
  Yield,              \* TRADING_DAYS_PER_YEAR / rate
  DeadFraction        \* 1 / _EQUITY_DEAD_FRACTION

Structures == {"covered_call", "cash_secured_put", "vertical_spread", "leaps"}
Kinds      == {"call", "put"}

\* what OverlaySpec.__post_init__ accepts
Specs == {sp \in [structure : Structures, kind : Kinds, dte_target : Dtes,
                  roll_at_dte : 0..Days, avoid_assignment : BOOLEAN] :
            /\ sp.roll_at_dte < sp.dte_target
            /\ sp.avoid_assignment => sp.structure \in {"covered_call", "cash_secured_put"}
            /\ sp.structure # "vertical_spread" => sp.kind = "call"}

\* _reference_kind
Kind(sp) == CASE sp.structure = "cash_secured_put" -> "put"
              [] sp.structure = "vertical_spread"  -> sp.kind
              [] OTHER                             -> "call"

\* the further out-of-the-money wing of a vertical spread
Wing(sp, s, v) == IF sp.kind = "call" THEN Selected(sp, s, v) + Width(s)
                                      ELSE Selected(sp, s, v) - Width(s)

ASSUME SizesAssumption ==
  /\ Days \in Nat /\ Commission \in Nat
  /\ {Haircut, Yield, DeadFraction} \subseteq Nat \ {0}
  /\ Spots \subseteq Nat \ {0} /\ Strikes \subseteq Nat \ {0}
  /\ Dtes \subseteq 1..Days

\* An option is worth at least nothing, a call at most the share, a put at most
\* its strike; two options differ by at most their strikes' difference.
ASSUME PriceAssumption ==
  \A s \in Spots, k \in Strikes, v \in Vols, t \in 0..Days :
    /\ Price("call", s, k, t, v) \in 0..s
    /\ Price("put", s, k, t, v) \in 0..k
    /\ \A j \in Strikes : j <= k =>
         /\ Price("call", s, j, t, v) - Price("call", s, k, t, v) \in 0 .. k - j
         /\ Price("put", s, k, t, v) - Price("put", s, j, t, v) \in 0 .. k - j

ASSUME SelectorAssumption ==
  \A sp \in Specs, s \in Spots, v \in Vols :
    /\ Selected(sp, s, v) \in Strikes /\ Width(s) \in Nat \ {0}
    /\ sp.structure = "vertical_spread" => Wing(sp, s, v) \in Strikes
-----------------------------------------------------------------------------
VARIABLES
  spec,      \* the OverlaySpec
  day,       \* rows done; the next row is i = day
  close,     \* the close of the last row
  position,  \* the open position, or NoPosition
  n_rolls,
  events,    \* the rows of the AssignmentEvents
  first,     \* history: the row of the first entry
  ledger     \* history: what the cycle of the last row has earned so far

vars == <<spec, day, close, position, n_rolls, events, first, ledger>>

None       == 0    \* no leg of that direction: strikes are positive
NoPosition == [kind |-> "call", short |-> None, long |-> None, capital_base |-> 0,
               entry |-> -1, expiry |-> -1, book |-> 0, open_cost |-> 0,
               premium |-> 0, equity |-> 0]
NoLedger   == [capital_base |-> 0, gross |-> 0, died |-> FALSE]
Open       == position # NoPosition

Leg(kind, strike, s, t, v) == IF strike = None THEN 0 ELSE Price(kind, s, strike, t, v)

\* _book_value_dollars and _leg_costs
Book(p, s, t, v)     == Leg(p.kind, p.long, s, t, v) - Leg(p.kind, p.short, s, t, v)
LegCost(kind, strike, s, t, v) == 
  IF strike = None THEN 0 ELSE Commission + Price(kind, s, strike, t, v) \div Haircut
LegCosts(p, s, t, v) == LegCost(p.kind, p.short, s, t, v) + LegCost(p.kind, p.long, s, t, v)

Legs(sp, s, v) ==
  LET k == Selected(sp, s, v)
      short == CASE sp.structure = "leaps" -> None [] OTHER -> k
      long  == CASE sp.structure = "leaps" -> k
                 [] sp.structure = "vertical_spread" -> Wing(sp, s, v)
                 [] OTHER -> None
  IN [NoPosition EXCEPT !.kind = Kind(sp), !.short = short, !.long = long]

CapitalBase(sp, s, v, book) ==
  CASE sp.structure = "covered_call"     -> s
    [] sp.structure = "cash_secured_put" -> Selected(sp, s, v)
    [] sp.structure = "vertical_spread"  -> Width(s)
    [] sp.structure = "leaps"            -> book

\* _open_position at row i
OpenPosition(sp, s, v, i) ==
  LET legs == Legs(sp, s, v)
      book == Book(legs, s, sp.dte_target, v)
      base == CapitalBase(sp, s, v, book)
  IN [legs EXCEPT !.capital_base = base, !.equity = base, !.book = book,
                  !.entry = i, !.expiry = i + sp.dte_target,
                  !.open_cost = LegCosts(legs, s, sp.dte_target, v),
                  !.premium = IF sp.structure = "leaps" THEN 0 ELSE -book]

OptionsOnly(s) == 0                                                      \* fault

\* _extra_leg_pnl_dollars: the shares, or the interest on the reserve
ExtraPnl(s) ==
  CASE spec.structure = "covered_call"     -> s - close
    [] spec.structure = "cash_secured_put" -> position.capital_base \div Yield
    [] OTHER                               -> 0
-----------------------------------------------------------------------------
Init ==
  /\ spec \in Specs
  /\ day = 0 /\ close = 0 /\ position = NoPosition
  /\ n_rolls = 0 /\ events = <<>>
  /\ first = -1 /\ ledger = NoLedger

\* synthetic_iv is NaN: nothing is held before its warmup ends
Warmup(s) ==
  /\ day < Days /\ ~Open
  /\ day' = day + 1 /\ close' = s
  /\ UNCHANGED <<spec, position, n_rolls, events, first, ledger>>

Enter(s, v) ==
  /\ day < Days /\ ~Open
  /\ day' = day + 1 /\ close' = s
  /\ position' = OpenPosition(spec, s, v, day)
  /\ first' = day
  /\ UNCHANGED <<spec, n_rolls, events, ledger>>

Left == position.expiry - day
Remaining == IF Left > 0 THEN Left ELSE 0

DueLate(left) == left < spec.roll_at_dte                                 \* fault
Due(left)     == left <= spec.roll_at_dte

ShouldSettle       == Left <= 0
ShouldClose(likely) == \/ ShouldSettle \/ Due(Left)
                       \/ spec.avoid_assignment /\ likely

\* the opening cost is charged on the first row after the entry
NeverCharged == 0                                                        \* fault
OpenCost     == IF day - 1 = position.entry THEN position.open_cost ELSE 0

\* _check_assignment: the short leg in the money at the close
InTheMoney(s) ==
  /\ position.short # None
  /\ IF position.kind = "call" THEN s > position.short ELSE s < position.short
Assigned(s)       == InTheMoney(s) /\ ShouldSettle

\* economically dead: the return is pinned to 0 and the equity frozen
Dead(p) == p.equity * DeadFraction <= p.capital_base

Clamped(x)   == IF x < 0 THEN 0 ELSE x
NewEquity(pnl, cost) ==
  IF Dead(position) THEN position.equity ELSE Clamped(position.equity + pnl - cost)

\* a row with an open position; likely: the short leg's prob_itm exceeds
\* assignment_prob_trigger
Hold(s, v, likely) ==
  /\ day < Days /\ Open
  /\ LET mtm    == Book(position, s, Remaining, v)
         pnl    == mtm - position.book + ExtraPnl(s)
         closes == ShouldClose(likely)
         cost   == OpenCost + (IF closes THEN LegCosts(position, s, Remaining, v) ELSE 0)
         equity == NewEquity(pnl, cost)
         newborn == day - 1 = position.entry
     IN /\ IF closes
           THEN /\ position' = OpenPosition(spec, s, v, day)
                /\ n_rolls'  = n_rolls + 1
                /\ events'   = IF Assigned(s) THEN Append(events, day) ELSE events
           ELSE /\ position' = [position EXCEPT !.book = mtm, !.equity = equity]
                /\ UNCHANGED <<n_rolls, events>>
        /\ ledger' = [capital_base |-> position.capital_base,
                      gross |-> (IF newborn THEN 0 ELSE ledger.gross) + pnl,
                      died  |-> \/ ~newborn /\ ledger.died
                                \/ Dead(position) \/ Dead([position EXCEPT !.equity = equity])]
  /\ day' = day + 1 /\ close' = s
  /\ UNCHANGED <<spec, first>>

Next == \E s \in Spots :
  \/ Warmup(s)
  \/ \E v \in Vols : Enter(s, v) \/ \E likely \in BOOLEAN : Hold(s, v, likely)

Spec == Init /\ [][Next]_vars
-----------------------------------------------------------------------------
\* Every variable keeps its type; no equity is negative.
TypeOK ==
  /\ spec \in Specs
  /\ day \in 0..Days /\ close \in Spots \cup {0}
  /\ position \in [kind : Kinds, short : Strikes \cup {None}, long : Strikes \cup {None},
                   capital_base : Nat, entry : -1 .. Days, expiry : -1 .. 2 * Days,
                   book : Int, open_cost : Nat, premium : Int, equity : Nat]
  /\ n_rolls \in 0..Days
  /\ events \in Seq(0..Days)
  /\ first \in -1 .. Days
  /\ ledger \in [capital_base : Nat, gross : Int, died : BOOLEAN]

\* The hard constraint of the module: before trading costs, no cycle of any
\* structure ever loses more than the capital committed at its entry, whatever
\* the closes and the volatility do and whenever the position is closed.
DefinedRisk == ledger.capital_base + ledger.gross >= 0

\* The equity behind the daily returns is the capital plus everything the
\* cycle has earned, less the cost of its own opening, charged once: nothing of
\* an earlier cycle leaks into it.  Only a position that died stays at nothing.
EquityIsAccounted ==
  Open /\ day - 1 > position.entry =>
    IF ledger.died
    THEN Dead(position)
    ELSE position.equity = position.capital_base + ledger.gross - position.open_cost

\* Without avoid_assignment the position rolls every dte_target - roll_at_dte
\* rows exactly; avoiding assignment only adds rolls.  An assignment is an
\* expiry: there is none with an early roll, and two are never closer than the
\* life of a contract.
RollsOnSchedule ==
  LET cycle    == spec.dte_target - spec.roll_at_dte
      expected == IF Open THEN (day - 1 - first) \div cycle ELSE 0
  IN /\ IF spec.avoid_assignment THEN n_rolls >= expected ELSE n_rolls = expected
     /\ spec.roll_at_dte > 0 => events = <<>>
     /\ \A m, n \in 1..Len(events) : m < n => events[n] - events[m] >= spec.dte_target
=============================================================================
