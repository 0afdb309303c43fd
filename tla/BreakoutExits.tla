---------------------------- MODULE BreakoutExits ----------------------------
(***************************************************************************)
(* The two systems that enter on a breakout of past closes and look for    *)
(* their own exit, row by row: turtle (strategies/trend.py), which leaves  *)
(* at a shorter channel on the other side, and chandelier                  *)
(* (strategies/composite.py), which trails a multiple of the ATR behind    *)
(* the extreme of the trade.                                               *)
(***************************************************************************)
EXTENDS Integers, Sequences

CONSTANTS
  Quotes,                                \* closes, highs and lows
  Distances,                             \* values of mult * atr
  EntryWindow, ExitWindow,               \* of longs; the chandelier's of both sides
  ShortEntryWindow, ShortExitWindow,
  StopWindow                             \* rows before the ATR is defined

\* the grid's windows: an exit looks no further back than the opposite entry
ASSUME ChannelAssumption ==
  /\ Quotes \subseteq Int /\ Distances \subseteq Nat
  /\ ExitWindow \in 1..ShortEntryWindow /\ ShortExitWindow \in 1..EntryWindow
  /\ EntryWindow \in Nat /\ ShortEntryWindow \in Nat /\ StopWindow \in Nat

VARIABLES
  system,    \* "turtle" or "chandelier"
  closes,    \* the closes of the rows before, as many as a window or the ATR needs
  state,     \* the position: 1, 0 or -1
  extreme,   \* highest_since_entry, or lowest_since_entry, of the last trade
  since,     \* history: the highs of a long trade's rows, the lows of a short one's
  entered    \* history: the last row opened it

exitVars == <<system, closes, state, extreme, since, entered>>

Rows == {q \in [high : Quotes, low : Quotes, close : Quotes] :
           q.low <= q.close /\ q.close <= q.high}

Longest == CHOOSE n \in {EntryWindow, ShortEntryWindow, StopWindow} :
             \A m \in {EntryWindow, ShortEntryWindow, StopWindow} : m <= n

\* close.shift(1).rolling(window): of the closes before the row
Defined(window)  == Len(closes) >= window
LastCloses(window) == {closes[k] : k \in Len(closes) - window + 1 .. Len(closes)}
AtHigh(q, window) == \A c \in LastCloses(window) : q.close >= c
AtLow(q, window)  == \A c \in LastCloses(window) : q.close <= c

\* a row without its indicators is flat and leaves the state alone
Ready == IF system = "turtle" THEN Defined(EntryWindow) /\ Defined(ShortEntryWindow)
                              ELSE Defined(EntryWindow) /\ Defined(StopWindow)

ShortWindow == IF system = "turtle" THEN ShortEntryWindow ELSE EntryWindow

ExitsInit ==
  /\ system \in {"turtle", "chandelier"}
  /\ closes = <<>> /\ state = 0 /\ extreme = 0 /\ since = {} /\ entered = FALSE

Push(q) ==
  closes' = IF Len(closes) < Longest THEN Append(closes, q.close)
                                     ELSE Append(Tail(closes), q.close)

Wait(q) ==
  /\ ~Ready
  /\ Push(q)
  /\ UNCHANGED <<system, state, extreme, since, entered>>

StaleExtreme(q, side) == IF extreme = 0 THEN q.high ELSE extreme         \* fault
\* highest_since_entry and lowest_since_entry start at the row of the entry
FirstExtreme(q, side) == IF side = 1 THEN q.high ELSE q.low

Side(q) == CASE AtHigh(q, EntryWindow) -> 1
             [] ~AtHigh(q, EntryWindow) /\ AtLow(q, ShortWindow) -> -1
             [] OTHER -> 0

Seek(q) ==
  /\ Ready /\ state = 0
  /\ state' = Side(q)
  /\ IF Side(q) = 0 THEN UNCHANGED <<extreme, since, entered>>
     ELSE /\ extreme' = FirstExtreme(q, Side(q))
          /\ since' = {IF Side(q) = 1 THEN q.high ELSE q.low} /\ entered' = TRUE
  /\ Push(q) /\ UNCHANGED system

Pierced(q) ==                                                            \* fault
  IF state = 1 THEN \A c \in LastCloses(ExitWindow) : q.close < c
               ELSE \A c \in LastCloses(ShortExitWindow) : q.close > c
TurtleExit(q) == IF state = 1 THEN AtLow(q, ExitWindow) ELSE AtHigh(q, ShortExitWindow)

\* the extreme with the row itself
Extended(q) == CASE state = 1  -> IF q.high > extreme THEN q.high ELSE extreme
                 [] state = -1 -> IF q.low < extreme THEN q.low ELSE extreme

ChandelierExit(q, distance) ==
  IF state = 1 THEN q.close < Extended(q) - distance
               ELSE q.close > Extended(q) + distance

Keep(q, distance) ==
  /\ Ready /\ state # 0
  /\ IF system = "turtle"
     THEN /\ state' = (IF TurtleExit(q) THEN 0 ELSE state)
          /\ UNCHANGED extreme
     ELSE /\ state' = (IF ChandelierExit(q, distance) THEN 0 ELSE state)
          /\ extreme' = Extended(q)
  /\ since' = since \cup {IF state = 1 THEN q.high ELSE q.low} /\ entered' = FALSE
  /\ Push(q) /\ UNCHANGED system

ExitsNext ==
  \E q \in Rows : Wait(q) \/ Seek(q) \/ (\E distance \in Distances : Keep(q, distance))

ExitsSpec == ExitsInit /\ [][ExitsNext]_exitVars
-----------------------------------------------------------------------------
\* The stop of a trade trails the extreme of that trade alone, from its first
\* row to its last: nothing of an earlier trade is left in it.
TradeOwnsItsExtreme ==
  system = "chandelier" /\ state # 0 =>
    /\ extreme \in since
    /\ \A x \in since : IF state = 1 THEN x <= extreme ELSE x >= extreme

\* The channels agree with each other: no trade of the turtle is held past its
\* first row through a close that would have opened the opposite trade.
NeverHeldAgainstBreakout ==
  [][system = "turtle" /\ state # 0 /\ state' = state =>
       LET close_now == closes'[Len(closes')]
       IN IF state = 1 THEN \E c \in LastCloses(ShortEntryWindow) : close_now > c
                       ELSE \E c \in LastCloses(EntryWindow) : close_now < c]_exitVars
=============================================================================
