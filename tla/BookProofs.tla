----------------------------- MODULE BookProofs -----------------------------
(***************************************************************************)
(* Proofs about the daily loops that MCBooks checks one at a time: the stop *)
(* loops of the strategies, the regime labels with the stack that trades on *)
(* them, the cross-sectional portfolio, and the option overlays, for any   *)
(* price history, any strikes and any pricing formula within the           *)
(* no-arbitrage bounds.  They share no state.                              *)
(***************************************************************************)
EXTENDS OverlaySim, ParabolicSar, BreakoutExits, LayerStack, CrossSection, FiniteSetTheorems,
        TLAPS

(***************************************************************************)
(* The stop loops of the strategies, for every set of prices and windows:  *)
(* the stop of parabolic_sar only tightens within a trend, chandelier's    *)
(* trails the extreme of its own trade, and turtle is never held against a *)
(* breakout.                                                               *)
(*                                                                         *)
(* None of these is inductive as it stands.  The SAR's clamp pulls the     *)
(* stop back to the last two rows, so that the invariant has to say where  *)
(* these lie; a held turtle leaves no way out but its exit only while its  *)
(* channels stay defined, which they do since closes are never lost.       *)
(***************************************************************************)
SarType ==
  /\ trend_up \in BOOLEAN /\ turned \in BOOLEAN
  /\ sar \in Int /\ ep \in Int
  /\ last \in Bars /\ prior \in Bars

\* In a trend the stop is behind the extreme, the extreme beyond the last row,
\* and the stop behind the row before the last; behind the last row too, unless
\* that row turned the trend.
Ordered ==
  IF trend_up
  THEN /\ sar <= ep /\ last.high <= ep /\ sar <= prior.low
       /\ turned \/ sar <= last.low
  ELSE /\ ep <= sar /\ ep <= last.low /\ prior.high <= sar
       /\ turned \/ last.high <= sar

SarInv == SarType /\ Ordered

\* A row of the frame has integer prices, the low at most the high.
LEMMA BarIsOrdered ==
  ASSUME NEW b \in Bars
  PROVE  b.high \in Int /\ b.low \in Int /\ b.low <= b.high
BY PricesAssumption DEF Bars

\* The invariant holds on the first row.
LEMMA OrderedAtStart == SarInit => SarInv
<1> SUFFICES ASSUME SarInit PROVE SarInv
  OBVIOUS
<1>1. last.high \in Int /\ last.low \in Int /\ last.low <= last.high
  BY BarIsOrdered DEF SarInit
<1>2. SarType
  BY <1>1 DEF SarInit, SarType
<1>3. Ordered
  BY <1>1 DEF SarInit, Ordered
<1> QED BY <1>2, <1>3 DEF SarInv

\* The candidate lies between the stop and the extreme, and the clamp moves it
\* to the side of the stop that both last rows are not on.
LEMMA ClampIsBehind ==
  ASSUME SarInv, NEW c \in Candidates
  PROVE  /\ Clamp(c) \in Int
         /\ trend_up => /\ Clamp(c) <= ep /\ Clamp(c) <= last.low /\ Clamp(c) <= prior.low
                        /\ sar <= last.low => sar <= Clamp(c)
         /\ ~trend_up => /\ ep <= Clamp(c) /\ last.high <= Clamp(c) /\ prior.high <= Clamp(c)
                         /\ last.high <= sar => Clamp(c) <= sar
<1>1. /\ last.high \in Int /\ last.low \in Int /\ last.low <= last.high
      /\ prior.high \in Int /\ prior.low \in Int /\ prior.low <= prior.high
  BY BarIsOrdered DEF SarInv, SarType
<1>2. c \in Int /\ sar \in Int /\ ep \in Int /\ trend_up \in BOOLEAN
  BY DEF SarInv, SarType, Candidates
<1>3. CASE trend_up
  BY <1>1, <1>2, <1>3 DEF SarInv, Ordered, Candidates, Clamp, Lower, Higher
<1>4. CASE ~trend_up
  BY <1>1, <1>2, <1>4 DEF SarInv, Ordered, Candidates, Clamp, Lower, Higher
<1> QED BY <1>2, <1>3, <1>4

\* A turn: the stop moves to the old extreme, which the old clamp and with it
\* the turning candle are beyond.
LEMMA TurnKeepsOrder ==
  ASSUME SarInv, NEW candle \in Bars, NEW c \in Candidates, Turn(candle, c)
  PROVE  SarInv'
<1>1. /\ last.high \in Int /\ last.low \in Int /\ last.low <= last.high
      /\ candle.high \in Int /\ candle.low \in Int /\ candle.low <= candle.high
  BY BarIsOrdered DEF SarInv, SarType
<1>2. SarType'
  BY <1>1 DEF SarInv, SarType, Turn
<1>3. CASE trend_up
  <2>1. candle.low < Clamp(c) /\ Clamp(c) \in Int /\ Clamp(c) <= last.low
    BY <1>3, ClampIsBehind DEF Turn, Breached
  <2>2. last.high <= ep /\ ep \in Int
    BY <1>3 DEF SarInv, Ordered, SarType
  <2>3. trend_up' = FALSE /\ turned' = TRUE
    BY <1>3 DEF Turn
  <2>4. sar' = ep /\ ep' = candle.low /\ last' = candle /\ prior' = last
    BY <1>3 DEF Turn
  <2>5. Ordered'
    BY <1>1, <2>1, <2>2, <2>3, <2>4 DEF Ordered
  <2> QED BY <1>2, <2>5 DEF SarInv
<1>4. CASE ~trend_up
  <2>1. Clamp(c) < candle.high /\ Clamp(c) \in Int /\ last.high <= Clamp(c)
    BY <1>1, <1>4, ClampIsBehind DEF Turn, Breached
  <2>2. ep <= last.low /\ ep \in Int
    BY <1>4 DEF SarInv, Ordered, SarType
  <2>3. trend_up' = TRUE /\ turned' = TRUE
    BY <1>4 DEF Turn, SarInv, SarType
  <2>4. sar' = ep /\ ep' = candle.high /\ last' = candle /\ prior' = last
    BY <1>4 DEF Turn
  <2>5. Ordered'
    BY <1>1, <2>1, <2>2, <2>3, <2>4 DEF Ordered
  <2> QED BY <1>2, <2>5 DEF SarInv
<1> QED BY <1>3, <1>4

\* A candle within the trend.
LEMMA RideKeepsOrder ==
  ASSUME SarInv, NEW candle \in Bars, NEW c \in Candidates, Ride(candle, c)
  PROVE  SarInv'
<1>1. /\ last.high \in Int /\ last.low \in Int
      /\ candle.high \in Int /\ candle.low \in Int /\ candle.low <= candle.high
  BY BarIsOrdered DEF SarInv, SarType
<1>2. Clamp(c) \in Int /\ ep \in Int
  BY ClampIsBehind DEF SarInv, SarType
<1>3. Extreme(candle) \in Int
  BY <1>1, <1>2 DEF Extreme, Lower, Higher
<1>4. SarType'
  BY <1>2, <1>3 DEF SarInv, SarType, Ride
<1>5. CASE trend_up
  <2>1. Clamp(c) <= candle.low /\ Clamp(c) <= last.low /\ Clamp(c) <= ep
    BY <1>1, <1>2, <1>5, ClampIsBehind DEF Ride, Breached
  <2>2. ep <= Extreme(candle) /\ candle.high <= Extreme(candle)
    BY <1>1, <1>2, <1>5 DEF Extreme, Higher
  <2>3. Ordered'
    BY <1>1, <1>2, <1>3, <1>5, <2>1, <2>2 DEF Ordered, Ride
  <2> QED BY <1>4, <2>3 DEF SarInv
<1>6. CASE ~trend_up
  <2>1. candle.high <= Clamp(c) /\ last.high <= Clamp(c) /\ ep <= Clamp(c)
    BY <1>1, <1>2, <1>6, ClampIsBehind DEF Ride, Breached
  <2>2. Extreme(candle) <= ep /\ Extreme(candle) <= candle.low
    BY <1>1, <1>2, <1>6 DEF Extreme, Lower
  <2>3. Ordered'
    BY <1>1, <1>2, <1>3, <1>6, <2>1, <2>2 DEF Ordered, Ride
  <2> QED BY <1>4, <2>3 DEF SarInv
<1> QED BY <1>5, <1>6

\* The stop, the extreme and the last two rows keep their order on every candle.
THEOREM StopStaysBehind == SarSpec => []SarInv
<1>1. SarInv /\ [SarNext]_sarVars => SarInv'
  <2> SUFFICES ASSUME SarInv, [SarNext]_sarVars PROVE SarInv'
    OBVIOUS
  <2>1. CASE SarNext
    BY <2>1, TurnKeepsOrder, RideKeepsOrder DEF SarNext
  <2>2. CASE UNCHANGED sarVars
    BY <2>2 DEF sarVars, SarInv, SarType, Ordered
  <2> QED BY <2>1, <2>2
<1> QED BY <1>1, OrderedAtStart, PTL DEF SarSpec

\* As long as a trend lasts its stop only tightens, but for the day after a candle
\* that turned the trend and went past the new stop.
THEOREM StopOnlyTightens == SarSpec => StopTightens
<1>1. SarInv /\ [SarNext]_sarVars =>
        [trend_up' = trend_up => Tightens \/ (turned /\ ~Behind)]_sarVars
  <2> SUFFICES ASSUME SarInv, SarNext, trend_up' = trend_up
               PROVE  Tightens \/ (turned /\ ~Behind)
    OBVIOUS
  <2>1. PICK candle \in Bars, c \in Candidates : Turn(candle, c) \/ Ride(candle, c)
    BY DEF SarNext
  <2>2. Ride(candle, c)
    BY <2>1 DEF Turn, SarInv, SarType
  <2>3. sar' = Clamp(c)
    BY <2>2 DEF Ride
  <2>4. CASE Behind
    BY <2>3, <2>4, ClampIsBehind, BarIsOrdered DEF Behind, Tightens, SarInv, SarType
  <2>5. CASE ~Behind
    BY <2>5, BarIsOrdered DEF Behind, SarInv, SarType, Ordered
  <2> QED BY <2>4, <2>5
<1> QED BY <1>1, StopStaysBehind, PTL DEF SarSpec, StopTightens
-----------------------------------------------------------------------------
\* A trade keeps what it needs to be left again: its channels, and the extreme
\* of its own rows.
ExitsInv ==
  /\ system \in {"turtle", "chandelier"}
  /\ closes \in Seq(Int) /\ state \in {1, 0, -1}
  /\ extreme \in Int /\ since \in SUBSET Int
  /\ state # 0 => Ready
  /\ TradeOwnsItsExtreme

\* The windows, and the longest of them.
LEMMA Windows ==
  /\ EntryWindow \in Nat /\ ShortEntryWindow \in Nat /\ StopWindow \in Nat
  /\ ExitWindow \in 1 .. ShortEntryWindow /\ ShortExitWindow \in 1 .. EntryWindow
  /\ Longest \in Nat /\ Longest >= 1
  /\ EntryWindow <= Longest /\ ShortEntryWindow <= Longest /\ StopWindow <= Longest
<1> DEFINE W == {EntryWindow, ShortEntryWindow, StopWindow}
<1>1. /\ EntryWindow \in Nat /\ ShortEntryWindow \in Nat /\ StopWindow \in Nat
      /\ ExitWindow \in 1 .. ShortEntryWindow /\ ShortExitWindow \in 1 .. EntryWindow
  BY ChannelAssumption
<1>2. \E n \in W : \A m \in W : m <= n
  BY <1>1
<1>3. Longest \in W /\ \A m \in W : m <= Longest
  BY <1>2 DEF Longest
<1> QED BY <1>1, <1>3

\* A candle has integer prices.
LEMMA RowIsInt ==
  ASSUME NEW q \in Rows
  PROVE  q.high \in Int /\ q.low \in Int /\ q.close \in Int
BY ChannelAssumption DEF Rows

\* Pushing a close loses none that a window looks at.
LEMMA PushKeepsWindows ==
  ASSUME closes \in Seq(Int), NEW q \in Rows, Push(q)
  PROVE  /\ closes' \in Seq(Int)
         /\ Len(closes') \in Nat /\ Len(closes') >= 1
         /\ closes'[Len(closes')] = q.close
         /\ \A w \in Nat : w <= Longest /\ Len(closes) >= w => Len(closes') >= w
<1>1. q.close \in Int /\ Len(closes) \in Nat /\ Longest \in Nat /\ Longest >= 1
  BY RowIsInt, Windows
<1>2. CASE Len(closes) < Longest
  <2>1. closes' = Append(closes, q.close)
    BY <1>2 DEF Push
  <2> QED BY <1>1, <2>1
<1>3. CASE ~(Len(closes) < Longest)
  <2>1. closes' = Append(Tail(closes), q.close)
    BY <1>3 DEF Push
  <2>2. Tail(closes) \in Seq(Int) /\ Len(Tail(closes)) = Len(closes) - 1
    BY <1>1, <1>3
  <2> QED BY <1>1, <1>3, <2>1, <2>2
<1> QED BY <1>2, <1>3

\* What is defined stays defined.
LEMMA ReadyStays ==
  ASSUME ExitsInv, NEW q \in Rows, Push(q), Ready, system' = system
  PROVE  Ready'
<1>1. \A w \in Nat : w <= Longest /\ Len(closes) >= w => Len(closes') >= w
  BY PushKeepsWindows DEF ExitsInv
<1> QED BY <1>1, Windows DEF Ready, Defined

\* No row breaks the invariant.
LEMMA ExitsStep == ExitsInv /\ [ExitsNext]_exitVars => ExitsInv'
<1> SUFFICES ASSUME ExitsInv, [ExitsNext]_exitVars PROVE ExitsInv'
  OBVIOUS
<1>1. ASSUME NEW q \in Rows, Wait(q) PROVE ExitsInv'
  <2>1. state = 0 /\ state' = 0 /\ UNCHANGED <<system, extreme, since>>
    BY <1>1 DEF Wait, ExitsInv
  <2>2. closes' \in Seq(Int)
    BY <1>1, PushKeepsWindows DEF Wait, ExitsInv
  <2> QED BY <2>1, <2>2 DEF ExitsInv, TradeOwnsItsExtreme
<1>2. ASSUME NEW q \in Rows, Seek(q) PROVE ExitsInv'
  <2>1. q.high \in Int /\ q.low \in Int
    BY RowIsInt
  <2>2. closes' \in Seq(Int) /\ Ready' /\ system' = system
    BY <1>2, PushKeepsWindows, ReadyStays DEF Seek, ExitsInv
  <2>3. state' = Side(q) /\ Side(q) \in {1, 0, -1}
    BY <1>2 DEF Seek, Side
  <2>4. CASE Side(q) = 0
    <3>1. state' = 0 /\ UNCHANGED <<extreme, since>>
      BY <1>2, <2>3, <2>4 DEF Seek
    <3> QED BY <2>2, <3>1 DEF ExitsInv, TradeOwnsItsExtreme
  <2>5. CASE Side(q) # 0
    <3>1. /\ extreme' = IF Side(q) = 1 THEN q.high ELSE q.low
          /\ since' = {IF Side(q) = 1 THEN q.high ELSE q.low}
      BY <1>2, <2>5 DEF Seek, FirstExtreme
    <3>2. extreme' \in Int /\ since' = {extreme'}
      BY <2>1, <3>1
    <3>3. TradeOwnsItsExtreme'
      BY <3>2 DEF TradeOwnsItsExtreme
    <3> QED BY <2>2, <2>3, <3>2, <3>3 DEF ExitsInv
  <2> QED BY <2>4, <2>5
<1>3. ASSUME NEW q \in Rows, NEW distance \in Distances, Keep(q, distance) PROVE ExitsInv'
  <2>1. q.high \in Int /\ q.low \in Int
    BY RowIsInt
  <2>2. closes' \in Seq(Int) /\ Ready' /\ system' = system
    BY <1>3, PushKeepsWindows, ReadyStays DEF Keep, ExitsInv
  <2>3. state' \in {0, state} /\ state # 0
    BY <1>3 DEF Keep
  <2>4. since' = since \cup {IF state = 1 THEN q.high ELSE q.low}
    BY <1>3 DEF Keep
  <2>5. CASE system = "turtle"
    <3>1. extreme' = extreme
      BY <1>3, <2>5 DEF Keep
    <3> QED BY <2>1, <2>2, <2>3, <2>4, <2>5, <3>1 DEF ExitsInv, TradeOwnsItsExtreme
  <2>6. CASE system = "chandelier"
    <3>1. extreme' = Extended(q)
      BY <1>3, <2>6 DEF Keep
    <3>2. CASE state = 1
      <4>1. extreme' = IF q.high > extreme THEN q.high ELSE extreme
        BY <3>1, <3>2 DEF Extended
      <4>2. since' = since \cup {q.high}
        BY <2>4, <3>2
      <4>3. \A x \in since : x <= extreme
        BY <2>6, <3>2 DEF ExitsInv, TradeOwnsItsExtreme
      <4>4. extreme \in since /\ extreme \in Int /\ since \in SUBSET Int
        BY <2>6, <3>2 DEF ExitsInv, TradeOwnsItsExtreme
      <4>5. extreme' \in since' /\ \A x \in since' : x <= extreme'
        BY <2>1, <4>1, <4>2, <4>3, <4>4
      <4>6. TradeOwnsItsExtreme'
        BY <2>3, <3>2, <4>5 DEF TradeOwnsItsExtreme
      <4> QED BY <2>1, <2>2, <2>3, <4>1, <4>2, <4>4, <4>6 DEF ExitsInv
    <3>3. CASE state = -1
      <4>1. extreme' = IF q.low < extreme THEN q.low ELSE extreme
        BY <3>1, <3>3 DEF Extended
      <4>2. since' = since \cup {q.low}
        BY <2>4, <3>3
      <4>3. \A x \in since : x >= extreme
        BY <2>6, <3>3 DEF ExitsInv, TradeOwnsItsExtreme
      <4>4. extreme \in since /\ extreme \in Int /\ since \in SUBSET Int
        BY <2>6, <3>3 DEF ExitsInv, TradeOwnsItsExtreme
      <4>5. extreme' \in since' /\ \A x \in since' : x >= extreme'
        BY <2>1, <4>1, <4>2, <4>3, <4>4
      <4>6. TradeOwnsItsExtreme'
        BY <2>3, <3>3, <4>5 DEF TradeOwnsItsExtreme
      <4> QED BY <2>1, <2>2, <2>3, <4>1, <4>2, <4>4, <4>6 DEF ExitsInv
    <3> QED BY <2>3, <3>2, <3>3 DEF ExitsInv
  <2> QED BY <2>5, <2>6 DEF ExitsInv
<1>4. CASE UNCHANGED exitVars
  BY <1>4 DEF exitVars, ExitsInv, TradeOwnsItsExtreme, Ready, Defined
<1> QED BY <1>1, <1>2, <1>3, <1>4 DEF ExitsNext

\* Before the first row there is no trade.
LEMMA ExitsStart == ExitsInit => ExitsInv
BY DEF ExitsInit, ExitsInv, TradeOwnsItsExtreme

\* Chandelier's stop trails the extreme of the rows of its own trade.
THEOREM StopBelongsToTrade == ExitsSpec => []TradeOwnsItsExtreme
<1>1. ExitsInv => TradeOwnsItsExtreme
  BY DEF ExitsInv
<1> QED BY <1>1, ExitsStart, ExitsStep, PTL DEF ExitsSpec

\* Turtle leaves a trade on the row that would open the opposite one.
THEOREM HeldWithTheTrend == ExitsSpec => NeverHeldAgainstBreakout
<1> DEFINE OneMove ==
      system = "turtle" /\ state # 0 /\ state' = state =>
        LET close_now == closes'[Len(closes')]
        IN IF state = 1 THEN \E c \in LastCloses(ShortEntryWindow) : close_now > c
                        ELSE \E c \in LastCloses(EntryWindow) : close_now < c
<1>1. ExitsInv /\ [ExitsNext]_exitVars => [OneMove]_exitVars
  <2> SUFFICES ASSUME ExitsInv, ExitsNext, system = "turtle", state # 0, state' = state
               PROVE  IF state = 1
                      THEN \E c \in LastCloses(ShortEntryWindow) : closes'[Len(closes')] > c
                      ELSE \E c \in LastCloses(EntryWindow) : closes'[Len(closes')] < c
    OBVIOUS
  <2>1. Ready /\ closes \in Seq(Int) /\ state \in {1, -1}
    BY DEF ExitsInv
  <2>2. PICK q \in Rows, distance \in Distances : Keep(q, distance)
    BY <2>1 DEF ExitsNext, Wait, Seek
  <2>3. closes'[Len(closes')] = q.close /\ q.close \in Int
    BY <2>1, <2>2, PushKeepsWindows, RowIsInt DEF Keep
  <2>4. ~TurtleExit(q)
    BY <2>2 DEF Keep
  <2>5. Len(closes) >= EntryWindow /\ Len(closes) >= ShortEntryWindow /\ Len(closes) \in Nat
    BY <2>1 DEF Ready, Defined
  <2>6. ASSUME NEW v \in Nat, NEW w \in Nat, v <= w, w <= Len(closes)
        PROVE  LastCloses(v) \subseteq LastCloses(w) /\ LastCloses(v) \subseteq Int
    <3>1. /\ Len(closes) - v + 1 .. Len(closes) \subseteq Len(closes) - w + 1 .. Len(closes)
          /\ Len(closes) - v + 1 .. Len(closes) \subseteq 1 .. Len(closes)
      BY <2>5, <2>6
    <3>2. \A k \in 1 .. Len(closes) : closes[k] \in Int
      BY <2>1
    <3> QED BY <3>1, <3>2 DEF LastCloses
  <2>7. CASE state = 1
    <3>1. PICK c \in LastCloses(ExitWindow) : ~(q.close <= c)
      BY <2>4, <2>7 DEF TurtleExit, AtLow
    <3>2. c \in LastCloses(ShortEntryWindow) /\ c \in Int
      BY <2>5, <2>6, Windows
    <3>3. closes'[Len(closes')] > c
      BY <2>3, <3>1, <3>2
    <3> QED BY <2>7, <3>2, <3>3
  <2>8. CASE state = -1
    <3>1. PICK c \in LastCloses(ShortExitWindow) : ~(q.close >= c)
      BY <2>4, <2>8 DEF TurtleExit, AtHigh
    <3>2. c \in LastCloses(EntryWindow) /\ c \in Int
      BY <2>5, <2>6, Windows
    <3>3. closes'[Len(closes')] < c
      BY <2>3, <3>1, <3>2
    <3> QED BY <2>8, <3>2, <3>3
  <2> QED BY <2>1, <2>7, <2>8
<1> QED BY <1>1, ExitsStart, ExitsStep, PTL DEF ExitsSpec, NeverHeldAgainstBreakout
-----------------------------------------------------------------------------
(***************************************************************************)
(* The refit schedule of the two detectors that refit labels every row     *)
(* from the latest refit, for every frame, min_train and refit_every; and  *)
(* the stack that trades on the labels knows nothing of the future and     *)
(* takes the label of the latest day both calendars have, for any two      *)
(* calendars.                                                              *)
(***************************************************************************)
\* The next refit is on the schedule, the rows before it are labelled as the
\* schedule says, and the rows before the first refit keep the default.
Scheduled ==
  /\ refit \in Int /\ MinTrain <= refit /\ (refit - MinTrain) % RefitEvery = 0
  /\ \A t \in 0 .. frame - 1 :
       /\ t < MinTrain => label[t] = Default
       /\ MinTrain <= t /\ t < refit =>
            /\ label[t].seen \in RefitPoints
            /\ label[t].seen <= t /\ t < label[t].seen + RefitEvery

LabelInv ==
  /\ frame \in Int
  /\ detector \in Refitters => Scheduled

\* A multiple and the next one.
LEMMA NextMultiple ==
  ASSUME NEW a \in Int, NEW n \in Nat \ {0}, a % n = 0
  PROVE  (a + n) % n = 0
<1> DEFINE q == a \div n
           p == (a + n) \div n
           r == (a + n) % n
<1>1. q \in Int /\ a = n * q
  OBVIOUS
<1>2. p \in Int /\ r \in 0 .. n - 1 /\ a + n = n * p + r
  OBVIOUS
<1> HIDE DEF q, p, r
<1>3. r = n * (q + 1 - p)
  BY <1>1, <1>2
<1>4. q + 1 - p \in Int
  BY <1>1, <1>2
<1>5. r = 0
  <2>1. CASE q + 1 - p >= 1
    BY <1>2, <1>3, <1>4, <2>1
  <2>2. CASE q + 1 - p <= 0
    BY <1>2, <1>3, <1>4, <2>2
  <2> QED BY <1>4, <2>1, <2>2
<1> QED BY <1>5 DEF r

\* Before the first refit nothing is labelled and the schedule is at its start.
LEMMA ScheduledAtStart == RegimeInit => LabelInv
<1> SUFFICES ASSUME RegimeInit PROVE LabelInv
  OBVIOUS
<1>1. frame \in Int /\ MinTrain \in Int /\ RefitEvery \in Nat \ {0}
  BY FrameAssumption, ScheduleAssumption DEF RegimeInit
<1>2. (MinTrain - MinTrain) % RefitEvery = 0
  BY <1>1
<1>3. Scheduled
  BY <1>1, <1>2 DEF RegimeInit, Scheduled
<1> QED BY <1>1, <1>3 DEF LabelInv

\* A refit labels its span up to the next refit and no row before itself.
LEMMA RefitKeepsSchedule ==
  ASSUME LabelInv, NEW regime \in Regimes, Refit(regime)
  PROVE  LabelInv'
<1>1. /\ Scheduled /\ refit \in Int /\ frame \in Int /\ refit < frame
      /\ frame' = frame /\ refit' = refit + RefitEvery
  BY DEF LabelInv, Refit, Scheduled
<1>2. MinTrain \in Int /\ RefitEvery \in Int /\ RefitEvery > 0 /\ RefitEvery \in Nat \ {0}
  BY ScheduleAssumption
<1>3. (refit' - MinTrain) % RefitEvery = 0
  <2>1. (refit - MinTrain) % RefitEvery = 0 /\ refit - MinTrain \in Int
    BY <1>1, <1>2 DEF Scheduled
  <2>2. (refit - MinTrain + RefitEvery) % RefitEvery = 0
    BY <1>2, <2>1, NextMultiple
  <2>3. refit' - MinTrain = refit - MinTrain + RefitEvery
    BY <1>1, <1>2
  <2> QED BY <2>2, <2>3
<1>4. RefitPoints' = RefitPoints
  BY <1>1 DEF RefitPoints
<1>5. refit \in RefitPoints
  BY <1>1, <1>2 DEF RefitPoints, Scheduled
<1>6. ASSUME NEW t \in 0 .. frame' - 1
      PROVE  /\ t < MinTrain => label'[t] = Default
             /\ MinTrain <= t /\ t < refit' =>
                  /\ label'[t].seen \in RefitPoints'
                  /\ label'[t].seen <= t /\ t < label'[t].seen + RefitEvery
  <2>1. t \in 0 .. frame - 1 /\ t \in Int
    BY <1>1, <1>6
  <2>2. CASE t < refit
    <3>1. label'[t] = label[t]
      BY <1>1, <1>2, <2>1, <2>2 DEF Refit
    <3> QED BY <1>1, <1>4, <2>1, <2>2, <3>1 DEF Scheduled
  <2>3. CASE refit <= t /\ t < refit'
    <3>1. t \in refit .. SpanEnd(refit) - 1
      BY <1>1, <1>2, <2>1, <2>3 DEF SpanEnd
    <3>2. label'[t].seen = refit
      BY <2>1, <3>1 DEF Refit, LastSeen
    <3>3. MinTrain <= t
      BY <1>1, <1>2, <2>1, <2>3 DEF Scheduled
    <3> QED BY <1>1, <1>2, <1>4, <1>5, <2>1, <2>3, <3>2, <3>3
  <2>4. CASE refit' <= t
    BY <1>1, <1>2, <2>1, <2>4 DEF Scheduled
  <2> QED BY <1>1, <1>2, <2>1, <2>2, <2>3, <2>4
<1>7. Scheduled'
  BY <1>1, <1>2, <1>3, <1>6 DEF Scheduled
<1> QED BY <1>1, <1>7 DEF LabelInv

\* Every row is labelled by the latest refit at or before it.
THEOREM LatestRefitLabels == RegimeSpec => []LabelledByLatestRefit
<1>1. LabelInv /\ [RegimeNext]_regimeVars => LabelInv'
  <2> SUFFICES ASSUME LabelInv, [RegimeNext]_regimeVars PROVE LabelInv'
    OBVIOUS
  <2>1. CASE \E regime \in Regimes : Refit(regime)
    BY <2>1, RefitKeepsSchedule
  <2>2. CASE \E above \in SUBSET (0 .. frame - 1) : Filter(above)
    <3>1. detector' = detector /\ frame' = frame /\ detector \notin Refitters
      BY <2>2 DEF Filter, Filters, Refitters
    <3> QED BY <3>1 DEF LabelInv
  <2>3. CASE UNCHANGED regimeVars
    BY <2>3 DEF regimeVars, LabelInv, Scheduled, RefitPoints
  <2> QED BY <2>1, <2>2, <2>3 DEF RegimeNext
<1>2. LabelInv => LabelledByLatestRefit
  <2> SUFFICES ASSUME LabelInv, detector \in Refitters, NEW t \in 0 .. frame - 1
               PROVE  IF t < MinTrain THEN label[t] = Default
                      ELSE t < refit =>
                        /\ label[t].seen \in RefitPoints
                        /\ label[t].seen <= t /\ t < label[t].seen + RefitEvery
    BY DEF LabelledByLatestRefit
  <2>1. Scheduled /\ t \in Int /\ MinTrain \in Int
    BY ScheduleAssumption DEF LabelInv
  <2> QED BY <2>1 DEF Scheduled
<1> QED BY <1>1, <1>2, ScheduledAtStart, PTL DEF RegimeSpec
-----------------------------------------------------------------------------
\* the days of a calendar before a day
Before(P, d) == {x \in P : x < d}

\* The later the day, the more days before it.
LEMMA BeforeGrows ==
  ASSUME NEW P \in SUBSET Nat, NEW x \in Int, NEW y \in Int, x <= y
  PROVE  Before(P, x) \in SUBSET Before(P, y)
<1> SUFFICES ASSUME NEW z \in Before(P, x) PROVE z \in Before(P, y)
  OBVIOUS
<1>1. z \in P /\ z < x
  BY DEF Before
<1>2. z \in Int
  BY <1>1
<1>3. z < y
  BY <1>1, <1>2
<1> QED BY <1>1, <1>3 DEF Before

\* Counting the days before a day numbers a calendar from 0 without gaps.
LEMMA RowsNumberDays ==
  ASSUME NEW P \in SUBSET Nat, IsFiniteSet(P)
  PROVE  /\ \A d \in Nat : IsFiniteSet(Before(P, d)) /\ Cardinality(Before(P, d)) \in Nat
         /\ \A x, y \in P : x < y => Cardinality(Before(P, x)) < Cardinality(Before(P, y))
         /\ \A x \in P : Cardinality(Before(P, x)) \in 0 .. Cardinality(P) - 1
         /\ \A r \in 0 .. Cardinality(P) - 1 : \E x \in P : Cardinality(Before(P, x)) = r
<1>1. ASSUME NEW d \in Nat
      PROVE  IsFiniteSet(Before(P, d)) /\ Cardinality(Before(P, d)) \in Nat
  BY FS_Subset, FS_CardinalityType DEF Before
<1>2. Cardinality(P) \in Nat
  BY FS_CardinalityType
<1>3. ASSUME NEW x \in P, NEW y \in P, x < y
      PROVE  Cardinality(Before(P, x)) < Cardinality(Before(P, y))
  <2>1. x \in Nat /\ y \in Nat
    OBVIOUS
  <2>2. Before(P, x) \in SUBSET Before(P, y)
    BY <1>3, <2>1, BeforeGrows
  <2>3. x \in Before(P, y) /\ x \notin Before(P, x)
    BY <1>3, <2>1 DEF Before
  <2>4. /\ IsFiniteSet(Before(P, y))
        /\ Cardinality(Before(P, x)) \in Nat /\ Cardinality(Before(P, y)) \in Nat
    BY <1>1
  <2> QED BY <2>2, <2>3, <2>4, FS_Subset
<1>4. ASSUME NEW x \in P PROVE Cardinality(Before(P, x)) \in 0 .. Cardinality(P) - 1
  <2>1. Before(P, x) \in SUBSET P /\ Before(P, x) # P
    BY DEF Before
  <2>2. Cardinality(Before(P, x)) \in Nat
    BY <1>1
  <2> QED BY <1>2, <2>1, <2>2, FS_Subset
<1> DEFINE T == 0 .. Cardinality(P) - 1
           g == [x \in P |-> Cardinality(Before(P, x))]
<1>5. g \in [P -> T]
  BY <1>4
<1>6. \A x, y \in P : g[x] = g[y] => x = y
  <2> SUFFICES ASSUME NEW x \in P, NEW y \in P, g[x] = g[y] PROVE x = y
    OBVIOUS
  <2>1. Cardinality(Before(P, x)) = Cardinality(Before(P, y))
        /\ Cardinality(Before(P, x)) \in Nat
    BY <1>1
  <2> QED BY <1>3, <2>1
<1>7. IsFiniteSet(T) /\ Cardinality(T) = Cardinality(P)
  <2>1. /\ IsFiniteSet(T)
        /\ Cardinality(T) = IF 0 > Cardinality(P) - 1 THEN 0 ELSE Cardinality(P) - 1 - 0 + 1
    BY <1>2, FS_Interval
  <2> QED BY <1>2, <2>1
<1>8. g \in Surjection(P, T)
  <2>1. g \in Injection(P, T)
    BY <1>5, <1>6 DEF Injection, IsInjective
  <2> HIDE DEF g, T
  <2> QED BY <1>7, <2>1, FS_Injection
<1>9. ASSUME NEW r \in T PROVE \E x \in P : Cardinality(Before(P, x)) = r
  BY <1>8 DEF Surjection
<1> QED BY <1>1, <1>3, <1>4, <1>9

\* The first day after a day, when there is one.
LEMMA FirstDayAfter ==
  ASSUME NEW P \in SUBSET Nat, IsFiniteSet(P), NEW b \in Int, -1 <= b,
         \E x \in P : x > b
  PROVE  \E d \in P : d > b /\ \A e \in P : e > b => d <= e
<1> DEFINE m == Cardinality(Before(P, b + 1))
<1>1. /\ IsFiniteSet(Before(P, b + 1)) /\ m \in Nat /\ Cardinality(P) \in Nat
  <2>1. b + 1 \in Nat
    OBVIOUS
  <2>2. Cardinality(P) \in Nat
    BY FS_CardinalityType
  <2> QED BY <2>1, <2>2, RowsNumberDays
<1>2. m \in 0 .. Cardinality(P) - 1
  <2>1. Before(P, b + 1) \in SUBSET P /\ Before(P, b + 1) # P
    BY DEF Before
  <2> QED BY <1>1, <2>1, FS_Subset
<1>3. PICK d \in P : Cardinality(Before(P, d)) = m
  BY <1>2, RowsNumberDays
<1>4. IsFiniteSet(Before(P, d)) /\ d \in Nat
  BY RowsNumberDays
<1>5. d > b
  <2> SUFFICES ASSUME d <= b PROVE FALSE
    BY <1>4
  <2>1. Before(P, d) \in SUBSET Before(P, b + 1)
    BY <1>4, BeforeGrows
  <2>2. d \in Before(P, b + 1) /\ d \notin Before(P, d)
    BY <1>4 DEF Before
  <2> QED BY <1>1, <1>3, <2>1, <2>2, FS_Subset
<1>6. Before(P, b + 1) = Before(P, d)
  <2>1. Before(P, b + 1) \in SUBSET Before(P, d)
    BY <1>4, <1>5, BeforeGrows
  <2> QED BY <1>3, <1>4, <2>1, FS_Subset
<1>7. ASSUME NEW e \in P, e > b PROVE d <= e
  <2>1. e \notin Before(P, b + 1)
    BY <1>7 DEF Before
  <2>2. e \notin Before(P, d) /\ e \in Nat
    BY <1>6, <2>1
  <2> QED BY <1>4, <2>2 DEF Before
<1> QED BY <1>5, <1>7
-----------------------------------------------------------------------------
Planned ==
  plan \in [configs : Stacks, calendar : Calendars, overrides : Overrides,
            method : Methods, regimes : BOOLEAN]

\* The labels: each has seen no row after its own.
Labelled ==
  /\ frame \in Nat /\ refit \in Nat /\ detector = "hmm"
  /\ plan.regimes => frame = Cardinality(plan.calendar.proxy)
  /\ \A t \in 0 .. frame - 1 : label[t].seen \in -1 .. t

\* What is decided on a day, and what a day earns, knows of no later one.
Causal ==
  /\ bar \in Int /\ -1 <= bar
  /\ DayOf(aligned.seen) \in Int /\ DayOf(aligned.seen) <= bar
  /\ decided.knew \in Int /\ decided.knew <= bar
  /\ earning.knew \in Int /\ (bar >= 0 => earning.knew < bar)

\* the days both calendars have, up to the last row
Shared == {d \in plan.calendar.proxy \cap plan.calendar.asset : d <= bar}

\* The label in force is that of the last shared day, and the routing obeys it.
Aligned ==
  plan.regimes =>
    /\ Shared = {} => aligned = NoLabel
    /\ Shared # {} => \E d \in Shared : /\ \A e \in Shared : e <= d
                                         /\ aligned = label[RowOn(d)]
    /\ decided.target["+routing"] # 0 => aligned.regime = Preferred(1)

StackInv ==
  /\ Planned /\ Labelled /\ Causal /\ Aligned
  /\ bar >= 0 => Classified

\* Both calendars of a plan are finite sets of days, and a stack has a first
\* config, whose family prefers one of the regimes.
LEMMA PlanIsSound ==
  ASSUME Planned
  PROVE  /\ plan.calendar.proxy \in SUBSET Nat /\ IsFiniteSet(plan.calendar.proxy)
         /\ plan.calendar.asset \in SUBSET Nat /\ IsFiniteSet(plan.calendar.asset)
         /\ Len(plan.configs) \in Int
         /\ plan.regimes \in BOOLEAN
         /\ Preferred(1) \in Regimes
<1>1. /\ plan.calendar \in Calendars /\ plan.configs \in Stacks
      /\ plan.overrides \in Overrides /\ plan.regimes \in BOOLEAN
  BY DEF Planned
<1>2. /\ plan.calendar.proxy \in SUBSET Nat /\ IsFiniteSet(plan.calendar.proxy)
      /\ plan.calendar.asset \in SUBSET Nat /\ IsFiniteSet(plan.calendar.asset)
  BY <1>1, StackAssumption
<1>3. Len(plan.configs) \in Int /\ plan.configs[1] \in Families
  <2>1. plan.configs \in Seq(Families) /\ plan.configs # <<>>
    BY <1>1, StackAssumption
  <2> QED BY <2>1
<1>4. Preferred(1) \in Regimes
  <2>1. \A f \in DOMAIN plan.overrides : plan.overrides[f] \in Regimes
    BY <1>1, StackAssumption
  <2>2. PreferredRegime[Category[plan.configs[1]]] \in Regimes
    BY <1>3, PreferredAssumption
  <2> QED BY <2>1, <2>2 DEF Preferred
<1> QED BY <1>1, <1>2, <1>3, <1>4

\* The day of a row is the day that has the row, and an earlier row has an
\* earlier day.
LEMMA DayOfRow ==
  ASSUME Planned, NEW d \in plan.calendar.proxy, NEW r \in -1 .. RowOn(d)
  PROVE  DayOf(r) \in Int /\ DayOf(r) <= d
<1> DEFINE P == plan.calendar.proxy
<1>1. P \in SUBSET Nat /\ IsFiniteSet(P)
  BY PlanIsSound
<1>2. \A x : RowOn(x) = Cardinality(Before(P, x))
  BY DEF RowOn, Before
<1> HIDE DEF P
<1>3. CASE r = -1
  BY <1>1, <1>3 DEF DayOf, P
<1>4. CASE r # -1
  <2>1. RowOn(d) \in 0 .. Cardinality(P) - 1 /\ Cardinality(P) \in Nat
    BY <1>1, <1>2, RowsNumberDays, FS_CardinalityType DEF P
  <2>2. r \in 0 .. Cardinality(P) - 1
    BY <1>4, <2>1
  <2>3. \E x \in P : RowOn(x) = r
    BY <1>1, <1>2, <2>2, RowsNumberDays
  <2>4. DayOf(r) \in P /\ RowOn(DayOf(r)) = r
    BY <1>4, <2>3 DEF DayOf, P
  <2>5. ~(d < DayOf(r))
    <3>1. d < DayOf(r) => RowOn(d) < RowOn(DayOf(r))
      BY <1>1, <1>2, <2>4, RowsNumberDays DEF P
    <3> QED BY <2>1, <2>4, <3>1
  <2>6. DayOf(r) \in Nat /\ d \in Nat
    BY <1>1, <2>4 DEF P
  <2> QED BY <2>5, <2>6
<1> QED BY <1>3, <1>4

\* The stack before its first row.
LEMMA StackStartsSound == StackInit => StackInv
<1> SUFFICES ASSUME StackInit PROVE StackInv
  OBVIOUS
<1>1. Planned
  BY DEF StackInit, StackStart, Planned
<1>2. /\ plan.calendar.proxy \in SUBSET Nat /\ IsFiniteSet(plan.calendar.proxy)
      /\ plan.regimes \in BOOLEAN
  BY <1>1, PlanIsSound
<1>3. Labelled
  <2>1. frame \in Nat
    BY <1>2, FS_CardinalityType DEF StackInit
  <2>2. refit = MinTrain /\ MinTrain \in Nat
    BY ScheduleAssumption DEF StackInit, RegimeInit
  <2>3. \A t \in 0 .. frame - 1 : label[t] = Default
    BY DEF StackInit, RegimeInit
  <2>4. \A t \in 0 .. frame - 1 : label[t].seen = -1 /\ -1 \in -1 .. t
    BY <2>1, <2>3 DEF Default
  <2> QED BY <2>1, <2>2, <2>4 DEF StackInit, Labelled
<1>4. bar = -1 /\ aligned = NoLabel /\ decided.knew = -1 /\ earning = decided
  BY DEF StackInit, StackStart
<1>5. Causal
  BY <1>4 DEF Causal, DayOf, NoLabel
<1>6. Shared = {}
  BY <1>2, <1>4 DEF Shared
<1>7. plan.regimes => decided.target["+routing"] = 0
  BY DEF StackInit, StackStart, Surviving, Steps, CanRoute
<1>8. Aligned
  BY <1>4, <1>6, <1>7 DEF Aligned
<1> QED BY <1>1, <1>3, <1>4, <1>5, <1>8 DEF StackInv

\* A refit, before the first row of the asset: no label sees past its own row.
LEMMA LabelIsSound ==
  ASSUME StackInv, NEW regime \in Regimes, Label(regime)
  PROVE  StackInv'
<1>1. /\ refit < frame /\ frame' = frame /\ detector' = detector
      /\ refit' = refit + RefitEvery /\ UNCHANGED stackVars
  BY DEF Label, Refit
<1>2. /\ frame \in Nat /\ refit \in Nat /\ RefitEvery \in Nat
  BY ScheduleAssumption DEF StackInv, Labelled
<1>3. bar = -1
  <2>1. ~Classified
    BY <1>1, <1>2 DEF Classified, StackInv, Labelled, Refitters
  <2> QED BY <2>1 DEF StackInv, Causal
<1>4. Planned' /\ Causal'
  BY <1>1 DEF stackVars, StackInv, Planned, Causal, DayOf, RowOn
<1>5. Labelled'
  <2>1. ASSUME NEW t \in 0 .. frame - 1 PROVE label'[t].seen \in -1 .. t
    <3>1. CASE t \in refit .. SpanEnd(refit) - 1
      <4>1. label'[t].seen = refit
        BY <3>1 DEF Label, Refit, LastSeen
      <4> QED BY <1>2, <3>1, <4>1
    <3>2. CASE t \notin refit .. SpanEnd(refit) - 1
      <4>1. label'[t] = label[t]
        BY <3>2 DEF Label, Refit
      <4> QED BY <4>1 DEF StackInv, Labelled
    <3> QED BY <3>1, <3>2
  <2> QED BY <1>1, <1>2, <2>1 DEF stackVars, StackInv, Labelled
<1>6. Shared = {} /\ Shared' = {}
  <2>1. plan.calendar.proxy \in SUBSET Nat
    BY PlanIsSound DEF StackInv
  <2>2. Shared = {}
    BY <1>3, <2>1 DEF Shared
  <2> QED BY <1>1, <2>2 DEF Shared, stackVars
<1>7. Aligned'
  BY <1>1, <1>6 DEF StackInv, Aligned, stackVars, Preferred
<1> QED BY <1>1, <1>3, <1>4, <1>5, <1>7 DEF StackInv, stackVars

\* The routed exposure of a row with a label its first config does not prefer
\* is nothing.
LEMMA RoutingObeysLabel ==
  ASSUME Planned, plan.regimes, NEW positions, NEW scale, NEW lab,
         Final("+routing", positions, scale, lab) # 0
  PROVE  lab.regime = Preferred(1)
<1>1. Len(plan.configs) \in Int
  BY PlanIsSound
<1>2. Final("+routing", positions, scale, lab)
        = Len(plan.configs) * Signal("+routing", 1, positions, scale, lab)
  BY DEF Final, Combining
<1>3. Routing("+routing")
  BY DEF Routing, CanRoute
<1>4. lab.regime # Preferred(1) => Signal("+routing", 1, positions, scale, lab) = 0
  BY <1>3 DEF Signal, Routed
<1> QED BY <1>1, <1>2, <1>4

\* One row of the stack.
LEMMA CloseIsSound ==
  ASSUME StackInv, NEW readings, NEW scale, Close(readings, scale)
  PROVE  StackInv'
<1> DEFINE d == NextDay
<1>1. /\ plan.calendar.proxy \in SUBSET Nat /\ IsFiniteSet(plan.calendar.proxy)
      /\ plan.calendar.asset \in SUBSET Nat /\ IsFiniteSet(plan.calendar.asset)
      /\ plan.regimes \in BOOLEAN
  BY PlanIsSound DEF StackInv
<1>2. bar \in Int /\ -1 <= bar
  BY DEF StackInv, Causal
<1>3. Ahead # {} /\ Classified
  BY DEF Close, Trade
<1>4. /\ bar' = d
      /\ aligned' = InForce(d)
      /\ decided'.knew = Max2(d, DayOf(aligned'.seen))
      /\ decided'.target = [s \in Surviving |-> Final(s, raw', scale, aligned')]
      /\ earning' = decided
      /\ plan' = plan /\ UNCHANGED regimeVars
  BY DEF Close, Trade, Shifted
<1>5. d \in Ahead /\ \A e \in Ahead : d <= e
  <2>1. \E x \in plan.calendar.asset : x > bar
    BY <1>3 DEF Ahead
  <2>2. \E x \in plan.calendar.asset : x > bar /\ \A e \in plan.calendar.asset : e > bar => x <= e
    BY <1>1, <1>2, <2>1, FirstDayAfter
  <2>3. \E x \in Ahead : \A e \in Ahead : x <= e
    BY <2>2 DEF Ahead
  <2> QED BY <2>3 DEF NextDay
<1>6. d \in plan.calendar.asset /\ d \in Nat /\ d > bar
  BY <1>1, <1>5 DEF Ahead
<1> HIDE DEF d
<1>7. Planned' /\ Labelled'
  BY <1>4 DEF StackInv, Planned, Labelled, regimeVars
<1>8. ASSUME plan.regimes, d \in plan.calendar.proxy
      PROVE  /\ aligned' = label[RowOn(d)] /\ RowOn(d) \in 0 .. frame - 1
             /\ aligned'.seen \in -1 .. RowOn(d)
  <2>1. aligned' = label[RowOn(d)]
    BY <1>4, <1>8 DEF InForce, CanRoute
  <2>2. RowOn(d) \in 0 .. frame - 1
    <3>1. RowOn(d) = Cardinality(Before(plan.calendar.proxy, d))
      BY DEF RowOn, Before
    <3> QED BY <1>1, <1>8, <3>1, RowsNumberDays DEF StackInv, Labelled
  <2> QED BY <2>1, <2>2 DEF StackInv, Labelled
<1>9. ASSUME ~(plan.regimes /\ d \in plan.calendar.proxy)
      PROVE  aligned' = aligned
  BY <1>4, <1>9 DEF InForce, CanRoute
<1>10. DayOf(aligned'.seen) \in Int /\ DayOf(aligned'.seen) <= d
  <2>1. CASE plan.regimes /\ d \in plan.calendar.proxy
    BY <1>8, <2>1, DayOfRow DEF StackInv
  <2>2. CASE ~(plan.regimes /\ d \in plan.calendar.proxy)
    BY <1>2, <1>6, <1>9, <2>2 DEF StackInv, Causal
  <2> QED BY <2>1, <2>2
<1>11. DayOf(aligned.seen)' = DayOf(aligned'.seen)
  BY <1>4 DEF DayOf, RowOn
<1>12. Causal'
  <2>1. decided'.knew \in Int /\ decided'.knew <= d
    BY <1>4, <1>6, <1>10 DEF Max2
  <2>2. earning'.knew \in Int /\ earning'.knew < d
    BY <1>2, <1>4, <1>6 DEF StackInv, Causal
  <2>3. bar' \in Int /\ -1 <= bar'
    BY <1>4, <1>6
  <2> QED BY <1>4, <1>10, <1>11, <2>1, <2>2, <2>3 DEF Causal
<1>13. Aligned'
  <2> SUFFICES ASSUME plan.regimes PROVE Aligned'
    BY <1>4 DEF Aligned
  <2>1. \A e \in Shared : e \in Int /\ e < d
    BY <1>1, <1>2, <1>6 DEF Shared
  <2>2. Shared' = IF d \in plan.calendar.proxy THEN Shared \cup {d} ELSE Shared
    <3>1. \A x \in plan.calendar.asset : x <= d <=> (x <= bar \/ x = d)
      BY <1>1, <1>2, <1>5, <1>6 DEF Ahead
    <3> QED BY <1>4, <1>6, <3>1 DEF Shared
  <2>3. decided'.target["+routing"] # 0 => aligned'.regime = Preferred(1)
    <3>1. "+routing" \in Surviving
      BY DEF Surviving, Steps, CanRoute
    <3>2. decided'.target["+routing"] = Final("+routing", raw', scale, aligned')
      BY <1>4, <3>1
    <3> QED BY <3>2, RoutingObeysLabel DEF StackInv
  <2>4. Preferred(1)' = Preferred(1) /\ label' = label /\ \A x : RowOn(x)' = RowOn(x)
    BY <1>4 DEF Preferred, regimeVars, RowOn
  <2>5. CASE d \in plan.calendar.proxy
    <3>1. d \in Shared' /\ \A e \in Shared' : e <= d
      BY <1>6, <2>1, <2>2, <2>5
    <3>2. aligned' = label[RowOn(d)]
      BY <1>8, <2>5
    <3> QED BY <2>3, <2>4, <3>1, <3>2 DEF Aligned
  <2>6. CASE d \notin plan.calendar.proxy
    <3>1. Shared' = Shared /\ aligned' = aligned
      BY <1>9, <2>2, <2>6
    <3> QED BY <2>3, <2>4, <3>1 DEF StackInv, Aligned
  <2> QED BY <2>5, <2>6
<1>14. Classified'
  BY <1>3, <1>4 DEF Classified, regimeVars
<1> QED BY <1>7, <1>12, <1>13, <1>14 DEF StackInv

\* No step breaks the invariant.
LEMMA StackStep == StackInv /\ [StackNext]_<<regimeVars, stackVars>> => StackInv'
<1> SUFFICES ASSUME StackInv, [StackNext]_<<regimeVars, stackVars>> PROVE StackInv'
  OBVIOUS
<1>1. CASE StackNext
  BY <1>1, LabelIsSound, CloseIsSound DEF StackNext
<1>2. CASE UNCHANGED <<regimeVars, stackVars>>
  BY <1>2 DEF regimeVars, stackVars, StackInv, Planned, Labelled, Causal, Aligned,
              Shared, DayOf, RowOn, Preferred, Classified
<1> QED BY <1>1, <1>2

\* No row of the stack earns on what was not known the day before.
THEOREM StackIsCausal == StackSpec => []NoLookAhead
<1>1. StackInv => NoLookAhead
  BY DEF StackInv, Causal, NoLookAhead
<1> QED BY <1>1, StackStartsSound, StackStep, PTL DEF StackSpec

\* A routed exposure has the preferred regime of the last day that both
\* calendars have.
THEOREM RoutingFollowsSharedDays == StackSpec => []RoutedByLatestSharedDay
<1>1. StackInv => RoutedByLatestSharedDay
  <2> SUFFICES ASSUME StackInv, plan.regimes, decided.target["+routing"] # 0
               PROVE  \E d \in Shared : /\ \A e \in Shared : e <= d
                                        /\ label[RowOn(d)].regime = Preferred(1)
    BY DEF RoutedByLatestSharedDay, Shared
  <2>1. aligned.regime = Preferred(1)
    BY DEF StackInv, Aligned
  <2>2. aligned # NoLabel
    BY <2>1, PlanIsSound DEF StackInv, NoLabel, Regimes
  <2> QED BY <2>1, <2>2 DEF StackInv, Aligned
<1> QED BY <1>1, StackStartsSound, StackStep, PTL DEF StackSpec
-----------------------------------------------------------------------------
(***************************************************************************)
(* The cross-sectional portfolio takes no side, and what it earns and pays *)
(* fits its ranking, for all assets, panels, lookbacks and costs.  Both    *)
(* rest on what a ranking is: it lists each ranked asset once.             *)
(***************************************************************************)
\* a stretch of a ranking
Ranks(f, a, b) == {f[k] : k \in a..b}

\* DollarNeutral, of one vector of weights
Neutral(w) ==
  /\ Cardinality({a \in Assets : w[a] > 0}) = Cardinality({a \in Assets : w[a] < 0})
  /\ \A a, b \in Assets : w[a] > 0 /\ w[b] < 0 => w[a] = -w[b]

\* A leg of the ranking is as long as the part of the ranking it is cut from.
LEMMA LegLength ==
  ASSUME NEW a \in Int, NEW b \in Int, NEW f,
         \A j, k \in a..b : f[j] = f[k] => j = k
  PROVE  Cardinality(Ranks(f, a, b)) = IF a > b THEN 0 ELSE b - a + 1
<1> DEFINE T == {f[k] : k \in a..b}
           g == [k \in a..b |-> f[k]]
<1>1. g \in [a..b -> T] /\ \A j, k \in a..b : g[j] = g[k] => j = k
  OBVIOUS
<1>2. g \in Injection(a..b, T)
  BY <1>1 DEF Injection, IsInjective
<1>3. g \in Surjection(a..b, T)
  BY <1>1 DEF Surjection
<1>4. ExistsBijection(a..b, T)
  BY <1>2, <1>3 DEF ExistsBijection, Bijection
<1>5. IsFiniteSet(a..b) /\ Cardinality(a..b) = IF a > b THEN 0 ELSE b - a + 1
  BY FS_Interval
<1> HIDE DEF T, g
<1>6. IsFiniteSet(T) /\ Cardinality(T) = Cardinality(a..b)
  BY <1>4, <1>5, FS_Bijection
<1> QED BY <1>5, <1>6 DEF T, Ranks

\* The two legs of a ranking have the same length and no asset in common.
LEMMA LegsMatch ==
  ASSUME NEW S \in SUBSET Assets, NEW ranked \in Orders[S],
         NEW n \in Nat, n = Cardinality(S), n >= 3
  PROVE  /\ Longs(ranked, n) \subseteq S /\ Shorts(ranked, n) \subseteq S
         /\ Longs(ranked, n) \cap Shorts(ranked, n) = {}
         /\ Cardinality(Longs(ranked, n)) = Cardinality(Shorts(ranked, n))
<1> DEFINE t == n \div 3
<1>1. t \in Nat /\ t >= 1 /\ t + t <= n
  OBVIOUS
<1>2. /\ ranked \in [1..n -> S]
      /\ \A j, k \in 1..n : ranked[j] = ranked[k] => j = k
  BY DEF Orders
<1> HIDE DEF t
<1>3. Longs(ranked, n) = Ranks(ranked, 1, t) /\ 1..t \subseteq 1..n
  BY <1>1 DEF Longs, Ranks, t
<1>4. Shorts(ranked, n) = Ranks(ranked, n - t + 1, n) /\ n - t + 1 .. n \subseteq 1..n
  BY <1>1 DEF Shorts, Ranks, t
<1>5. Cardinality(Longs(ranked, n)) = t
  <2>1. \A j, k \in 1..t : ranked[j] = ranked[k] => j = k
    BY <1>2, <1>3
  <2>2. Cardinality(Ranks(ranked, 1, t)) = IF 1 > t THEN 0 ELSE t - 1 + 1
    BY <1>1, <2>1, LegLength
  <2> QED BY <1>1, <1>3, <2>2
<1>6. Cardinality(Shorts(ranked, n)) = t
  <2>1. \A j, k \in n - t + 1 .. n : ranked[j] = ranked[k] => j = k
    BY <1>2, <1>4
  <2>2. n - t + 1 \in Int /\ n \in Int
    BY <1>1
  <2>3. Cardinality(Ranks(ranked, n - t + 1, n))
          = IF n - t + 1 > n THEN 0 ELSE n - (n - t + 1) + 1
    BY <2>1, <2>2, LegLength
  <2> QED BY <1>1, <1>4, <2>3
<1>7. ASSUME NEW j \in 1..t, NEW k \in n - t + 1 .. n
      PROVE  ranked[j] # ranked[k]
  <2>1. j \in 1..n /\ k \in 1..n
    BY <1>3, <1>4
  <2>2. j # k
    BY <1>1
  <2> QED BY <1>2, <2>1, <2>2
<1>8. Longs(ranked, n) \cap Shorts(ranked, n) = {}
  BY <1>3, <1>4, <1>7 DEF Ranks
<1>9. Longs(ranked, n) \subseteq S /\ Shorts(ranked, n) \subseteq S
  BY <1>2, <1>3, <1>4 DEF Ranks
<1> QED BY <1>5, <1>6, <1>8, <1>9

\* A rebalance gives every ranked asset of a leg the weight of the leg, and
\* every other asset none.
LEMMA TargetIsNeutral ==
  ASSUME NEW S \in SUBSET Assets, NEW ranked \in Orders[S],
         NEW w, w = Target(ranked, Cardinality(S)), IsFiniteSet(S)
  PROVE  /\ w \in [Assets -> Int]
         /\ \A a \in Assets : w[a] # 0 => a \in S
         /\ Neutral(w)
<1> DEFINE n == Cardinality(S)
           leg == Whole \div (n \div 3)
           long == Longs(ranked, n)
           short == Shorts(ranked, n)
           up == {a \in Assets : w[a] > 0}
           down == {a \in Assets : w[a] < 0}
<1>1. n \in Nat
  BY FS_CardinalityType
<1>2. Whole \in Nat
  BY PanelAssumption
<1>3. CASE n < 3
  <2>1. w = [a \in Assets |-> 0]
    BY <1>1, <1>3 DEF Target
  <2>2. up = {} /\ down = {}
    BY <2>1
  <2>3. Neutral(w)
    BY <2>1, <2>2 DEF Neutral
  <2> QED BY <2>1, <2>3
<1>4. CASE n >= 3
  <2>1. /\ long \subseteq S /\ short \subseteq S /\ long \cap short = {}
        /\ Cardinality(long) = Cardinality(short)
    BY <1>1, <1>4, LegsMatch
  <2>2. leg \in Nat
    <3>1. n \div 3 \in Nat /\ n \div 3 >= 1
      BY <1>1, <1>4
    <3> HIDE DEF n
    <3> QED BY <1>2, <3>1
  <2> HIDE DEF n, leg, long, short
  <2>3. w = [a \in Assets |-> IF a \in long THEN leg ELSE IF a \in short THEN -leg ELSE 0]
    <3>1. w = [a \in Assets |-> CASE n >= 3 /\ a \in long  -> leg
                                 [] n >= 3 /\ a \in short -> -leg
                                 [] OTHER                 -> 0]
      BY DEF Target, n, leg, long, short
    <3> QED BY <1>4, <2>1, <3>1
  <2>4. w \in [Assets -> Int] /\ \A a \in Assets : w[a] # 0 => a \in S
    BY <2>1, <2>2, <2>3
  <2>5. Cardinality(up) = Cardinality(down)
    <3>1. CASE leg = 0
      <4>1. up = {} /\ down = {}
        BY <2>3, <3>1
      <4> QED BY <4>1
    <3>2. CASE leg > 0
      <4>1. up = long
        BY <2>1, <2>2, <2>3, <3>2
      <4>2. down = short
        BY <2>1, <2>2, <2>3, <3>2
      <4> HIDE DEF up, down
      <4> QED BY <2>1, <4>1, <4>2
    <3> QED BY <2>2, <3>1, <3>2
  <2>6. \A a, b \in Assets : w[a] > 0 /\ w[b] < 0 => w[a] = -w[b]
    BY <2>1, <2>2, <2>3
  <2> QED BY <2>4, <2>5, <2>6 DEF Neutral
<1> QED BY <1>1, <1>3, <1>4
-----------------------------------------------------------------------------
CrossType ==
  /\ panel \in Panels /\ lookback \in Lookbacks
  /\ row \in Int /\ -1 <= row
  /\ ranking \in [weights : Int, applied : Int]

\* What has a weight was ranked, by a return between two closes of its own; the
\* last cost is that of the change from the applied weights; and before the
\* first rebalance there is nothing.
Ranked ==
  /\ \A a \in Assets : weights[a] # 0 =>
       /\ ranking.weights \in 0 .. row
       /\ OwnReturn(a, ranking.weights)
  /\ \A a \in Assets : applied[a] # 0 =>
       /\ ranking.applied \in 0 .. row - 1
       /\ OwnReturn(a, ranking.applied)
  /\ weights # applied => cost = TurnoverCost(applied, weights)
  /\ row < HistoryNeeded =>
       weights = NoWeights /\ applied = NoWeights /\ cost = NoWeights

CrossInv == CrossType /\ DollarNeutral /\ Ranked

\* The lookback of a rebalance is made of natural numbers.
LEMMA LookbackNumbers ==
  ASSUME CrossType
  PROVE  /\ lookback.trailing \in Nat /\ lookback.skip \in Nat
         /\ HistoryNeeded \in Nat /\ HistoryNeeded >= 1
         /\ HistoryNeeded = lookback.trailing + lookback.skip
         /\ \A a \in Assets : panel[a].first \in Nat /\ panel[a].last \in Nat
                               /\ panel[a].first <= panel[a].last
<1>1. lookback.trailing \in Nat \ {0} /\ lookback.skip \in Nat
  BY PanelAssumption DEF CrossType
<1>2. \A a \in Assets : panel[a] \in {p \in [first : Nat, last : Nat] : p.first <= p.last}
  BY PanelAssumption DEF CrossType
<1> QED BY <1>1, <1>2 DEF HistoryNeeded

\* Who is ranked on a row has a close of its own at both ends of the lookback.
LEMMA RankedByOwnReturn ==
  ASSUME CrossType, NEW i \in Nat, NEW a \in Eligible(i)
  PROVE  OwnReturn(a, i)
<1>1. /\ lookback.trailing \in Nat /\ lookback.skip \in Nat
      /\ panel[a].first \in Nat /\ panel[a].last \in Nat /\ panel[a].first <= panel[a].last
  BY LookbackNumbers DEF Eligible
<1> DEFINE s == StartRow(i)
           e == EndRow(i)
<1>2. s \in Int /\ e \in Int /\ s <= e
  BY <1>1 DEF StartRow, EndRow
<1> HIDE DEF s, e
<1>3. ASSUME NEW j \in Int, LastClose(a, j) # NoClose
      PROVE  /\ panel[a].first <= j
             /\ LastClose(a, j) = IF j > panel[a].last THEN panel[a].last ELSE j
  BY <1>1, <1>3 DEF LastClose, NoClose
<1>4. LastClose(a, s) # NoClose /\ LastClose(a, e) # NoClose
  BY DEF Eligible, s, e
<1> QED BY <1>1, <1>2, <1>3, <1>4 DEF OwnReturn, s, e

\* The empty portfolio before the first row.
LEMMA NothingAtStart == CrossInit => CrossInv
<1> SUFFICES ASSUME CrossInit PROVE CrossInv
  OBVIOUS
<1>1. CrossType
  BY DEF CrossInit, CrossType, NeverYet
<1>2. \A a \in Assets : weights[a] = 0 /\ applied[a] = 0
  BY DEF CrossInit, NoWeights
<1>3. {a \in Assets : weights[a] > 0} = {} /\ {a \in Assets : weights[a] < 0} = {}
  BY <1>2
<1>4. DollarNeutral
  BY <1>2, <1>3 DEF DollarNeutral
<1>5. Ranked
  BY <1>2 DEF CrossInit, Ranked
<1> QED BY <1>1, <1>4, <1>5 DEF CrossInv

\* A rebalance: new weights, paid for on its own row.
LEMMA RebalanceIsSound ==
  ASSUME CrossInv, Rebalance
  PROVE  CrossInv'
<1> DEFINE i == row + 1
           S == Eligible(i)
<1>1. PICK ranked \in Orders[S] : weights' = Target(ranked, Cardinality(S))
  BY DEF Rebalance
<1>2. /\ row' = i /\ applied' = weights /\ panel' = panel /\ lookback' = lookback
      /\ cost' = TurnoverCost(weights, weights')
      /\ ranking' = [weights |-> i, applied |-> ranking.weights]
      /\ i \in HistoryNeeded .. NRows - 1
  BY DEF Rebalance, Held, NextRow, Rebalances
<1>3. /\ lookback.trailing \in Nat /\ lookback.skip \in Nat
      /\ HistoryNeeded \in Nat /\ HistoryNeeded >= 1
      /\ HistoryNeeded' = HistoryNeeded
  BY <1>2, LookbackNumbers DEF CrossInv, HistoryNeeded
<1>4. row \in Int /\ i \in Nat /\ HistoryNeeded <= i
  BY <1>2, <1>3 DEF CrossInv, CrossType
<1>5. S \in SUBSET Assets /\ IsFiniteSet(S)
  BY PanelAssumption, FS_Subset DEF Eligible
<1>6. /\ weights' \in [Assets -> Int]
      /\ \A a \in Assets : weights'[a] # 0 => a \in S
      /\ Neutral(weights')
  <2> HIDE DEF S, i
  <2> QED BY <1>1, <1>5, TargetIsNeutral
<1>7. CrossType'
  BY <1>2, <1>4 DEF CrossInv, CrossType
<1>8. DollarNeutral'
  BY <1>6 DEF DollarNeutral, Neutral
<1>9. \A a \in Assets : weights'[a] # 0 =>
        /\ ranking'.weights \in 0 .. row'
        /\ OwnReturn(a, ranking.weights)'
  <2> SUFFICES ASSUME NEW a \in Assets, weights'[a] # 0
               PROVE  /\ ranking'.weights \in 0 .. row'
                      /\ OwnReturn(a, ranking.weights)'
    OBVIOUS
  <2>1. OwnReturn(a, i)
    BY <1>4, <1>6, RankedByOwnReturn DEF CrossInv
  <2>2. OwnReturn(a, ranking.weights)' <=> OwnReturn(a, i)
    BY <1>2 DEF OwnReturn, LastClose, StartRow, EndRow
  <2> QED BY <1>2, <1>4, <2>1, <2>2
<1>10. \A a \in Assets : applied'[a] # 0 =>
        /\ ranking'.applied \in 0 .. row' - 1
        /\ OwnReturn(a, ranking.applied)'
  <2> SUFFICES ASSUME NEW a \in Assets, applied'[a] # 0
               PROVE  ranking'.applied \in 0 .. row' - 1 /\ OwnReturn(a, ranking.applied)'
    OBVIOUS
  <2>1. OwnReturn(a, ranking.applied)' <=> OwnReturn(a, ranking.weights)
    BY <1>2 DEF OwnReturn, LastClose, StartRow, EndRow
  <2> QED BY <1>2, <1>4, <2>1 DEF CrossInv, Ranked
<1>11. Ranked'
  BY <1>2, <1>3, <1>4, <1>9, <1>10 DEF Ranked, TurnoverCost, Distance
<1> QED BY <1>7, <1>8, <1>11 DEF CrossInv

\* A row between two rebalances.
LEMMA CarryIsSound ==
  ASSUME CrossInv, Carry
  PROVE  CrossInv'
<1>1. /\ row' = row + 1 /\ applied' = weights /\ weights' = weights
      /\ panel' = panel /\ lookback' = lookback /\ cost' = NoWeights
      /\ ranking' = [ranking EXCEPT !.applied = ranking.weights]
  BY DEF Carry, Held, NextRow
<1>2. /\ row \in Int /\ HistoryNeeded \in Nat /\ HistoryNeeded' = HistoryNeeded
      /\ ranking \in [weights : Int, applied : Int]
  BY <1>1, LookbackNumbers DEF CrossInv, CrossType, HistoryNeeded
<1>3. ranking'.weights = ranking.weights /\ ranking'.applied = ranking.weights
  BY <1>1, <1>2
<1>4. CrossType'
  BY <1>1, <1>2 DEF CrossInv, CrossType
<1>5. DollarNeutral'
  BY <1>1 DEF CrossInv, DollarNeutral
<1>6. \A a \in Assets : /\ OwnReturn(a, ranking.weights)' <=> OwnReturn(a, ranking.weights)
                       /\ OwnReturn(a, ranking.applied)' <=> OwnReturn(a, ranking.weights)
  BY <1>1, <1>3 DEF OwnReturn, LastClose, StartRow, EndRow
<1>7. Ranked'
  BY <1>1, <1>2, <1>3, <1>6 DEF CrossInv, Ranked
<1> QED BY <1>4, <1>5, <1>7 DEF CrossInv

\* The invariant of every row.
LEMMA StepIsSound == CrossInv /\ [CrossNext]_crossVars => CrossInv'
<1> SUFFICES ASSUME CrossInv, [CrossNext]_crossVars PROVE CrossInv'
  OBVIOUS
<1>1. CASE CrossNext
  BY <1>1, RebalanceIsSound, CarryIsSound DEF CrossNext
<1>2. CASE UNCHANGED crossVars
  BY <1>2 DEF crossVars, CrossInv, CrossType, DollarNeutral, Ranked, HistoryNeeded, OwnReturn,
              LastClose, StartRow, EndRow
<1> QED BY <1>1, <1>2

\* As many assets are held long as short, with the same weight, on every row.
THEOREM PortfolioIsNeutral == CrossSpec => []DollarNeutral
<1>1. CrossInv => DollarNeutral
  BY DEF CrossInv
<1> QED BY <1>1, NothingAtStart, StepIsSound, PTL DEF CrossSpec

\* What earns was ranked before, by closes of its own; every change of what
\* earns was paid for the row before; and nothing comes before the first
\* rebalance.
THEOREM EarnedIsPaidFor == CrossSpec => EarnedAndPaid
<1>1. CrossInv => \A a \in Assets : applied[a] # 0 =>
                /\ ranking.applied \in 0 .. row - 1
                /\ OwnReturn(a, ranking.applied)
  BY DEF CrossInv, Ranked
<1>2. CrossInv => (row < HistoryNeeded => applied = NoWeights /\ cost = NoWeights)
  BY DEF CrossInv, Ranked
<1>3. CrossInv /\ [CrossNext]_crossVars
        => [applied' # applied => cost = TurnoverCost(applied, applied')]_crossVars
  <2>1. CrossNext => applied' = weights
    BY DEF CrossNext, Rebalance, Carry, Held, NextRow
  <2> QED BY <2>1 DEF CrossInv, Ranked
<1> QED BY <1>1, <1>2, <1>3, NothingAtStart, StepIsSound, PTL DEF CrossSpec, EarnedAndPaid
-----------------------------------------------------------------------------
\* The legs an overlay holds, and the capital that stands behind them.
Structured(p) ==
  /\ p.capital_base \in Nat
  /\ CASE spec.structure = "covered_call" ->
            p.kind = "call" /\ p.short \in Strikes /\ p.long = None
       [] spec.structure = "cash_secured_put" ->
            p.kind = "put" /\ p.short \in Strikes /\ p.long = None /\ p.capital_base = p.short
       [] spec.structure = "vertical_spread" ->
            /\ p.kind \in Kinds /\ p.short \in Strikes /\ p.long \in Strikes
            /\ p.long = IF p.kind = "call" THEN p.short + p.capital_base
                                           ELSE p.short - p.capital_base
       [] spec.structure = "leaps" ->
            p.kind = "call" /\ p.short = None /\ p.long \in Strikes

\* What the legs may be worth when the share is at s.
Bounded(p, b, s) ==
  CASE spec.structure = "covered_call" -> b \in Int /\ -s <= b
    [] spec.structure = "leaps"        -> b \in Nat
    [] OTHER                           -> b \in Int /\ -p.capital_base <= b

\* What the cycle of the open position has earned: capital and earnings are the
\* share, the premium received and the value of the legs.
Earned == IF day - 1 = position.entry THEN 0 ELSE ledger.gross
Accounted(p, s, earned) ==
  CASE spec.structure = "covered_call"     -> p.capital_base + earned = s + p.book + p.premium
    [] spec.structure = "cash_secured_put" -> earned >= p.book + p.premium
    [] spec.structure = "vertical_spread"  -> earned = p.book + p.premium
    [] spec.structure = "leaps"            -> p.capital_base + earned = p.book

RiskInv ==
  /\ DefinedRisk
  /\ Open => /\ Structured(position) /\ position.premium \in Nat
             /\ Accounted(position, close, Earned)
-----------------------------------------------------------------------------
\* The bounds of PriceAssumption for two strikes of a spread.
LEMMA CallSpread ==
  ASSUME NEW s \in Spots, NEW v \in Vols, NEW t \in 0..Days,
         NEW j \in Strikes, NEW k \in Strikes, j <= k
  PROVE  Price("call", s, j, t, v) - Price("call", s, k, t, v) \in 0 .. k - j
BY PriceAssumption

LEMMA PutSpread ==
  ASSUME NEW s \in Spots, NEW v \in Vols, NEW t \in 0..Days,
         NEW j \in Strikes, NEW k \in Strikes, j <= k
  PROVE  Price("put", s, k, t, v) - Price("put", s, j, t, v) \in 0 .. k - j
BY PriceAssumption

\* The value of the legs of a position stays within the bounds that the
\* capital covers, on any day, at any close and any volatility.
LEMMA BookBounded ==
  ASSUME spec \in Specs, NEW p, Structured(p),
         NEW s \in Spots, NEW v \in Vols, NEW t \in 0..Days
  PROVE  Bounded(p, Book(p, s, t, v), s)
<1> USE SizesAssumption
<1>0. spec.structure \in Structures  BY DEF Specs
<1>1. None \notin Strikes  BY DEF None
<1>2. CASE spec.structure = "covered_call"
  <2>1. Price("call", s, p.short, t, v) \in 0..s
    BY <1>2, PriceAssumption DEF Structured
  <2>2. Book(p, s, t, v) = 0 - Price("call", s, p.short, t, v)
    BY <1>1, <1>2 DEF Structured, Book, Leg
  <2> QED  BY <1>2, <2>1, <2>2 DEF Bounded
<1>3. CASE spec.structure = "cash_secured_put"
  <2>1. Price("put", s, p.short, t, v) \in 0..p.short
    BY <1>3, PriceAssumption DEF Structured
  <2>2. Book(p, s, t, v) = 0 - Price("put", s, p.short, t, v)
    BY <1>1, <1>3 DEF Structured, Book, Leg
  <2>3. p.capital_base = p.short /\ p.short \in Nat  BY <1>3 DEF Structured
  <2> QED  BY <1>3, <2>1, <2>2, <2>3 DEF Bounded
<1>4. CASE spec.structure = "vertical_spread"
  <2> DEFINE a == Price(p.kind, s, p.short, t, v)
             b == Price(p.kind, s, p.long, t, v)
  <2>1. /\ p.kind \in Kinds /\ p.short \in Strikes /\ p.long \in Strikes
        /\ p.capital_base \in Nat
        /\ p.long = IF p.kind = "call" THEN p.short + p.capital_base
                                       ELSE p.short - p.capital_base
    BY <1>4 DEF Structured
  <2>2. Book(p, s, t, v) = b - a
    BY <1>1, <2>1 DEF Book, Leg
  <2>3. CASE p.kind = "call"
    <3>0. p.short <= p.long /\ p.long - p.short = p.capital_base
      <4>1. p.short \in Nat /\ p.long \in Nat  BY <2>1
      <4>2. p.long = p.short + p.capital_base  BY <2>1, <2>3
      <4> QED  BY ONLY <2>1, <4>1, <4>2
    <3>1. Price("call", s, p.short, t, v) - Price("call", s, p.long, t, v) \in 0 .. p.long - p.short
      BY <2>1, <3>0, CallSpread
    <3>2. Price("call", s, p.short, t, v) \in 0..s /\ Price("call", s, p.long, t, v) \in 0..s
      BY <2>1, PriceAssumption
    <3> QED  BY <1>4, <2>1, <2>2, <2>3, <3>0, <3>1, <3>2 DEF Bounded
  <2>4. CASE p.kind = "put"
    <3>0. p.long <= p.short /\ p.short - p.long = p.capital_base
      <4>1. p.short \in Nat /\ p.long \in Nat  BY <2>1
      <4>2. p.long = p.short - p.capital_base  BY <2>1, <2>4
      <4> QED  BY ONLY <2>1, <4>1, <4>2
    <3>1. Price("put", s, p.short, t, v) - Price("put", s, p.long, t, v) \in 0 .. p.short - p.long
      BY <2>1, <3>0, PutSpread
    <3>2. Price("put", s, p.short, t, v) \in 0..p.short /\ Price("put", s, p.long, t, v) \in 0..p.long
      BY <2>1, PriceAssumption
    <3> QED  BY <1>4, <2>1, <2>2, <2>4, <3>0, <3>1, <3>2 DEF Bounded
  <2> QED  BY <2>1, <2>3, <2>4 DEF Kinds
<1>5. CASE spec.structure = "leaps"
  <2>1. Price("call", s, p.long, t, v) \in 0..s
    BY <1>5, PriceAssumption DEF Structured
  <2>2. Book(p, s, t, v) = Price("call", s, p.long, t, v)
    BY <1>1, <1>5, <2>1 DEF Structured, Book, Leg
  <2> QED  BY <1>5, <2>1, <2>2 DEF Bounded
<1> QED  BY <1>0, <1>2, <1>3, <1>4, <1>5 DEF Structures

PositionType == [kind : Kinds, short : Strikes \cup {None}, long : Strikes \cup {None},
                 capital_base : Nat, entry : -1 .. Days, expiry : -1 .. 2 * Days,
                 book : Int, open_cost : Nat, premium : Int, equity : Nat]

\* A price is a natural number, and so is the cost of a leg.
LEMMA LegPriced ==
  ASSUME NEW kind \in Kinds, NEW k \in Strikes \cup {None},
         NEW s \in Spots, NEW v \in Vols, NEW t \in 0..Days
  PROVE  /\ Leg(kind, k, s, t, v) \in Nat
         /\ LegCost(kind, k, s, t, v) \in Nat
<1>1. CASE k = None
  BY <1>1 DEF Leg, LegCost
<1>2. CASE k # None
  <2>1. k \in Strikes /\ k \in Nat /\ s \in Nat  BY <1>2, SizesAssumption
  <2>2. Price("call", s, k, t, v) \in 0..s /\ Price("put", s, k, t, v) \in 0..k
    BY <2>1, PriceAssumption
  <2>3. Price(kind, s, k, t, v) \in Nat
    BY <2>1, <2>2 DEF Kinds
  <2>4. Price(kind, s, k, t, v) \div Haircut \in Nat
    BY <2>3, SizesAssumption
  <2> QED  BY <1>2, <2>3, <2>4, SizesAssumption DEF Leg, LegCost
<1> QED  BY <1>1, <1>2

LEMMA LegsPriced ==
  ASSUME NEW p, p.kind \in Kinds, p.short \in Strikes \cup {None}, p.long \in Strikes \cup {None},
         NEW s \in Spots, NEW v \in Vols, NEW t \in 0..Days
  PROVE  Book(p, s, t, v) \in Int /\ LegCosts(p, s, t, v) \in Nat
<1>1. Leg(p.kind, p.long, s, t, v) \in Nat /\ LegCost(p.kind, p.long, s, t, v) \in Nat
  BY LegPriced
<1>2. Leg(p.kind, p.short, s, t, v) \in Nat /\ LegCost(p.kind, p.short, s, t, v) \in Nat
  BY LegPriced
<1> QED  BY <1>1, <1>2 DEF Book, LegCosts

\* The legs a spec selects.
LEMMA LegsSelected ==
  ASSUME spec \in Specs, NEW s \in Spots, NEW v \in Vols
  PROVE  LET p == Legs(spec, s, v)
         IN /\ p.kind = Kind(spec) /\ p.kind \in Kinds
            /\ p.short \in Strikes \cup {None} /\ p.long \in Strikes \cup {None}
            /\ spec.structure = "covered_call" =>
                 p.kind = "call" /\ p.short = Selected(spec, s, v) /\ p.long = None
            /\ spec.structure = "cash_secured_put" =>
                 p.kind = "put" /\ p.short = Selected(spec, s, v) /\ p.long = None
            /\ spec.structure = "vertical_spread" =>
                 /\ p.kind = spec.kind /\ p.short = Selected(spec, s, v)
                 /\ p.long = Wing(spec, s, v)
            /\ spec.structure = "leaps" =>
                 p.kind = "call" /\ p.short = None /\ p.long = Selected(spec, s, v)
<1>1. Selected(spec, s, v) \in Strikes
      /\ (spec.structure = "vertical_spread" => Wing(spec, s, v) \in Strikes)
  BY SelectorAssumption
<1>2. spec.kind \in Kinds /\ spec.structure \in Structures
  BY DEF Specs
<1>3. /\ Legs(spec, s, v).kind = Kind(spec)
      /\ Legs(spec, s, v).short = CASE spec.structure = "leaps" -> None
                                    [] OTHER -> Selected(spec, s, v)
      /\ Legs(spec, s, v).long = CASE spec.structure = "leaps" -> Selected(spec, s, v)
                                   [] spec.structure = "vertical_spread" -> Wing(spec, s, v)
                                   [] OTHER -> None
  BY DEF Legs, NoPosition
<1> QED  BY <1>1, <1>2, <1>3 DEF Kind, Kinds, Structures

\* A contract lives at least a row and at most the whole history.
LEMMA SpecTyped ==
  ASSUME spec \in Specs
  PROVE  /\ spec.structure \in Structures /\ spec.kind \in Kinds
         /\ spec.dte_target \in 1..Days /\ spec.dte_target \in 0..Days
         /\ Days \in Nat
<1>1. spec.structure \in Structures /\ spec.kind \in Kinds /\ spec.dte_target \in Dtes
  BY DEF Specs
<1>2. Dtes \subseteq 1..Days /\ Days \in Nat
  BY SizesAssumption
<1>3. spec.dte_target \in 1..Days
  BY <1>1, <1>2
<1>4. spec.dte_target \in 0..Days
  BY ONLY <1>2, <1>3
<1> QED  BY <1>1, <1>2, <1>3, <1>4

\* A position opened at a row has the type of a position, and its fields are
\* those _open_position computes.
LEMMA Opened ==
  ASSUME spec \in Specs, NEW s \in Spots, NEW v \in Vols, NEW i \in 0..Days
  PROVE  LET p == OpenPosition(spec, s, v, i)
             legs == Legs(spec, s, v)
             book == Book(legs, s, spec.dte_target, v)
         IN /\ p \in PositionType
            /\ p.kind = legs.kind /\ p.short = legs.short /\ p.long = legs.long
            /\ p.entry = i /\ p.expiry = i + spec.dte_target
            /\ p.book = book
            /\ p.capital_base = CapitalBase(spec, s, v, book)
            /\ p.equity = p.capital_base
            /\ p.premium = IF spec.structure = "leaps" THEN 0 ELSE -book
<1> DEFINE legs == Legs(spec, s, v)
           book == Book(legs, s, spec.dte_target, v)
           base == CapitalBase(spec, s, v, book)
           p == OpenPosition(spec, s, v, i)
<1>1. spec.structure \in Structures /\ spec.dte_target \in 0..Days
  BY SpecTyped
<1>2. legs.kind \in Kinds /\ legs.short \in Strikes \cup {None} /\ legs.long \in Strikes \cup {None}
  BY LegsSelected
<1>3. book \in Int /\ LegCosts(legs, s, spec.dte_target, v) \in Nat
  BY <1>1, <1>2, LegsPriced
<1>4. base \in Nat
  <2>1. CASE spec.structure = "covered_call"
    BY <2>1, SizesAssumption DEF CapitalBase
  <2>2. CASE spec.structure = "cash_secured_put"
    <3>1. Selected(spec, s, v) \in Strikes  BY SelectorAssumption
    <3> QED  BY <2>2, <3>1, SizesAssumption DEF CapitalBase
  <2>3. CASE spec.structure = "vertical_spread"
    <3>1. Width(s) \in Nat  BY SelectorAssumption
    <3> QED  BY <2>3, <3>1 DEF CapitalBase
  <2>4. CASE spec.structure = "leaps"
    <3>1. legs.short = None /\ base = book  BY <2>4, LegsSelected DEF CapitalBase
    <3>2. Leg(legs.kind, legs.long, s, spec.dte_target, v) \in Nat
      BY <1>1, <1>2, LegPriced
    <3>3. Leg(legs.kind, legs.short, s, spec.dte_target, v) = 0
      BY <3>1 DEF Leg
    <3> QED  BY <3>1, <3>2, <3>3 DEF Book
  <2> QED  BY <1>1, <2>1, <2>2, <2>3, <2>4 DEF Structures
<1>5. legs = [kind |-> legs.kind, short |-> legs.short, long |-> legs.long,
              capital_base |-> 0, entry |-> -1, expiry |-> -1, book |-> 0,
              open_cost |-> 0, premium |-> 0, equity |-> 0]
  <2> DEFINE short == CASE spec.structure = "leaps" -> None [] OTHER -> Selected(spec, s, v)
             long  == CASE spec.structure = "leaps" -> Selected(spec, s, v)
                        [] spec.structure = "vertical_spread" -> Wing(spec, s, v)
                        [] OTHER -> None
  <2>1. legs = [NoPosition EXCEPT !.kind = Kind(spec), !.short = short, !.long = long]
    BY DEF Legs
  <2> HIDE DEF legs, short, long
  <2>2. legs = [kind |-> Kind(spec), short |-> short, long |-> long,
                capital_base |-> 0, entry |-> -1, expiry |-> -1, book |-> 0,
                open_cost |-> 0, premium |-> 0, equity |-> 0]
    BY <2>1 DEF NoPosition
  <2> QED  BY <2>2
<1>6. p = [kind |-> legs.kind, short |-> legs.short, long |-> legs.long,
           capital_base |-> base, entry |-> i, expiry |-> i + spec.dte_target,
           book |-> book, open_cost |-> LegCosts(legs, s, spec.dte_target, v),
           premium |-> IF spec.structure = "leaps" THEN 0 ELSE -book, equity |-> base]
  <2>1. p = [legs EXCEPT !.capital_base = base, !.equity = base, !.book = book,
                  !.entry = i, !.expiry = i + spec.dte_target,
                  !.open_cost = LegCosts(legs, s, spec.dte_target, v),
                  !.premium = IF spec.structure = "leaps" THEN 0 ELSE -book]
    BY DEF OpenPosition
  <2> HIDE DEF legs, book, base, p
  <2> QED  BY <1>5, <2>1
<1>7. i \in -1 .. Days /\ i + spec.dte_target \in -1 .. 2 * Days
  BY <1>1, SizesAssumption
<1> HIDE DEF legs, book, base, p
<1>8. p \in PositionType
  BY <1>2, <1>3, <1>4, <1>6, <1>7 DEF PositionType
<1>9. /\ p.kind = legs.kind /\ p.short = legs.short /\ p.long = legs.long
      /\ p.entry = i /\ p.expiry = i + spec.dte_target
      /\ p.book = book /\ p.capital_base = base /\ p.equity = base
      /\ p.premium = IF spec.structure = "leaps" THEN 0 ELSE -book
  BY <1>6
<1> QED  BY <1>8, <1>9 DEF p, legs, book, base

\* A new position has the legs of its structure, has received a premium, and
\* has earned nothing: its capital is what its legs and shares are worth.
LEMMA OpenedStructured ==
  ASSUME spec \in Specs, NEW s \in Spots, NEW v \in Vols, NEW i \in 0..Days
  PROVE  LET p == OpenPosition(spec, s, v, i)
         IN Structured(p) /\ p.premium \in Nat /\ Accounted(p, s, 0)
<1> DEFINE legs == Legs(spec, s, v)
           book == Book(legs, s, spec.dte_target, v)
           p    == OpenPosition(spec, s, v, i)
           k    == Selected(spec, s, v)
           t    == spec.dte_target
<1> USE SizesAssumption
<1>0. spec.structure \in Structures /\ spec.kind \in Kinds /\ t \in 0..Days
  BY SpecTyped
<1>1. /\ p \in PositionType
      /\ p.kind = legs.kind /\ p.short = legs.short /\ p.long = legs.long
      /\ p.book = book
      /\ p.capital_base = CapitalBase(spec, s, v, book)
      /\ p.premium = IF spec.structure = "leaps" THEN 0 ELSE -book
  BY Opened
<1>2. k \in Strikes /\ Width(s) \in Nat \ {0}
      /\ (spec.structure = "vertical_spread" => Wing(spec, s, v) \in Strikes)
  BY SelectorAssumption
<1>3. /\ spec.structure = "covered_call" =>
           legs.kind = "call" /\ legs.short = k /\ legs.long = None
      /\ spec.structure = "cash_secured_put" =>
           legs.kind = "put" /\ legs.short = k /\ legs.long = None
      /\ spec.structure = "vertical_spread" =>
           legs.kind = spec.kind /\ legs.short = k /\ legs.long = Wing(spec, s, v)
      /\ spec.structure = "leaps" =>
           legs.kind = "call" /\ legs.short = None /\ legs.long = k
  BY LegsSelected
<1>4. None \notin Strikes /\ s \in Nat  BY DEF None
<1>5. p.capital_base \in Nat /\ p.book \in Int  BY <1>1 DEF PositionType
<1>6. p.book = Leg(p.kind, p.long, s, t, v) - Leg(p.kind, p.short, s, t, v)
  BY <1>1 DEF Book
<1> HIDE DEF legs, book, p, k, t
<1>7. CASE spec.structure = "covered_call"
  <2>1. p.kind = "call" /\ p.short = k /\ p.long = None /\ p.capital_base = s
    BY <1>1, <1>3, <1>7 DEF CapitalBase
  <2>2. Price("call", s, k, t, v) \in 0..s  BY <1>0, <1>2, PriceAssumption
  <2>3. p.book = 0 - Price("call", s, k, t, v)
    BY <1>2, <1>4, <1>6, <2>1 DEF Leg
  <2>4. p.premium = -p.book  BY <1>1, <1>7
  <2> QED  BY <1>2, <1>4, <1>5, <1>7, <2>1, <2>2, <2>3, <2>4 DEF Structured, Accounted, p
<1>8. CASE spec.structure = "cash_secured_put"
  <2>1. p.kind = "put" /\ p.short = k /\ p.long = None /\ p.capital_base = k
    BY <1>1, <1>3, <1>8 DEF CapitalBase, k
  <2>2. Price("put", s, k, t, v) \in 0..k  BY <1>0, <1>2, PriceAssumption
  <2>3. p.book = 0 - Price("put", s, k, t, v)
    BY <1>2, <1>4, <1>6, <2>1 DEF Leg
  <2>4. p.premium = -p.book  BY <1>1, <1>8
  <2> QED  BY <1>2, <1>5, <1>8, <2>1, <2>2, <2>3, <2>4 DEF Structured, Accounted, p
<1>9. CASE spec.structure = "vertical_spread"
  <2>1. /\ p.kind \in Kinds /\ p.kind = spec.kind /\ p.short = k
        /\ p.long = Wing(spec, s, v) /\ p.capital_base = Width(s)
    BY <1>0, <1>1, <1>3, <1>9 DEF CapitalBase
  <2>2. p.long = IF p.kind = "call" THEN p.short + p.capital_base
                                    ELSE p.short - p.capital_base
    BY <2>1 DEF Wing, k
  <2>3. Structured(p)
    BY <1>2, <1>5, <1>9, <2>1, <2>2 DEF Structured
  <2>4. p.book = Price(p.kind, s, p.long, t, v) - Price(p.kind, s, p.short, t, v)
    BY <1>2, <1>4, <1>6, <1>9, <2>1 DEF Leg
  <2>5. p.short \in Nat /\ p.long \in Nat /\ p.short \in Strikes /\ p.long \in Strikes
    BY <1>2, <1>9, <2>1
  <2>6. -p.book \in Nat
    <3>1. CASE p.kind = "call"
      <4>1. p.short <= p.long  BY <1>5, <2>2, <2>5, <3>1
      <4>2. Price("call", s, p.short, t, v) - Price("call", s, p.long, t, v) \in 0 .. p.long - p.short
        BY <1>0, <2>5, <4>1, CallSpread
      <4>3. Price("call", s, p.short, t, v) \in 0..s /\ Price("call", s, p.long, t, v) \in 0..s
        BY <1>0, <2>5, PriceAssumption
      <4> QED  BY <1>4, <2>4, <2>5, <3>1, <4>2, <4>3
    <3>2. CASE p.kind = "put"
      <4>1. p.long <= p.short  BY <1>5, <2>2, <2>5, <3>2
      <4>2. Price("put", s, p.short, t, v) - Price("put", s, p.long, t, v) \in 0 .. p.short - p.long
        BY <1>0, <2>5, <4>1, PutSpread
      <4>3. /\ Price("put", s, p.short, t, v) \in 0..p.short
            /\ Price("put", s, p.long, t, v) \in 0..p.long
        BY <1>0, <2>5, PriceAssumption
      <4> QED  BY <2>4, <2>5, <3>2, <4>2, <4>3
    <3> QED  BY <2>1, <3>1, <3>2 DEF Kinds
  <2>7. p.premium = -p.book  BY <1>1, <1>9
  <2> QED  BY <1>5, <1>9, <2>3, <2>6, <2>7 DEF Accounted, p
<1>10. CASE spec.structure = "leaps"
  <2>1. p.kind = "call" /\ p.short = None /\ p.long = k /\ p.capital_base = p.book
        /\ p.premium = 0
    BY <1>1, <1>3, <1>10 DEF CapitalBase
  <2> QED  BY <1>2, <1>5, <1>10, <2>1 DEF Structured, Accounted, p
<1> QED  BY <1>0, <1>7, <1>8, <1>9, <1>10 DEF Structures

\* The capital covers the loss whatever the legs are worth within their bounds.
LEMMA CapitalCovers ==
  ASSUME spec \in Specs, NEW p, Structured(p), p.premium \in Nat,
         NEW s \in Nat, Bounded(p, p.book, s), NEW earned \in Int, Accounted(p, s, earned)
  PROVE  p.capital_base + earned >= 0
<1>1. spec.structure \in Structures  BY SpecTyped
<1>2. p.capital_base \in Nat  BY DEF Structured
<1>3. p.book \in Int
  BY <1>1 DEF Bounded, Structures
<1>4. CASE spec.structure = "covered_call"
  <2>1. -s <= p.book /\ p.capital_base + earned = s + p.book + p.premium
    BY <1>4 DEF Bounded, Accounted
  <2> QED  BY ONLY <1>2, <1>3, <2>1, p.premium \in Nat, s \in Nat, earned \in Int
<1>5. CASE spec.structure = "cash_secured_put"
  <2>1. -p.capital_base <= p.book /\ earned >= p.book + p.premium
    BY <1>5 DEF Bounded, Accounted
  <2> QED  BY ONLY <1>2, <1>3, <2>1, p.premium \in Nat, earned \in Int
<1>6. CASE spec.structure = "vertical_spread"
  <2>1. -p.capital_base <= p.book /\ earned = p.book + p.premium
    BY <1>6 DEF Bounded, Accounted
  <2> QED  BY ONLY <1>2, <1>3, <2>1, p.premium \in Nat, earned \in Int
<1>7. CASE spec.structure = "leaps"
  <2>1. p.book \in Nat /\ p.capital_base + earned = p.book
    BY <1>7 DEF Bounded, Accounted
  <2> QED  BY ONLY <2>1
<1> QED  BY <1>1, <1>4, <1>5, <1>6, <1>7 DEF Structures
-----------------------------------------------------------------------------
\* The clock of a position: it was opened on an earlier row, for dte_target rows,
\* and there is at most one roll a row.
Clock ==
  /\ n_rolls <= day
  /\ Open => /\ position.entry \in 0 .. day - 1
             /\ position.expiry = position.entry + spec.dte_target

TypeInv == TypeOK /\ Clock

\* On a row with an open position: the days left are those of a priced contract,
\* and what the row earns is a number.
LEMMA HoldTyped ==
  ASSUME TypeInv, Open, day < Days, NEW s \in Spots, NEW v \in Vols
  PROVE  /\ Remaining \in 0..Days
         /\ Book(position, s, Remaining, v) \in Int
         /\ LegCosts(position, s, Remaining, v) \in Nat
         /\ ExtraPnl(s) \in Int
<1>1. /\ spec \in Specs /\ day \in 0..Days /\ close \in Int
      /\ position.kind \in Kinds /\ position.short \in Strikes \cup {None}
      /\ position.long \in Strikes \cup {None} /\ position.capital_base \in Nat
  BY SizesAssumption DEF TypeInv, TypeOK
<1>2. spec.dte_target \in 1..Days /\ Days \in Nat /\ spec.structure \in Structures
  BY <1>1, SpecTyped
<1>3. position.entry \in 0 .. day - 1 /\ position.expiry = position.entry + spec.dte_target
  BY DEF TypeInv, Clock
<1>4. Remaining \in 0..Days
  BY ONLY <1>1, <1>2, <1>3 DEF Remaining, Left
<1>5. /\ Book(position, s, Remaining, v) \in Int
      /\ LegCosts(position, s, Remaining, v) \in Nat
  BY <1>1, <1>4, LegsPriced
<1>6. position.capital_base \div Yield \in Int /\ s - close \in Int
  BY <1>1, SizesAssumption
<1>7. ExtraPnl(s) \in Int
  BY <1>6 DEF ExtraPnl
<1> QED  BY <1>4, <1>5, <1>7

LEMMA TypeInit == Init => TypeInv
<1> SUFFICES ASSUME Init PROVE TypeInv
  OBVIOUS
<1>1. NoPosition \in PositionType
  <2>1. NoPosition.kind \in Kinds  BY DEF NoPosition, Kinds
  <2>2. Days \in Nat  BY SizesAssumption
  <2> QED  BY <2>1, <2>2 DEF NoPosition, PositionType, Kinds
<1>2. NoLedger \in [capital_base : Nat, gross : Int, died : BOOLEAN]
  BY DEF NoLedger
<1>3. events \in Seq(0..Days)  BY DEF Init
<1> QED  BY <1>1, <1>2, <1>3, SizesAssumption DEF Init, TypeInv, TypeOK, Clock, Open, PositionType

\* A row that opens a position starts its clock.
LEMMA OpenedTyped ==
  ASSUME TypeInv, day < Days, NEW s \in Spots, NEW v \in Vols,
         position' = OpenPosition(spec, s, v, day), day' = day + 1, spec' = spec
  PROVE  /\ position' \in PositionType
         /\ position'.entry \in 0 .. day' - 1
         /\ position'.expiry = position'.entry + spec'.dte_target
<1>1. spec \in Specs /\ day \in 0..Days /\ Days \in Nat
  BY SizesAssumption DEF TypeInv, TypeOK
<1>2. position' \in PositionType /\ position'.entry = day
      /\ position'.expiry = day + spec.dte_target
  BY <1>1, Opened
<1> QED  BY <1>1, <1>2

LEMMA TypeStep == TypeInv /\ [Next]_vars => TypeInv'
<1> SUFFICES ASSUME TypeInv, [Next]_vars PROVE TypeInv'
  OBVIOUS
<1> USE SizesAssumption
<1>0. /\ spec \in Specs /\ day \in 0..Days /\ Days \in Nat /\ n_rolls \in 0..Days
      /\ n_rolls <= day /\ events \in Seq(0..Days) /\ position \in PositionType
      /\ ledger \in [capital_base : Nat, gross : Int, died : BOOLEAN]
      /\ first \in -1 .. Days /\ close \in Spots \cup {0}
  BY DEF TypeInv, TypeOK, Clock, PositionType
<1>1. ASSUME NEW s \in Spots, Warmup(s) PROVE TypeInv'
  <2>1. day' \in 0..Days /\ n_rolls' <= day' /\ close' \in Spots
    BY <1>0, <1>1 DEF Warmup
  <2>2. ~Open'  BY <1>1 DEF Warmup, Open
  <2> QED  BY <1>0, <1>1, <2>1, <2>2 DEF Warmup, TypeInv, TypeOK, Clock, PositionType
<1>2. ASSUME NEW s \in Spots, NEW v \in Vols, Enter(s, v) PROVE TypeInv'
  <2>1. day' \in 0..Days /\ n_rolls' <= day' /\ close' \in Spots /\ first' \in -1 .. Days
    BY <1>0, <1>2 DEF Enter
  <2>2. /\ position' \in PositionType
        /\ position'.entry \in 0 .. day' - 1
        /\ position'.expiry = position'.entry + spec'.dte_target
    BY <1>2, OpenedTyped DEF Enter
  <2> QED  BY <1>0, <1>2, <2>1, <2>2 DEF Enter, TypeInv, TypeOK, Clock, PositionType
<1>3. ASSUME NEW s \in Spots, NEW v \in Vols, NEW likely \in BOOLEAN, Hold(s, v, likely)
      PROVE TypeInv'
  <2> DEFINE mtm     == Book(position, s, Remaining, v)
             pnl     == mtm - position.book + ExtraPnl(s)
             exits   == LegCosts(position, s, Remaining, v)
             charge  == OpenCost + (IF ShouldClose(likely) THEN exits ELSE 0)
             equity  == NewEquity(pnl, charge)
  <2>1. Open /\ day < Days  BY <1>3 DEF Hold
  <2>2. mtm \in Int /\ exits \in Nat /\ ExtraPnl(s) \in Int
    BY <2>1, HoldTyped
  <2>3. /\ position.book \in Int /\ position.equity \in Nat /\ position.open_cost \in Nat
        /\ position.capital_base \in Nat /\ ledger.gross \in Int /\ ledger.died \in BOOLEAN
    BY <1>0 DEF PositionType
  <2>4. pnl \in Int /\ charge \in Nat
    <3>1. OpenCost \in Nat  BY <2>3 DEF OpenCost
    <3> HIDE DEF mtm, exits
    <3> QED  BY <2>2, <2>3, <3>1
  <2>5. equity \in Nat
    <3> HIDE DEF pnl, charge
    <3> QED  BY <2>3, <2>4 DEF NewEquity, Clamped, equity
  <2>6. ledger' = [capital_base |-> position.capital_base,
                   gross |-> (IF day - 1 = position.entry THEN 0 ELSE ledger.gross) + pnl,
                   died  |-> \/ ~(day - 1 = position.entry) /\ ledger.died
                             \/ Dead(position) \/ Dead([position EXCEPT !.equity = equity])]
    BY <1>3 DEF Hold
  <2>7. ledger' \in [capital_base : Nat, gross : Int, died : BOOLEAN]
    <3> HIDE DEF pnl, equity
    <3> DEFINE d == \/ ~(day - 1 = position.entry) /\ ledger.died
                    \/ Dead(position) \/ Dead([position EXCEPT !.equity = equity])
    <3>1. d \in BOOLEAN  OBVIOUS
    <3>2. (IF day - 1 = position.entry THEN 0 ELSE ledger.gross) + pnl \in Int
      BY <2>3, <2>4
    <3> HIDE DEF d
    <3>3. ledger' = [capital_base |-> position.capital_base,
                     gross |-> (IF day - 1 = position.entry THEN 0 ELSE ledger.gross) + pnl,
                     died  |-> d]
      BY <2>6 DEF d
    <3> QED  BY <2>3, <3>1, <3>2, <3>3
  <2>8. day' = day + 1 /\ close' = s /\ spec' = spec /\ first' = first
    BY <1>3 DEF Hold
  <2>9. day' \in 0..Days  BY <1>0, <2>1, <2>8
  <2>10. CASE ShouldClose(likely)
    <3>1. /\ position' = OpenPosition(spec, s, v, day) /\ n_rolls' = n_rolls + 1
          /\ events' = IF Assigned(s) THEN Append(events, day) ELSE events
      BY <1>3, <2>10 DEF Hold
    <3>2. /\ position' \in PositionType
          /\ position'.entry \in 0 .. day' - 1
          /\ position'.expiry = position'.entry + spec'.dte_target
      BY <2>1, <2>8, <3>1, OpenedTyped
    <3>3. n_rolls' \in 0..Days /\ n_rolls' <= day'
      BY <1>0, <2>1, <2>8, <3>1
    <3>4. events' \in Seq(0..Days)
      <4>1. Append(events, day) \in Seq(0..Days)  BY <1>0
      <4> QED  BY <1>0, <3>1, <4>1
    <3> QED  BY <1>0, <2>7, <2>8, <2>9, <3>2, <3>3, <3>4 DEF TypeInv, TypeOK, Clock, PositionType
  <2>11. CASE ~ShouldClose(likely)
    <3>1. /\ position' = [position EXCEPT !.book = mtm, !.equity = equity]
          /\ n_rolls' = n_rolls /\ events' = events
      BY <1>3, <2>11 DEF Hold
    <3> HIDE DEF mtm, equity
    <3>2. position' \in PositionType
      BY <1>0, <2>2, <2>5, <3>1 DEF PositionType
    <3>3. position'.entry = position.entry /\ position'.expiry = position.expiry
      BY <1>0, <3>1 DEF PositionType
    <3>4. position.entry \in 0 .. day - 1 /\ position.expiry = position.entry + spec.dte_target
      BY <2>1 DEF TypeInv, Clock
    <3>5. position'.entry \in 0 .. day' - 1 /\ position'.expiry = position'.entry + spec'.dte_target
      BY <1>0, <2>8, <3>3, <3>4
    <3>6. n_rolls' \in 0..Days /\ n_rolls' <= day' /\ events' \in Seq(0..Days)
      BY <1>0, <2>8, <3>1
    <3> QED  BY <1>0, <2>7, <2>8, <2>9, <3>2, <3>5, <3>6 DEF TypeInv, TypeOK, Clock, PositionType
  <2> QED  BY <2>10, <2>11
<1>4. CASE UNCHANGED vars
  BY <1>4 DEF vars, TypeInv, TypeOK, Clock, Open
<1> QED  BY <1>1, <1>2, <1>3, <1>4 DEF Next

\* simulate_overlay keeps every position, count and event in its range, and no
\* equity below nothing.
THEOREM TypeCorrect == Spec => []TypeOK
<1>1. TypeInv => TypeOK  BY DEF TypeInv
<1> QED  BY TypeInit, TypeStep, <1>1, PTL DEF Spec
-----------------------------------------------------------------------------
\* What a cycle has earned follows the value of what it holds: a row adds the
\* change of the legs and of the shares, and interest never takes away.
LEMMA EarnedAccounted ==
  ASSUME TypeInv, Open, NEW s \in Spots, NEW m \in Int,
         Structured(position), position.premium \in Nat,
         Accounted(position, close, Earned)
  PROVE  LET e == Earned + (m - position.book + ExtraPnl(s))
         IN e \in Int /\ Accounted([position EXCEPT !.book = m], s, e)
<1> DEFINE b == position.book
           q == [position EXCEPT !.book = m]
           e == Earned + (m - b + ExtraPnl(s))
<1>1. /\ spec \in Specs /\ position \in PositionType /\ close \in Int /\ s \in Int
      /\ ledger.gross \in Int
  BY SizesAssumption DEF TypeInv, TypeOK, PositionType
<1>2. /\ b \in Int /\ position.capital_base \in Nat /\ position.premium \in Int
  BY <1>1 DEF PositionType
<1>3. q.book = m /\ q.capital_base = position.capital_base /\ q.premium = position.premium
  BY <1>1 DEF PositionType
<1>4. spec.structure \in Structures  BY <1>1, SpecTyped
<1>5. Earned \in Int  BY <1>1 DEF Earned
<1>6. position.capital_base \div Yield \in Nat  BY <1>2, SizesAssumption
<1> HIDE DEF q, b
<1>7. CASE spec.structure = "covered_call"
  <2>1. ExtraPnl(s) = s - close  BY <1>7 DEF ExtraPnl
  <2>2. position.capital_base + Earned = close + b + position.premium
    BY <1>7 DEF Accounted, b
  <2>3. e \in Int /\ position.capital_base + e = s + m + position.premium
    BY <1>1, <1>2, <1>5, <2>1, <2>2
  <2> QED  BY <1>3, <1>7, <2>3 DEF Accounted, q, b
<1>8. CASE spec.structure = "cash_secured_put"
  <2>1. ExtraPnl(s) \in Nat  BY <1>6, <1>8 DEF ExtraPnl
  <2>2. Earned >= b + position.premium  BY <1>8 DEF Accounted, b
  <2>3. e \in Int /\ e >= m + position.premium
    BY <1>2, <1>5, <2>1, <2>2
  <2> QED  BY <1>3, <1>8, <2>3 DEF Accounted, q, b
<1>9. CASE spec.structure = "vertical_spread"
  <2>1. ExtraPnl(s) = 0  BY <1>9 DEF ExtraPnl
  <2>2. Earned = b + position.premium  BY <1>9 DEF Accounted, b
  <2>3. e \in Int /\ e = m + position.premium
    BY <1>2, <1>5, <2>1, <2>2
  <2> QED  BY <1>3, <1>9, <2>3 DEF Accounted, q, b
<1>10. CASE spec.structure = "leaps"
  <2>1. ExtraPnl(s) = 0  BY <1>10 DEF ExtraPnl
  <2>2. position.capital_base + Earned = b  BY <1>10 DEF Accounted, b
  <2>3. e \in Int /\ position.capital_base + e = m
    BY <1>2, <1>5, <2>1, <2>2
  <2> QED  BY <1>3, <1>10, <2>3 DEF Accounted, q, b
<1> QED  BY <1>4, <1>7, <1>8, <1>9, <1>10 DEF Structures

\* The structure of a position does not depend on what it is worth now.
LEMMA StructureKept ==
  ASSUME NEW p, NEW q, Structured(p),
         q.kind = p.kind, q.short = p.short, q.long = p.long, q.capital_base = p.capital_base
  PROVE  Structured(q)
BY DEF Structured

LEMMA RiskInit == Init => RiskInv
<1> SUFFICES ASSUME Init PROVE RiskInv
  OBVIOUS
<1>1. ledger.capital_base = 0 /\ ledger.gross = 0  BY DEF Init, NoLedger
<1>2. ~Open  BY DEF Init, Open
<1> QED  BY <1>1, <1>2 DEF RiskInv, DefinedRisk

LEMMA RiskStep == TypeInv /\ TypeInv' /\ RiskInv /\ [Next]_vars => RiskInv'
<1> SUFFICES ASSUME TypeInv, TypeInv', RiskInv, [Next]_vars PROVE RiskInv'
  OBVIOUS
<1>0. /\ spec \in Specs /\ day \in 0..Days /\ position \in PositionType
      /\ ledger.gross \in Int
  BY DEF TypeInv, TypeOK, PositionType
<1>1. ASSUME NEW s \in Spots, Warmup(s) PROVE RiskInv'
  BY <1>1 DEF Warmup, RiskInv, DefinedRisk, Open
\* a row that opens a position
<1>2. ASSUME NEW s \in Spots, NEW v \in Vols, day' = day + 1, close' = s, spec' = spec,
             position' = OpenPosition(spec, s, v, day)
      PROVE  /\ Structured(position)' /\ position'.premium \in Nat
             /\ Accounted(position, close, Earned)'
  <2> DEFINE p == OpenPosition(spec, s, v, day)
  <2>1. Structured(p) /\ p.premium \in Nat /\ Accounted(p, s, 0)
    BY <1>0, OpenedStructured
  <2>2. p.entry = day  BY <1>0, Opened
  <2>3. Earned' = 0
    <3>1. day' - 1 = position'.entry  BY <1>0, <1>2, <2>2
    <3> QED  BY <3>1 DEF Earned
  <2> HIDE DEF p
  <2>4. position' = p  BY <1>2 DEF p
  <2>5. Structured(position)'
    BY <1>2, <2>1, <2>4 DEF Structured
  <2>6. Accounted(position, close, Earned)'
    BY <1>2, <2>1, <2>3, <2>4 DEF Accounted
  <2> QED  BY <2>1, <2>4, <2>5, <2>6
<1>3. ASSUME NEW s \in Spots, NEW v \in Vols, Enter(s, v) PROVE RiskInv'
  <2>1. /\ Structured(position)' /\ position'.premium \in Nat
        /\ Accounted(position, close, Earned)'
    BY <1>2, <1>3 DEF Enter
  <2> QED  BY <1>3, <2>1 DEF Enter, RiskInv, DefinedRisk
<1>4. ASSUME NEW s \in Spots, NEW v \in Vols, NEW likely \in BOOLEAN, Hold(s, v, likely)
      PROVE RiskInv'
  <2> DEFINE m   == Book(position, s, Remaining, v)
             pnl == m - position.book + ExtraPnl(s)
             q   == [position EXCEPT !.book = m]
             e   == Earned + pnl
  <2>1. Open /\ day < Days  BY <1>4 DEF Hold
  <2>2. Structured(position) /\ position.premium \in Nat
        /\ Accounted(position, close, Earned)
    BY <2>1 DEF RiskInv
  <2>3. Remaining \in 0..Days /\ m \in Int  BY <2>1, HoldTyped
  <2>4. e \in Int /\ Accounted(q, s, e)
    BY <2>1, <2>2, <2>3, EarnedAccounted
  <2>5. ledger'.capital_base = position.capital_base /\ ledger'.gross = e
    BY <1>4 DEF Hold, Earned
  <2>6. Bounded(position, m, s)
    BY <1>0, <2>2, <2>3, BookBounded
  <2>7. /\ q.kind = position.kind /\ q.short = position.short /\ q.long = position.long
        /\ q.capital_base = position.capital_base /\ q.premium = position.premium
        /\ q.book = m /\ q.entry = position.entry
    BY <1>0 DEF PositionType
  <2> HIDE DEF m, q, e
  <2>8. DefinedRisk'
    <3>1. Structured(q)  BY <2>2, <2>7, StructureKept
    <3>2. Bounded(q, q.book, s)  BY <2>6, <2>7 DEF Bounded
    <3>3. s \in Nat  BY SizesAssumption
    <3>4. q.capital_base + e >= 0
      BY <1>0, <2>2, <2>4, <2>7, <3>1, <3>2, <3>3, CapitalCovers
    <3> QED  BY <2>5, <2>7, <3>4 DEF DefinedRisk
  <2>9. CASE ShouldClose(likely)
    <3>1. position' = OpenPosition(spec, s, v, day) /\ day' = day + 1 /\ close' = s /\ spec' = spec
      BY <1>4, <2>9 DEF Hold
    <3>2. /\ Structured(position)' /\ position'.premium \in Nat
          /\ Accounted(position, close, Earned)'
      BY <1>2, <3>1
    <3> QED  BY <2>8, <3>2 DEF RiskInv
  <2>10. CASE ~ShouldClose(likely)
    <3>1. \E x : position' = [position EXCEPT !.book = m, !.equity = x]
      BY <1>4, <2>10 DEF Hold, m
    <3>2. /\ position'.kind = position.kind /\ position'.short = position.short
          /\ position'.long = position.long /\ position'.capital_base = position.capital_base
          /\ position'.premium = position.premium /\ position'.book = m
          /\ position'.entry = position.entry
      BY <1>0, <3>1 DEF PositionType
    <3>3. day' = day + 1 /\ close' = s /\ spec' = spec  BY <1>4 DEF Hold
    <3>4. Earned' = e
      <4>1. position.entry \in 0 .. day - 1  BY <2>1 DEF TypeInv, Clock
      <4>2. day' - 1 # position'.entry  BY <1>0, <3>2, <3>3, <4>1
      <4> QED  BY <2>5, <4>2 DEF Earned
    <3>5. Structured(position)'
      BY <2>2, <3>2, <3>3 DEF Structured
    <3>6. Accounted(position, close, Earned)'
      BY <2>4, <2>7, <3>2, <3>3, <3>4 DEF Accounted
    <3> QED  BY <2>2, <2>8, <3>2, <3>5, <3>6 DEF RiskInv
  <2> QED  BY <2>9, <2>10
<1>5. CASE UNCHANGED vars
  BY <1>5 DEF vars, RiskInv, DefinedRisk, Open, Structured, Accounted, Earned
<1> QED  BY <1>1, <1>3, <1>4, <1>5 DEF Next

\* The hard constraint of the overlay module: whatever the closes and the
\* volatilities, no cycle loses more than its capital before trading costs.
THEOREM RiskIsDefined == Spec => []DefinedRisk
<1>1. RiskInv => DefinedRisk  BY DEF RiskInv
<1> QED  BY TypeInit, TypeStep, RiskInit, RiskStep, <1>1, PTL DEF Spec
-----------------------------------------------------------------------------
\* On the row of its entry the equity is the capital; from the next row on it
\* is accounted for.
EquityInv ==
  Open => IF day - 1 = position.entry THEN position.equity = position.capital_base
                                      ELSE EquityIsAccounted

\* An equity of nothing is dead, so that one which is not was never clamped.
LEMMA AliveIsUnclamped ==
  ASSUME NEW p \in PositionType, NEW x \in Int,
         ~Dead([p EXCEPT !.equity = Clamped(x)])
  PROVE  Clamped(x) = x
<1> DEFINE q == [p EXCEPT !.equity = Clamped(x)]
<1>1. q.equity = Clamped(x) /\ q.capital_base = p.capital_base /\ p.capital_base \in Nat
  BY DEF PositionType
<1>2. DeadFraction \in Nat  BY SizesAssumption
<1>3. CASE x < 0
  <2>1. Clamped(x) = 0  BY <1>3 DEF Clamped
  <2>2. 0 * DeadFraction <= p.capital_base  BY <1>1, <1>2
  <2> QED  BY <1>1, <2>1, <2>2 DEF Dead
<1>4. CASE ~(x < 0)
  BY <1>4 DEF Clamped
<1> QED  BY <1>3, <1>4

\* A position opened on a row has its capital for equity.
LEMMA OpenedAtCapital ==
  ASSUME TypeInv, day < Days, NEW s \in Spots, NEW v \in Vols,
         position' = OpenPosition(spec, s, v, day), day' = day + 1
  PROVE  EquityInv'
<1>1. spec \in Specs /\ day \in 0..Days  BY DEF TypeInv, TypeOK
<1>2. position'.entry = day /\ position'.equity = position'.capital_base
  BY <1>1, Opened
<1>3. day' - 1 = position'.entry  BY <1>1, <1>2
<1> QED  BY <1>2, <1>3 DEF EquityInv

\* A row that keeps its position.
LEMMA KeptIsAccounted ==
  ASSUME TypeInv, EquityInv, NEW s \in Spots, NEW v \in Vols, NEW likely \in BOOLEAN,
         Hold(s, v, likely), ~ShouldClose(likely)
  PROVE  EquityInv'
<1> DEFINE m       == Book(position, s, Remaining, v)
           pnl     == m - position.book + ExtraPnl(s)
           charge  == OpenCost
           equity  == NewEquity(pnl, charge)
           newborn == day - 1 = position.entry
<1>1. Open /\ day < Days  BY DEF Hold
<1>2. m \in Int /\ ExtraPnl(s) \in Int  BY <1>1, HoldTyped
<1>3. /\ position \in PositionType /\ day \in Int /\ ledger.gross \in Int
      /\ position.entry \in 0 .. day - 1
  BY <1>1, SizesAssumption DEF TypeInv, TypeOK, Clock, PositionType
<1>4. /\ position.book \in Int /\ position.equity \in Nat /\ position.open_cost \in Nat
      /\ position.capital_base \in Nat
  BY <1>3 DEF PositionType
<1>5. pnl \in Int /\ charge \in Nat
  <2>1. OpenCost \in Nat  BY <1>4 DEF OpenCost
  <2> HIDE DEF m
  <2> QED  BY <1>2, <1>4, <2>1
<1>6. /\ ledger'.gross = (IF newborn THEN 0 ELSE ledger.gross) + pnl
      /\ ledger'.died = \/ ~newborn /\ ledger.died
                        \/ Dead(position) \/ Dead([position EXCEPT !.equity = equity])
  <2>1. NewEquity(pnl, OpenCost + 0) = equity
    <3>1. OpenCost + 0 = OpenCost  BY <1>5
    <3> QED  BY <3>1
  <2> QED  BY <2>1 DEF Hold
<1>7. position' = [position EXCEPT !.book = m, !.equity = equity]
  <2>1. NewEquity(pnl, OpenCost + 0) = equity
    <3>1. OpenCost + 0 = OpenCost  BY <1>5
    <3> QED  BY <3>1
  <2> QED  BY <2>1 DEF Hold
<1>8. day' = day + 1  BY DEF Hold
<1> HIDE DEF m, equity, pnl, charge
<1>9. /\ position'.equity = equity /\ position'.capital_base = position.capital_base
      /\ position'.open_cost = position.open_cost /\ position'.entry = position.entry
  BY <1>3, <1>7 DEF PositionType
<1>10. day' - 1 # position'.entry  BY <1>3, <1>8, <1>9
<1>11. Dead(position)' <=> Dead([position EXCEPT !.equity = equity])
  <2>1. /\ [position EXCEPT !.equity = equity].equity = equity
        /\ [position EXCEPT !.equity = equity].capital_base = position.capital_base
    BY <1>3 DEF PositionType
  <2> QED  BY <1>9, <2>1 DEF Dead
<1>12. CASE ledger'.died
  <2>1. ASSUME Dead(position) PROVE Dead(position)'
    <3>1. equity = position.equity  BY <2>1 DEF equity, NewEquity
    <3> QED  BY <1>9, <2>1, <3>1 DEF Dead
  <2>2. ASSUME ~newborn, ledger.died PROVE Dead(position)
    BY <1>1, <1>3, <2>2 DEF EquityInv, EquityIsAccounted
  <2>3. Dead(position)'  BY <1>6, <1>11, <1>12, <2>1, <2>2
  <2> QED  BY <1>10, <1>12, <2>3 DEF EquityInv, EquityIsAccounted
<1>13. CASE ~ledger'.died
  <2>1. ~Dead(position) /\ ~Dead([position EXCEPT !.equity = equity])
    BY <1>6, <1>13
  <2>2. equity = Clamped(position.equity + pnl - charge)
    BY <2>1 DEF equity, NewEquity
  <2>3. position.equity + pnl - charge \in Int  BY <1>4, <1>5
  <2>4. equity = position.equity + pnl - charge
    BY <1>3, <2>1, <2>2, <2>3, AliveIsUnclamped
  <2>5. CASE newborn
    <3>1. position.equity = position.capital_base  BY <1>1, <2>5 DEF EquityInv
    <3>2. charge = position.open_cost  BY <2>5 DEF charge, OpenCost
    <3>3. ledger'.gross = pnl  BY <1>5, <1>6, <2>5
    <3>4. equity = position.capital_base + ledger'.gross - position.open_cost
      BY <2>4, <3>1, <3>2, <3>3
    <3> QED  BY <1>9, <1>10, <1>13, <3>4 DEF EquityInv, EquityIsAccounted
  <2>6. CASE ~newborn
    <3>1. ~ledger.died  BY <1>6, <1>13, <2>6
    <3>2. position.equity = position.capital_base + ledger.gross - position.open_cost
      BY <1>1, <1>3, <2>6, <3>1 DEF EquityInv, EquityIsAccounted
    <3>3. charge = 0  BY <2>6 DEF charge, OpenCost
    <3>4. ledger'.gross = ledger.gross + pnl  BY <1>6, <2>6
    <3>5. equity = position.capital_base + ledger'.gross - position.open_cost
      BY <1>3, <1>4, <1>5, <2>4, <3>2, <3>3, <3>4
    <3> QED  BY <1>9, <1>10, <1>13, <3>5 DEF EquityInv, EquityIsAccounted
  <2> QED  BY <2>5, <2>6
<1> QED  BY <1>12, <1>13

LEMMA EquityStep == TypeInv /\ EquityInv /\ [Next]_vars => EquityInv'
<1> SUFFICES ASSUME TypeInv, EquityInv, [Next]_vars PROVE EquityInv'
  OBVIOUS
<1>1. ASSUME NEW s \in Spots, Warmup(s) PROVE EquityInv'
  BY <1>1 DEF Warmup, EquityInv, Open
<1>2. ASSUME NEW s \in Spots, NEW v \in Vols, Enter(s, v) PROVE EquityInv'
  BY <1>2, OpenedAtCapital DEF Enter
<1>3. ASSUME NEW s \in Spots, NEW v \in Vols, NEW likely \in BOOLEAN, Hold(s, v, likely)
      PROVE EquityInv'
  <2>1. CASE ShouldClose(likely)
    BY <1>3, <2>1, OpenedAtCapital DEF Hold
  <2>2. CASE ~ShouldClose(likely)
    BY <1>3, <2>2, KeptIsAccounted
  <2> QED  BY <2>1, <2>2
<1>4. CASE UNCHANGED vars
  BY <1>4 DEF vars, EquityInv, EquityIsAccounted, Open, Dead
<1> QED  BY <1>1, <1>2, <1>3, <1>4 DEF Next

\* The equity behind the daily returns is the capital, what the cycle earned and
\* the cost of its own opening, charged once, whatever the cycles before it did.
THEOREM EquityFollowsCycle == Spec => []EquityIsAccounted
<1>1. Init => EquityInv
  BY DEF Init, EquityInv, Open
<1>2. TypeInv /\ EquityInv => EquityIsAccounted
  <2> SUFFICES ASSUME TypeInv, EquityInv, Open, day - 1 > position.entry
               PROVE  EquityIsAccounted
    BY DEF EquityIsAccounted
  <2>1. day - 1 # position.entry
    <3>1. day \in Int /\ position.entry \in Int
      BY SizesAssumption DEF TypeInv, TypeOK, Clock
    <3> QED  BY <3>1
  <2> QED  BY <2>1 DEF EquityInv
<1> QED  BY TypeInit, TypeStep, <1>1, EquityStep, <1>2, PTL DEF Spec
-----------------------------------------------------------------------------
Cycle == spec.dte_target - spec.roll_at_dte

\* Every cycle ends on its last row at the latest, and on no other row unless
\* assignment is avoided; assignments are entries of later cycles.
RollsDue ==
  /\ Open => /\ first \in Nat /\ first <= position.entry
             /\ day - 1 - position.entry < Cycle
             /\ position.entry - first <= n_rolls * Cycle
             /\ spec.avoid_assignment \/ position.entry - first = n_rolls * Cycle
             /\ \A k \in 1..Len(events) : events[k] <= position.entry
  /\ ~Open => n_rolls = 0 /\ events = <<>>
  /\ spec.roll_at_dte > 0 => events = <<>>
  /\ \A m, n \in 1..Len(events) : m < n => events[n] - events[m] >= spec.dte_target

\* A cycle has at least one row and at most those of its contract.
LEMMA CycleTyped ==
  ASSUME spec \in Specs
  PROVE  /\ Cycle \in Nat \ {0} /\ spec.roll_at_dte \in Nat /\ spec.dte_target \in Nat
         /\ spec.avoid_assignment \in BOOLEAN
<1>1. spec.dte_target \in 1..Days /\ Days \in Nat  BY SpecTyped
<1>2. /\ spec.roll_at_dte \in 0..Days /\ spec.roll_at_dte < spec.dte_target
      /\ spec.avoid_assignment \in BOOLEAN
  BY DEF Specs
<1> QED  BY <1>1, <1>2 DEF Cycle

\* The next multiple.
LEMMA NextProduct ==
  ASSUME NEW n \in Nat, NEW c \in Nat
  PROVE  n * c \in Nat /\ (n + 1) * c = n * c + c
OBVIOUS

\* A quotient is at most what its bound says, and is it when exact.
LEMMA QuotientBounded ==
  ASSUME NEW x \in Nat, NEW c \in Nat \ {0}, NEW q \in Nat, x < (q + 1) * c
  PROVE  /\ x \div c <= q
         /\ q * c <= x => x \div c = q
<1> DEFINE d == x \div c
           r == x % c
<1>1. d \in Nat /\ r \in 0 .. c - 1 /\ x = c * d + r
  OBVIOUS
<1> HIDE DEF d, r
<1>2. d <= q
  <2> SUFFICES ASSUME d >= q + 1 PROVE FALSE
    BY <1>1
  <2>1. PICK e \in Nat : d = (q + 1) + e
    <3>1. d - (q + 1) \in Nat /\ d = (q + 1) + (d - (q + 1))  BY <1>1
    <3> QED  BY <3>1
  <2>2. c * d = (q + 1) * c + c * e /\ c * e \in Nat
    BY <2>1
  <2> QED  BY <1>1, <2>2
<1>3. ASSUME q * c <= x PROVE d >= q
  <2> SUFFICES ASSUME q >= d + 1 PROVE FALSE
    BY <1>1
  <2>1. PICK e \in Nat : q = (d + 1) + e
    <3>1. q - (d + 1) \in Nat /\ q = (d + 1) + (q - (d + 1))  BY <1>1
    <3> QED  BY <3>1
  <2>2. q * c = c * d + c + c * e /\ c * e \in Nat
    BY <1>1, <2>1
  <2> QED  BY <1>1, <1>3, <2>2
<1> QED  BY <1>1, <1>2, <1>3 DEF d

\* A row that ends a cycle, at most Cycle rows after it began.
LEMMA RollIsScheduled ==
  ASSUME TypeInv, RollsDue, Open, day < Days,
         NEW s \in Spots, NEW v \in Vols, NEW likely \in BOOLEAN,
         Hold(s, v, likely), ShouldClose(likely)
  PROVE  RollsDue'
<1>1. /\ spec \in Specs /\ day \in Nat /\ n_rolls \in Nat /\ events \in Seq(0..Days)
      /\ position.entry \in 0 .. day - 1 /\ position.expiry = position.entry + spec.dte_target
  BY SizesAssumption DEF TypeInv, TypeOK, Clock
<1>2. /\ Cycle \in Nat \ {0} /\ spec.roll_at_dte \in Nat /\ spec.dte_target \in Nat
      /\ spec.avoid_assignment \in BOOLEAN
  BY <1>1, CycleTyped
<1>3. /\ position' = OpenPosition(spec, s, v, day) /\ n_rolls' = n_rolls + 1
      /\ events' = IF Assigned(s) THEN Append(events, day) ELSE events
      /\ day' = day + 1 /\ spec' = spec /\ first' = first
  BY DEF Hold
<1>4. position'.entry = day
  <2>1. day \in 0..Days  BY DEF TypeInv, TypeOK
  <2> QED  BY <1>1, <1>3, <2>1, Opened
<1>5. /\ first \in Nat /\ first <= position.entry /\ day - 1 - position.entry < Cycle
      /\ position.entry - first <= n_rolls * Cycle
      /\ spec.avoid_assignment \/ position.entry - first = n_rolls * Cycle
      /\ \A k \in 1..Len(events) : events[k] <= position.entry
  BY DEF RollsDue
<1>6. Cycle' = Cycle  BY <1>3 DEF Cycle
<1>7. n_rolls * Cycle \in Nat /\ (n_rolls + 1) * Cycle = n_rolls * Cycle + Cycle
  BY <1>1, <1>2, NextProduct
<1>8. /\ position.entry \in Int /\ day \in Int /\ position.expiry = position.entry + spec.dte_target
      /\ day - position.entry <= Cycle /\ Cycle = spec.dte_target - spec.roll_at_dte
  <2>1. Cycle = spec.dte_target - spec.roll_at_dte  BY DEF Cycle
  <2>2. day - 1 - position.entry < Cycle  BY <1>5
  <2> QED  BY ONLY <1>1, <1>2, <2>1, <2>2
<1>9. day - first <= n_rolls' * Cycle
  BY <1>1, <1>2, <1>3, <1>5, <1>7
<1>10. ASSUME ~spec.avoid_assignment PROVE day - first = n_rolls' * Cycle
  <2>1. position.expiry - day <= 0 \/ position.expiry - day <= spec.roll_at_dte
    BY <1>10 DEF ShouldClose, ShouldSettle, Due, Left
  <2>2. day - position.entry = Cycle
    BY <1>2, <1>8, <2>1
  <2> QED  BY <1>1, <1>2, <1>3, <1>5, <1>7, <1>10, <2>2
<1>11. ASSUME Assigned(s) PROVE spec.roll_at_dte = 0 /\ day = position.entry + spec.dte_target
  <2>1. position.expiry - day <= 0  BY <1>11 DEF Assigned, ShouldSettle, Left
  <2> QED  BY <1>2, <1>8, <2>1
<1>12. /\ \A k \in 1..Len(events') : events'[k] <= day
       /\ spec.roll_at_dte > 0 => events' = <<>>
       /\ \A m, n \in 1..Len(events') : m < n => events'[n] - events'[m] >= spec.dte_target
  <2>1. CASE Assigned(s)
    <3>1. spec.roll_at_dte = 0 /\ day = position.entry + spec.dte_target
      BY <1>11, <2>1
    <3>2. /\ Len(events') = Len(events) + 1 /\ Len(events) \in Nat
          /\ events'[Len(events) + 1] = day
          /\ \A k \in 1..Len(events) : events'[k] = events[k] /\ events[k] \in Int
      <4>1. events' = Append(events, day)  BY <1>3, <2>1
      <4>2. Len(events) \in Nat /\ \A k \in 1..Len(events) : events[k] \in Int
        BY <1>1, SizesAssumption
      <4> QED  BY <1>1, <4>1, <4>2
    <3>3. \A k \in 1..Len(events) : events[k] + spec.dte_target <= day
      BY <1>1, <1>2, <1>5, <3>1, <3>2
    <3>4. \A k \in 1..Len(events') : k \in 1..Len(events) \/ k = Len(events) + 1
      BY <3>2
    <3>5. \A k \in 1..Len(events') : events'[k] <= day
      <4>1. \A k \in 1..Len(events) : events'[k] <= day
        BY <1>1, <1>2, <3>2, <3>3
      <4> QED  BY <1>1, <3>2, <3>4, <4>1
    <3>6. \A m, n \in 1..Len(events') : m < n => events'[n] - events'[m] >= spec.dte_target
      <4> SUFFICES ASSUME NEW m \in 1..Len(events'), NEW n \in 1..Len(events'), m < n
                   PROVE  events'[n] - events'[m] >= spec.dte_target
        OBVIOUS
      <4>1. m \in 1..Len(events)  BY <3>2
      <4>2. CASE n \in 1..Len(events)
        BY <3>2, <4>1, <4>2 DEF RollsDue
      <4>3. CASE n = Len(events) + 1
        BY <1>1, <1>2, <3>2, <3>3, <4>1, <4>3
      <4> QED  BY <3>4, <4>2, <4>3
    <3> QED  BY <3>1, <3>5, <3>6
  <2>2. CASE ~Assigned(s)
    <3>1. events' = events  BY <1>3, <2>2
    <3>2. \A k \in 1..Len(events) : events[k] \in Int  BY <1>1, SizesAssumption
    <3>3. \A k \in 1..Len(events) : events[k] <= day  BY <1>1, <1>5, <3>2
    <3> QED  BY <3>1, <3>3 DEF RollsDue
  <2> QED  BY <2>1, <2>2
<1>13. Open'
  <2>1. NoPosition.entry = -1  BY DEF NoPosition
  <2> QED  BY <1>1, <1>4, <2>1 DEF Open
<1>14. day' - 1 - position'.entry < Cycle  BY <1>1, <1>2, <1>3, <1>4
<1>15. first <= day  BY <1>1, <1>5
<1> QED  BY <1>3, <1>4, <1>5, <1>6, <1>9, <1>10, <1>12, <1>13, <1>14, <1>15 DEF RollsDue

\* A row that ends no cycle is not the last one a cycle may have.
LEMMA RestIsScheduled ==
  ASSUME TypeInv, RollsDue, Open, day < Days,
         NEW s \in Spots, NEW v \in Vols, NEW likely \in BOOLEAN,
         Hold(s, v, likely), ~ShouldClose(likely)
  PROVE  RollsDue'
<1>1. /\ spec \in Specs /\ day \in Nat /\ position \in PositionType
      /\ position.entry \in 0 .. day - 1 /\ position.expiry = position.entry + spec.dte_target
  BY SizesAssumption DEF TypeInv, TypeOK, Clock, PositionType
<1>2. Cycle \in Nat /\ spec.roll_at_dte \in Nat /\ spec.dte_target \in Nat
  BY <1>1, CycleTyped
<1>3. /\ \E x, y : position' = [position EXCEPT !.book = x, !.equity = y]
      /\ n_rolls' = n_rolls /\ events' = events
      /\ day' = day + 1 /\ spec' = spec /\ first' = first
  BY DEF Hold
<1>4. position'.entry = position.entry  BY <1>1, <1>3 DEF PositionType
<1>5. position.expiry - day > spec.roll_at_dte
  <2>1. ~(position.expiry - day <= spec.roll_at_dte)  BY DEF ShouldClose, Due, Left
  <2> QED  BY <1>1, <1>2, <2>1
<1>6. day' - 1 - position'.entry < Cycle
  BY <1>1, <1>2, <1>3, <1>4, <1>5 DEF Cycle
<1>7. Open'
  <2>1. NoPosition.entry = -1  BY DEF NoPosition
  <2> QED  BY <1>1, <1>4, <2>1 DEF Open
<1>8. Cycle' = Cycle  BY <1>3 DEF Cycle
<1> QED  BY <1>3, <1>4, <1>6, <1>7, <1>8 DEF RollsDue

LEMMA ScheduleStep == TypeInv /\ RollsDue /\ [Next]_vars => RollsDue'
<1> SUFFICES ASSUME TypeInv, RollsDue, [Next]_vars PROVE RollsDue'
  OBVIOUS
<1>1. ASSUME NEW s \in Spots, Warmup(s) PROVE RollsDue'
  BY <1>1 DEF Warmup, RollsDue, Open, Cycle
<1>2. ASSUME NEW s \in Spots, NEW v \in Vols, Enter(s, v) PROVE RollsDue'
  <2>1. spec \in Specs /\ day \in 0..Days /\ day \in Nat
    BY SizesAssumption DEF TypeInv, TypeOK
  <2>2. /\ n_rolls = 0 /\ events = <<>> /\ Len(events) = 0
        /\ n_rolls' = 0 /\ events' = <<>> /\ first' = day
        /\ day' = day + 1 /\ spec' = spec
    BY <1>2 DEF Enter, RollsDue
  <2>3. position'.entry = day  BY <1>2, <2>1, Opened DEF Enter
  <2>4. Open'
    <3>1. NoPosition.entry = -1  BY DEF NoPosition
    <3> QED  BY <2>1, <2>3, <3>1 DEF Open
  <2>5. Cycle' = Cycle /\ Cycle \in Nat \ {0}  BY <2>1, <2>2, CycleTyped DEF Cycle
  <2>6. 0 * Cycle = 0 /\ day - day = 0 /\ day' - 1 - day = 0  BY <2>1, <2>2, <2>5
  <2> QED  BY <2>1, <2>2, <2>3, <2>4, <2>5, <2>6 DEF RollsDue
<1>3. ASSUME NEW s \in Spots, NEW v \in Vols, NEW likely \in BOOLEAN, Hold(s, v, likely)
      PROVE RollsDue'
  <2>1. Open /\ day < Days  BY <1>3 DEF Hold
  <2>2. CASE ShouldClose(likely)
    BY <1>3, <2>1, <2>2, RollIsScheduled
  <2>3. CASE ~ShouldClose(likely)
    BY <1>3, <2>1, <2>3, RestIsScheduled
  <2> QED  BY <2>2, <2>3
<1>4. CASE UNCHANGED vars
  BY <1>4 DEF vars, RollsDue, Open, Cycle
<1> QED  BY <1>1, <1>2, <1>3, <1>4 DEF Next

\* Rolls come on schedule, at least as many as the schedule has when assignment
\* is avoided, and an assignment is an expiry.
THEOREM RollsComeOnSchedule == Spec => []RollsOnSchedule
<1>1. Init => RollsDue
  <2> SUFFICES ASSUME Init PROVE RollsDue
    OBVIOUS
  <2>1. events = <<>> /\ Len(events) = 0 /\ n_rolls = 0 /\ ~Open  BY DEF Init, Open
  <2> QED  BY <2>1 DEF RollsDue
<1>2. TypeInv /\ RollsDue => RollsOnSchedule
  <2> SUFFICES ASSUME TypeInv, RollsDue PROVE RollsOnSchedule
    OBVIOUS
  <2>1. spec \in Specs /\ day \in Nat /\ n_rolls \in Nat
    BY SizesAssumption DEF TypeInv, TypeOK
  <2>2. Cycle \in Nat \ {0} /\ spec.avoid_assignment \in BOOLEAN  BY <2>1, CycleTyped
  <2>3. CASE Open
    <3>1. /\ position.entry \in 0 .. day - 1
          /\ first \in Nat /\ first <= position.entry
          /\ day - 1 - position.entry < Cycle
          /\ position.entry - first <= n_rolls * Cycle
          /\ spec.avoid_assignment \/ position.entry - first = n_rolls * Cycle
      BY <2>3 DEF TypeInv, Clock, RollsDue
    <3>2. n_rolls * Cycle \in Nat /\ (n_rolls + 1) * Cycle = n_rolls * Cycle + Cycle
      BY <2>1, <2>2, NextProduct
    <3>3. day - 1 - first \in Nat /\ day - 1 - first < (n_rolls + 1) * Cycle
      BY <2>1, <2>2, <3>1, <3>2
    <3>4. ~spec.avoid_assignment => n_rolls * Cycle <= day - 1 - first
      BY <2>1, <2>2, <3>1, <3>2
    <3>5. /\ (day - 1 - first) \div Cycle <= n_rolls
          /\ ~spec.avoid_assignment => (day - 1 - first) \div Cycle = n_rolls
      BY <2>1, <2>2, <3>3, <3>4, QuotientBounded
    <3>6. (day - 1 - first) \div Cycle \in Int  BY <2>2, <3>3
    <3> QED  BY <2>1, <2>3, <3>5, <3>6 DEF RollsOnSchedule, RollsDue, Cycle
  <2>4. CASE ~Open
    BY <2>1, <2>4 DEF RollsOnSchedule, RollsDue
  <2> QED  BY <2>3, <2>4
<1> QED  BY TypeInit, TypeStep, <1>1, ScheduleStep, <1>2, PTL DEF Spec
=============================================================================
