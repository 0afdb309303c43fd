---------------------------- MODULE SweepProofs ----------------------------
(***************************************************************************)
(* Proof that Sweep implements SweepContract for any symbols, any grid and *)
(* any number of workers.  The invariant: the serial loop holds the first  *)
(* rows of the table; the pool's caller has lost track of no symbol, so    *)
(* one that is neither waited for nor in the batch at hand is finished.    *)
(***************************************************************************)
EXTENDS Sweep, FiniteSetTheorems, TLAPS

Config == Contract!Config
Places == {"none", "pending", "called", "executing", "finished", "failed", "cancelled"}

\* Every pair has a number.
LEMMA PairsAreNumbered ==
  ASSUME NEW p \in Symbol \X Config
  PROVE  \E n \in 1..NPairs : Contract!Pair(n) = p
<1>1. PICK i \in 1..Len(Symbols), j \in 1..Len(Configs) : p = <<Symbols[i], Configs[j]>>
  <2>1. PICK s \in Symbol, c \in Config : p = <<s, c>>
    OBVIOUS
  <2> QED BY <2>1 DEF Symbol, Config, Contract!Symbol, Contract!Config
<1> DEFINE K == Len(Configs)
           L == Len(Symbols)
           n == (i - 1) * K + j
<1>2. K \in Nat /\ L \in Nat /\ i \in 1..L /\ j \in 1..K
  BY SweepAssumption
<1> HIDE DEF K, L
<1>3. n \in Nat /\ n >= 1 /\ (i - 1) * K \in Nat
  <2>1. (i - 1) * K \in Nat
    BY <1>2, Z3
  <2> QED BY <1>2, <2>1
<1>4. n <= L * K
  <2>1. (i - 1) * K <= (L - 1) * K
    BY <1>2, Z3
  <2>2. (L - 1) * K = L * K - K /\ L * K \in Nat
    BY <1>2, Z3
  <2>3. (i - 1) * K + K <= L * K
    BY <2>1, <2>2, <1>2, <1>3
  <2> QED BY <2>2, <2>3, <1>2, <1>3
<1>5. (n - 1) \div K = i - 1 /\ (n - 1) % K = j - 1
  <2>1. n - 1 = (i - 1) * K + (j - 1)
    BY <1>2, <1>3
  <2> QED BY <1>2, <2>1, Z3
<1>6. Contract!Pair(n) = p
  BY <1>1, <1>2, <1>5 DEF Contract!Pair, K
<1>7. L * K \in Nat
  BY <1>2, Z3
<1>8. n \in 1..NPairs
  BY <1>3, <1>4, <1>7 DEF NPairs, K, L
<1> QED BY <1>6, <1>8

LEMMA NumbersArePairs ==
  ASSUME NEW n \in 1..NPairs
  PROVE  Contract!Pair(n) \in Symbol \X Config
<1> DEFINE K == Len(Configs)
           L == Len(Symbols)
<1>1. K \in Nat /\ L \in Nat /\ n \in 1 .. L * K /\ L * K \in Nat
  <2>1. K \in Nat /\ L \in Nat
    BY SweepAssumption
  <2>2. L * K \in Nat
    BY <2>1, Z3
  <2> QED BY <2>1, <2>2 DEF NPairs
<1> HIDE DEF K, L
<1>2. K > 0
  <2>1. K = 0 => L * K = 0
    BY <1>1, Z3
  <2> QED BY <1>1, <2>1
<1>3. (n - 1) \div K \in 0 .. L - 1
  <2> DEFINE q == (n - 1) \div K
  <2>1. q \in Int /\ q >= 0 /\ q * K <= n - 1
    BY <1>1, <1>2, Z3
  <2> HIDE DEF q
  <2>2. q * K < L * K
    <3>1. q * K \in Int
      BY <2>1, <1>1, Z3
    <3> QED BY <2>1, <1>1, <3>1
  <2>3. q < L
    <3>1. q >= L => q * K >= L * K
      BY <1>1, <2>1, Z3
    <3>2. q * K \in Int
      BY <2>1, <1>1, Z3
    <3> QED BY <1>1, <2>1, <2>2, <3>1, <3>2
  <2>4. q \in 0 .. L - 1
    BY <1>1, <2>1, <2>3
  <2> QED BY <2>4 DEF q
<1>4. (n - 1) % K \in 0 .. K - 1
  <2>1. n - 1 \in Int /\ K \in Int
    BY <1>1
  <2> QED BY <1>2, <2>1, Z3
<1>5. Symbols[((n - 1) \div K) + 1] \in Symbol
  BY <1>1, <1>3 DEF Symbol, Contract!Symbol, L
<1>6. Configs[((n - 1) % K) + 1] \in Config
  BY <1>1, <1>4 DEF Config, Contract!Config, K
<1> QED BY <1>5, <1>6 DEF Contract!Pair, K
-----------------------------------------------------------------------------
TypeOK ==
  /\ yields \in Contract!Rows /\ stop \in BOOLEAN /\ broken \in BOOLEAN
  /\ pc \in {"serial", "submit", "wait", "collect", "returned"}
  /\ future \in [Symbol -> Places]
  /\ pending \subseteq Symbol /\ batch \subseteq Symbol
  /\ pc # "returned" => result = Contract!None

\* The serial loop has written the first rows, and none of them raised.
SerialInv ==
  pc = "serial" =>
    \E n \in 0..NPairs :
      /\ rows = [k \in 1..n |-> <<Contract!Pair(k), yields[Contract!Pair(k)]>>]
      /\ \A k \in 1..n : yields[Contract!Pair(k)] # "raises"

\* The first m symbols.
First(m) == {Symbols[k] : k \in 1..m}

\* The caller submits the symbols in their order, and waits for every one.
SubmitInv ==
  pc = "submit" =>
    \E m \in 0 .. Len(Symbols) - 1 :
      {s \in Symbol : future[s] # "none"} = First(m) /\ pending = First(m)

\* What is not waited for any more has finished; what finished did not raise.
CollectInv ==
  /\ pc \in {"wait", "collect"} =>
       \A s \in Symbol : s \in pending \cup batch \/ future[s] = "finished"
  /\ pc \in {"serial", "submit", "wait"} => batch = {}
  /\ pc = "collect" => batch \subseteq Completed
  /\ \A s \in Symbol : future[s] = "finished" => ~Raises(s)
  /\ \A s \in Symbol : future[s] = "failed" => broken \/ Raises(s)

SweepInv == TypeOK /\ SerialInv /\ SubmitInv /\ CollectInv

\* A pool has at least two symbols to share out.
LEMMA PoolNeedsSymbols ==
  ASSUME NEW n \in Requested, ~TakesSerialPath(n)
  PROVE  Len(Symbols) >= 2
<1>1. Len(Symbols) \in Nat /\ n \in Int \cup {NoValue} /\ Cores \in Nat
  BY SweepAssumption
<1>2. ResolvedWorkers(n) > 1
  <2>1. ~ (ResolvedWorkers(n) <= 1)
    BY DEF TakesSerialPath
  <2>2. ResolvedWorkers(n) \in Int
    BY <1>1 DEF ResolvedWorkers, Least, Greatest
  <2> QED BY <2>1, <2>2
<1> QED BY <1>1, <1>2 DEF ResolvedWorkers, Least, Greatest

LEMMA SweepInvInit == Init => SweepInv
<1> SUFFICES ASSUME Init PROVE SweepInv
  OBVIOUS
<1>1. TypeOK
  BY DEF Init, TypeOK, Places
<1>2. SerialInv
  <2> SUFFICES ASSUME pc = "serial" PROVE SerialInv
    BY DEF SerialInv
  <2>1. rows = [k \in 1..0 |-> <<Contract!Pair(k), yields[Contract!Pair(k)]>>]
    BY DEF Init
  <2>2. 0 \in 0..NPairs
    <3>1. Len(Symbols) \in Nat /\ Len(Configs) \in Nat
      BY SweepAssumption
    <3>2. NPairs \in Nat
      BY <3>1, Z3 DEF NPairs
    <3> QED BY <3>2
  <2> QED BY <2>1, <2>2 DEF SerialInv
<1>3. SubmitInv
  <2> SUFFICES ASSUME pc = "submit" PROVE SubmitInv
    BY DEF SubmitInv
  <2>1. Len(Symbols) >= 2 /\ Len(Symbols) \in Nat
    BY PoolNeedsSymbols, SweepAssumption DEF Init
  <2>2. {s \in Symbol : future[s] # "none"} = First(0) /\ pending = First(0)
    BY DEF Init, First
  <2> QED BY <2>1, <2>2 DEF SubmitInv
<1>4. CollectInv
  BY DEF Init, CollectInv
<1> QED BY <1>1, <1>2, <1>3, <1>4 DEF SweepInv
-----------------------------------------------------------------------------
LEMMA PairsCount == NPairs \in Nat
<1>1. Len(Symbols) \in Nat /\ Len(Configs) \in Nat
  BY SweepAssumption
<1> QED BY <1>1, Z3 DEF NPairs

LEMMA SerialKeepsInv == SweepInv /\ (Serial \/ SerialReturns) => SweepInv'
<1> SUFFICES ASSUME SweepInv, Serial \/ SerialReturns PROVE SweepInv'
  OBVIOUS
<1>1. pc = "serial" /\ pc' \in {"serial", "returned"}
  BY DEF Serial, SerialReturns
<1>2. UNCHANGED <<yields, stop, broken, future, pending, batch>>
  BY DEF Serial, SerialReturns, InputsUnchanged, parallel
<1>3. TypeOK'
  <2>1. pc' = "serial" => result' = result
    BY DEF Serial, SerialReturns
  <2> QED BY <1>1, <1>2, <2>1 DEF SweepInv, TypeOK
<1>4. SerialInv'
  <2> SUFFICES ASSUME pc' = "serial" PROVE SerialInv'
    BY DEF SerialInv
  <2> DEFINE pair == Contract!Pair(Len(rows) + 1)
  <2>1. /\ Len(rows) < NPairs /\ yields[pair] # "raises"
        /\ rows' = Append(rows, <<pair, yields[pair]>>)
    BY DEF Serial, SerialReturns
  <2>2. PICK n \in 0..NPairs :
          /\ rows = [k \in 1..n |-> <<Contract!Pair(k), yields[Contract!Pair(k)]>>]
          /\ \A k \in 1..n : yields[Contract!Pair(k)] # "raises"
    BY <1>1 DEF SweepInv, SerialInv
  <2>3. n \in Nat /\ Len(rows) = n
    BY <2>2, PairsCount
  <2>4. n + 1 \in 0..NPairs
    BY <2>1, <2>3, PairsCount
  <2> DEFINE entry(k) == <<Contract!Pair(k), yields[Contract!Pair(k)]>>
  <2>5. rows' = [k \in 1 .. n + 1 |-> entry(k)]
    <3>1. rows = [k \in 1..n |-> entry(k)] /\ rows' = Append(rows, entry(n + 1))
      BY <2>1, <2>2, <2>3
    <3> HIDE DEF entry
    <3> QED BY <2>3, <3>1
  <2>6. \A k \in 1 .. n + 1 : yields[Contract!Pair(k)] # "raises"
    <3> SUFFICES ASSUME NEW k \in 1 .. n + 1 PROVE yields[Contract!Pair(k)] # "raises"
      OBVIOUS
    <3>1. CASE k = n + 1
      BY <2>1, <2>3, <3>1
    <3>2. CASE k \in 1..n
      BY <2>2, <3>2
    <3> QED BY <2>3, <3>1, <3>2
  <2> QED BY <1>2, <2>4, <2>5, <2>6 DEF SerialInv
<1>5. SubmitInv'
  BY <1>1 DEF SubmitInv
<1>6. CollectInv'
  BY <1>1, <1>2 DEF SweepInv, CollectInv, Raises
<1> QED BY <1>3, <1>4, <1>5, <1>6 DEF SweepInv

\* Symbols are distinct, so as many are submitted as futures exist.
LEMMA FirstHas == ASSUME NEW m \in 0..Len(Symbols) PROVE Cardinality(First(m)) = m
<1>1. Len(Symbols) \in Nat /\ m \in Nat /\ 1..m \subseteq 1..Len(Symbols)
  BY SweepAssumption
<1> DEFINE f == [k \in 1..m |-> Symbols[k]]
<1>2. f \in Bijection(1..m, First(m))
  <2>1. f \in [1..m -> First(m)] /\ \A s \in First(m) : \E k \in 1..m : f[k] = s
    BY DEF First
  <2>2. \A a, b \in 1..m : f[a] = f[b] => a = b
    BY <1>1, SweepAssumption
  <2> HIDE DEF f
  <2> QED BY <2>1, <2>2 DEF Bijection, Injection, Surjection, IsInjective
<1>3. IsFiniteSet(1..m) /\ Cardinality(1..m) = m
  BY <1>1, FS_Interval
<1>4. ExistsBijection(1..m, First(m))
  BY <1>2 DEF ExistsBijection
<1> QED BY <1>3, <1>4, FS_Bijection

LEMMA SubmitKeepsInv == SweepInv /\ Submit => SweepInv'
<1> SUFFICES ASSUME SweepInv, Submit PROVE SweepInv'
  OBVIOUS
<1>1. pc = "submit" /\ UNCHANGED <<yields, stop, broken, batch>>
  BY DEF Submit, InputsUnchanged
<1>2. CASE broken
  <2>1. pc' = "returned" /\ CancelPending /\ pending' = pending
    BY <1>2 DEF Submit, TearDown
  <2>2. future' \in [Symbol -> Places]
        /\ \A s \in Symbol : future'[s] \in {"finished", "failed"} => future'[s] = future[s]
    BY <2>1 DEF CancelPending, SweepInv, TypeOK, Places
  <2>3. TypeOK'
    BY <1>1, <2>1, <2>2 DEF SweepInv, TypeOK
  <2>4. CollectInv'
    BY <1>1, <2>1, <2>2 DEF SweepInv, CollectInv, Raises
  <2> QED BY <2>1, <2>3, <2>4 DEF SweepInv, SerialInv, SubmitInv
<1>3. CASE ~broken
  <2> DEFINE n == Cardinality({s \in Symbol : future[s] # "none"})
  <2>1. PICK m \in 0 .. Len(Symbols) - 1 :
          {s \in Symbol : future[s] # "none"} = First(m) /\ pending = First(m)
    BY <1>1 DEF SweepInv, SubmitInv
  <2>2. Len(Symbols) \in Nat /\ m \in Nat /\ m + 1 <= Len(Symbols)
    BY SweepAssumption
  <2>3. n = m
    <3>1. m \in 0..Len(Symbols)
      BY <2>2
    <3> QED BY <2>1, <3>1, FirstHas
  <2>4. /\ future'  = [future EXCEPT ![Symbols[m + 1]] = "pending"]
        /\ pending' = pending \cup {Symbols[m + 1]}
        /\ pc' = IF m + 1 = Len(Symbols) THEN "wait" ELSE "submit"
        /\ result' = result
    BY <1>3, <2>3 DEF Submit
  <2>5. Symbols[m + 1] \in Symbol
    BY <2>2 DEF Symbol, Contract!Symbol
  <2>6. future' \in [Symbol -> Places]
        /\ \A s \in Symbol : future'[s] \in {"finished", "failed"} => future'[s] = future[s]
    BY <2>4, <2>5 DEF SweepInv, TypeOK, Places
  <2>7. First(m + 1) = First(m) \cup {Symbols[m + 1]}
    BY <2>2 DEF First
  <2>8. TypeOK'
    BY <1>1, <2>4, <2>5, <2>6 DEF SweepInv, TypeOK
  <2>9. SerialInv'
    BY <2>4 DEF SerialInv
  <2>10. SubmitInv'
    <3> SUFFICES ASSUME pc' = "submit" PROVE SubmitInv'
      BY DEF SubmitInv
    <3>1. m + 1 \in 0 .. Len(Symbols) - 1
      BY <2>2, <2>4
    <3>2. {s \in Symbol : future'[s] # "none"} = First(m + 1)
      <4>1. \A s \in Symbol : future'[s] # "none" <=> future[s] # "none" \/ s = Symbols[m + 1]
        BY <2>4, <2>5 DEF SweepInv, TypeOK
      <4> QED BY <2>1, <2>5, <2>7, <4>1
    <3> QED BY <2>1, <2>4, <2>7, <3>1, <3>2 DEF SubmitInv
  <2>11. CollectInv'
    <3>1. \A s \in Symbol : future'[s] = "finished" => ~Raises(s)'
      BY <1>1, <2>6 DEF SweepInv, CollectInv, Raises
    <3>2. \A s \in Symbol : future'[s] = "failed" => (broken \/ Raises(s))'
      BY <1>1, <2>6 DEF SweepInv, CollectInv, Raises
    <3>3. pc' = "wait" => pending' = Symbol
      BY <2>1, <2>2, <2>4, <2>7 DEF First, Symbol, Contract!Symbol
    <3>4. batch' = {}
      BY <1>1 DEF SweepInv, CollectInv
    <3> QED BY <2>4, <3>1, <3>2, <3>3, <3>4 DEF CollectInv
  <2> QED BY <2>8, <2>9, <2>10, <2>11 DEF SweepInv
<1> QED BY <1>2, <1>3
-----------------------------------------------------------------------------
LEMMA WaitKeepsInv == SweepInv /\ Wait => SweepInv'
<1> SUFFICES ASSUME SweepInv, Wait PROVE SweepInv'
  OBVIOUS
<1>1. /\ pc = "wait" /\ pc' = "collect" /\ UNCHANGED <<yields, stop, broken, result, future>>
      /\ batch' = WaitForOne /\ pending' = pending \ WaitForOne
  BY DEF Wait, InputsUnchanged, StillPending
<1>2. TypeOK'
  BY <1>1 DEF SweepInv, TypeOK, WaitForOne
<1>3. CollectInv'
  <2>1. \A s \in Symbol : s \in pending' \cup batch' \/ future'[s] = "finished"
    <3>1. \A s \in Symbol : s \in pending \/ s \in batch \/ future[s] = "finished"
      BY <1>1 DEF SweepInv, CollectInv
    <3>2. batch = {}
      BY <1>1 DEF SweepInv, CollectInv
    <3> QED BY <1>1, <3>1, <3>2
  <2> QED BY <1>1, <2>1 DEF SweepInv, CollectInv, WaitForOne, Completed, Raises
<1> QED BY <1>1, <1>2, <1>3 DEF SweepInv, SerialInv, SubmitInv

\* Tearing the pool down gives no future an outcome.
LEMMA TearDownKeepsInv ==
  ASSUME SweepInv, NEW e, TearDown(e), UNCHANGED <<yields, stop, broken, pending>>,
         batch' \subseteq batch
  PROVE  SweepInv'
<1>1. pc' = "returned" /\ CancelPending
  BY DEF TearDown
<1>2. future' \in [Symbol -> Places]
      /\ \A s \in Symbol : future'[s] \in {"finished", "failed"} => future'[s] = future[s]
  BY <1>1 DEF CancelPending, SweepInv, TypeOK, Places
<1>3. TypeOK'
  BY <1>1, <1>2 DEF SweepInv, TypeOK
<1>4. CollectInv'
  BY <1>1, <1>2 DEF SweepInv, CollectInv, Raises
<1> QED BY <1>1, <1>3, <1>4 DEF SweepInv, SerialInv, SubmitInv

LEMMA CollectKeepsInv ==
  ASSUME SweepInv, NEW s \in Symbol, Collect(s)
  PROVE  SweepInv'
<1>1. /\ pc = "collect" /\ s \in batch /\ batch' = batch \ {s}
      /\ UNCHANGED <<yields, stop, broken, pending>>
  BY DEF Collect, InputsUnchanged
<1>2. CASE future[s] = "failed"
  <2>1. TearDown("error")
    BY <1>2 DEF Collect
  <2> QED BY <1>1, <2>1, TearDownKeepsInv
<1>3. CASE future[s] # "failed"
  <2>1. UNCHANGED <<future, result, pc>>
    BY <1>3 DEF Collect
  <2>2. future[s] = "finished"
    BY <1>1, <1>3 DEF SweepInv, CollectInv, Completed
  <2>3. TypeOK'
    BY <1>1, <2>1 DEF SweepInv, TypeOK
  <2>4. CollectInv'
    BY <1>1, <2>1, <2>2 DEF SweepInv, CollectInv, Completed, Raises
  <2> QED BY <1>1, <2>1, <2>3, <2>4 DEF SweepInv, SerialInv, SubmitInv
<1> QED BY <1>2, <1>3

LEMMA PollKeepsInv == SweepInv /\ Poll => SweepInv'
<1> SUFFICES ASSUME SweepInv, Poll PROVE SweepInv'
  OBVIOUS
<1>1. pc = "collect" /\ UNCHANGED <<yields, stop, broken, pending, batch>>
  BY DEF Poll, InputsUnchanged
<1>2. CASE stop
  <2>1. TearDown("cancelled")
    BY <1>2 DEF Poll
  <2> QED BY <1>1, <2>1, TearDownKeepsInv
<1>3. CASE ~stop
  <2>1. future' = future /\ ((pc' = "wait" /\ result' = result) \/ pc' = "returned")
    BY <1>3 DEF Poll
  <2>2. TypeOK'
    BY <1>1, <2>1 DEF SweepInv, TypeOK
  <2>3. batch = {}
    BY DEF Poll
  <2>4. CollectInv'
    BY <1>1, <2>1, <2>3 DEF SweepInv, CollectInv, Completed, Raises
  <2> QED BY <2>1, <2>2, <2>4 DEF SweepInv, SerialInv, SubmitInv
<1> QED BY <1>2, <1>3

LEMMA TaskKeepsInv ==
  ASSUME SweepInv, NEW s \in Symbol, Task(s)
  PROVE  SweepInv'
<1>1. UNCHANGED <<yields, stop, broken, result, pc, rows, pending, batch>>
  BY DEF Task, InputsUnchanged
<1>2. PICK place \in {"called", "executing", "failed", "finished"} :
        /\ future' = [future EXCEPT ![s] = place]
        /\ future[s] \in {"pending", "called", "executing"}
        /\ place = "failed" => Raises(s)
        /\ place = "finished" => ~Raises(s)
  BY DEF Task, Becomes
<1>3. future' \in [Symbol -> Places] /\ future'[s] = place
      /\ \A t \in Symbol \ {s} : future'[t] = future[t]
  BY <1>2 DEF SweepInv, TypeOK, Places
<1>4. TypeOK'
  BY <1>1, <1>3 DEF SweepInv, TypeOK
<1>5. SerialInv'
  BY <1>1 DEF SweepInv, SerialInv
<1>6. SubmitInv'
  <2>1. \A t \in Symbol : future'[t] # "none" <=> future[t] # "none"
    BY <1>2, <1>3
  <2>2. {t \in Symbol : future'[t] # "none"} = {t \in Symbol : future[t] # "none"}
    BY <2>1
  <2> QED BY <1>1, <2>2 DEF SweepInv, SubmitInv
<1>7. CollectInv'
  <2>1. \A t \in Symbol : future[t] \in {"finished", "failed"} => future'[t] = future[t]
    BY <1>2, <1>3
  <2>2. \A t \in Symbol : Raises(t)' <=> Raises(t)
    BY <1>1 DEF Raises
  <2>3. pc' \in {"wait", "collect"} =>
          \A t \in Symbol : t \in pending' \cup batch' \/ future'[t] = "finished"
    BY <1>1, <2>1 DEF SweepInv, CollectInv
  <2>4. pc' = "collect" => batch' \subseteq Completed'
    BY <1>1, <2>1 DEF SweepInv, CollectInv, Completed
  <2>5. \A t \in Symbol : future'[t] = "finished" => ~Raises(t)'
    BY <1>2, <1>3, <2>2 DEF SweepInv, CollectInv
  <2>6. \A t \in Symbol : future'[t] = "failed" => (broken \/ Raises(t))'
    BY <1>1, <1>2, <1>3, <2>2 DEF SweepInv, CollectInv
  <2>7. pc' \in {"serial", "submit", "wait"} => batch' = {}
    BY <1>1 DEF SweepInv, CollectInv
  <2> QED BY <2>3, <2>4, <2>5, <2>6, <2>7 DEF CollectInv
<1> QED BY <1>4, <1>5, <1>6, <1>7 DEF SweepInv

LEMMA BreakKeepsInv == SweepInv /\ Break => SweepInv'
<1> SUFFICES ASSUME SweepInv, Break PROVE SweepInv'
  OBVIOUS
<1>1. /\ UNCHANGED <<yields, stop, result, pc, rows, pending, batch>> /\ broken' = TRUE
      /\ future' = [s \in Symbol |-> IF future[s] \in {"pending", "called", "executing"}
                                     THEN "failed" ELSE future[s]]
  BY DEF Break, InputsUnchanged
<1>2. \A s \in Symbol : future'[s] = IF future[s] \in {"pending", "called", "executing"}
                                     THEN "failed" ELSE future[s]
  BY <1>1
<1>3. TypeOK'
  BY <1>1 DEF SweepInv, TypeOK, Places
<1>4. SerialInv'
  BY <1>1 DEF SweepInv, SerialInv
<1>5. SubmitInv'
  <2>1. {s \in Symbol : future'[s] # "none"} = {s \in Symbol : future[s] # "none"}
    BY <1>2
  <2> QED BY <1>1, <2>1 DEF SweepInv, SubmitInv
<1>6. CollectInv'
  <2>1. \A s \in Symbol : Raises(s)' <=> Raises(s)
    BY <1>1 DEF Raises
  <2>2. \A s \in Symbol : future'[s] = "finished" <=> future[s] = "finished"
    BY <1>2
  <2>3. \A s \in Completed : s \in Completed'
    BY <1>2 DEF Completed
  <2> QED BY <1>1, <2>1, <2>2, <2>3 DEF SweepInv, CollectInv
<1> QED BY <1>3, <1>4, <1>5, <1>6 DEF SweepInv

LEMMA SweepInvStep == SweepInv /\ [Next]_vars => SweepInv'
<1> SUFFICES ASSUME SweepInv, [Next]_vars PROVE SweepInv'
  OBVIOUS
<1>1. CASE RequestStop \/ UNCHANGED vars
  <2>1. /\ UNCHANGED <<yields, broken, result, pc, rows, future, pending, batch>>
        /\ stop' \in BOOLEAN
    BY <1>1 DEF RequestStop, InputsUnchanged, parallel, vars, SweepInv, TypeOK
  <2> QED BY <2>1 DEF SweepInv, TypeOK, SerialInv, SubmitInv, CollectInv, Completed, Raises
<1>2. CASE Caller
  BY <1>2, SerialKeepsInv, SubmitKeepsInv, WaitKeepsInv, PollKeepsInv, CollectKeepsInv DEF Caller
<1>3. CASE Tasks
  BY <1>3, TaskKeepsInv DEF Tasks
<1>4. CASE Break
  BY <1>4, BreakKeepsInv
<1> QED BY <1>1, <1>2, <1>3, <1>4 DEF Next
-----------------------------------------------------------------------------
\* Each step of the contract, from the step of the sweep that takes it.
LEMMA ErrorHasCause ==
  ASSUME SweepInv, pc # "returned", result' = Contract!Raised("error"),
         UNCHANGED <<yields, stop, broken>>,
         broken \/ \E p \in Symbol \X Config : yields[p] = "raises"
  PROVE  Contract!CNext
BY DEF SweepInv, TypeOK, Contract!CNext, Contract!Failed, Symbol, Config

LEMMA CancellationHasCause ==
  ASSUME SweepInv, pc # "returned", result' = Contract!Raised("cancelled"),
         UNCHANGED <<yields, stop, broken>>, stop
  PROVE  Contract!CNext
BY DEF SweepInv, TypeOK, Contract!CNext, Contract!Cancelled

LEMMA TableIsWhole ==
  ASSUME SweepInv, pc # "returned", UNCHANGED <<yields, stop, broken>>,
         result' = Contract!Success(Contract!Table),
         \A n \in 1..NPairs : yields[Contract!Pair(n)] # "raises"
  PROVE  Contract!CNext
<1>1. \A p \in Symbol \X Config : yields[p] # "raises"
  BY PairsAreNumbered
<1> QED BY <1>1 DEF SweepInv, TypeOK, Contract!CNext, Contract!Deliver, Symbol, Config

LEMMA SerialImplements ==
  ASSUME SweepInv, Serial \/ SerialReturns
  PROVE  Contract!CNext \/ UNCHANGED <<yields, stop, broken, result>>
<1>1. pc = "serial" /\ UNCHANGED <<yields, stop, broken>>
  BY DEF Serial, SerialReturns, InputsUnchanged
<1>2. PICK n \in 0..NPairs :
        /\ rows = [k \in 1..n |-> <<Contract!Pair(k), yields[Contract!Pair(k)]>>]
        /\ \A k \in 1..n : yields[Contract!Pair(k)] # "raises"
  BY <1>1 DEF SweepInv, SerialInv
<1>3. n \in Nat /\ Len(rows) = n
  BY <1>2, PairsCount
<1>4. CASE Serial
  <2> DEFINE pair == Contract!Pair(Len(rows) + 1)
  <2>1. Len(rows) < NPairs
    BY <1>4 DEF Serial
  <2>2. pair \in Symbol \X Config
    <3>1. Len(rows) + 1 \in 1..NPairs
      BY <1>3, <2>1, PairsCount
    <3> QED BY <3>1, NumbersArePairs
  <2>3. CASE stop
    BY <1>1, <1>4, <2>3, CancellationHasCause DEF Serial
  <2>4. CASE ~stop /\ yields[pair] = "raises"
    <3>1. result' = Contract!Raised("error")
      BY <1>4, <2>4 DEF Serial
    <3> QED BY <1>1, <2>2, <2>4, <3>1, ErrorHasCause
  <2>5. CASE ~stop /\ yields[pair] # "raises"
    BY <1>1, <1>4, <2>5 DEF Serial
  <2> QED BY <2>3, <2>4, <2>5
<1>5. CASE SerialReturns
  <2>1. n = NPairs
    BY <1>3, <1>5 DEF SerialReturns
  <2>2. rows = Contract!Table
    BY <1>2, <2>1 DEF Contract!Table, NPairs
  <2>3. result' = Contract!Success(Contract!Table)
    BY <1>5, <2>2 DEF SerialReturns
  <2> QED BY <1>1, <1>2, <2>1, <2>3, TableIsWhole
<1> QED BY <1>4, <1>5

LEMMA SubmitImplements ==
  ASSUME SweepInv, Submit
  PROVE  Contract!CNext \/ UNCHANGED <<yields, stop, broken, result>>
<1>1. pc = "submit" /\ UNCHANGED <<yields, stop, broken>>
  BY DEF Submit, InputsUnchanged
<1>2. CASE broken
  BY <1>1, <1>2, ErrorHasCause DEF Submit, TearDown
<1>3. CASE ~broken
  BY <1>1, <1>3 DEF Submit
<1> QED BY <1>2, <1>3

LEMMA CollectImplements ==
  ASSUME SweepInv, NEW s \in Symbol, Collect(s)
  PROVE  Contract!CNext \/ UNCHANGED <<yields, stop, broken, result>>
<1>1. pc = "collect" /\ UNCHANGED <<yields, stop, broken>>
  BY DEF Collect, InputsUnchanged
<1>2. CASE future[s] = "failed"
  <2>1. broken \/ \E p \in Symbol \X Config : yields[p] = "raises"
    <3>1. broken \/ Raises(s)
      BY <1>2 DEF SweepInv, CollectInv
    <3> QED BY <3>1 DEF Raises, Config
  <2> QED BY <1>1, <1>2, <2>1, ErrorHasCause DEF Collect, TearDown
<1>3. CASE future[s] # "failed"
  BY <1>1, <1>3 DEF Collect
<1> QED BY <1>2, <1>3

\* The rows put together by symbol are the rows of the nested loops.
LEMMA AssembledIsTable == Assembled = Contract!Table
<1>1. \A n \in 1..NPairs :
        <<Symbols[((n - 1) \div Len(Configs)) + 1], Contract!Pair(n)[2]>> = Contract!Pair(n)
  BY DEF Contract!Pair
<1> QED BY <1>1 DEF Assembled, InSubmissionOrder, Contract!Table, NPairs

LEMMA PollImplements ==
  ASSUME SweepInv, Poll
  PROVE  Contract!CNext \/ UNCHANGED <<yields, stop, broken, result>>
<1>1. pc = "collect" /\ batch = {} /\ UNCHANGED <<yields, stop, broken>>
  BY DEF Poll, InputsUnchanged
<1>2. CASE stop
  BY <1>1, <1>2, CancellationHasCause DEF Poll, TearDown
<1>3. CASE ~stop /\ MorePending
  BY <1>1, <1>3 DEF Poll
<1>4. CASE ~stop /\ ~MorePending
  <2>1. \A s \in Symbol : ~Raises(s)
    BY <1>1, <1>4 DEF SweepInv, CollectInv, MorePending
  <2>2. \A n \in 1..NPairs : yields[Contract!Pair(n)] # "raises"
    <3> SUFFICES ASSUME NEW n \in 1..NPairs PROVE yields[Contract!Pair(n)] # "raises"
      OBVIOUS
    <3>1. PICK s \in Symbol, c \in Config : Contract!Pair(n) = <<s, c>>
      BY NumbersArePairs
    <3> QED BY <2>1, <3>1 DEF Raises, Config
  <2>3. result' = Contract!Success(Contract!Table)
    BY <1>4, AssembledIsTable DEF Poll
  <2> QED BY <1>1, <2>2, <2>3, TableIsWhole
<1> QED BY <1>2, <1>3, <1>4

LEMMA StepImplements ==
  ASSUME SweepInv, [Next]_vars
  PROVE  [Contract!CNext]_<<yields, stop, broken, result>>
<1>1. CASE Caller
  BY <1>1, SerialImplements, SubmitImplements, CollectImplements, PollImplements
    DEF Caller, Wait, InputsUnchanged
<1>2. CASE Tasks
  BY <1>2 DEF Tasks, Task, InputsUnchanged
<1>3. CASE Break
  BY <1>3 DEF Break, InputsUnchanged, Contract!CNext, Contract!PoolBreaks
<1>4. CASE RequestStop
  BY <1>4 DEF RequestStop, InputsUnchanged, Contract!CNext, Contract!RequestStop
<1>5. CASE UNCHANGED vars
  BY <1>5 DEF vars
<1> QED BY <1>1, <1>2, <1>3, <1>4, <1>5 DEF Next

\* Whatever the number of symbols, configurations and workers, and in whatever
\* order the tasks end, fail or are killed: the caller gets the table of the
\* nested loops or an exception that has its cause (backtest/sweep.py:186-323).
THEOREM SweepImplementsContract == Spec => ImplementsContract
<1>1. Init => Contract!CInit
  BY DEF Init, Contract!CInit
<1>2. SweepInv /\ [Next]_vars => [Contract!CNext]_<<yields, stop, broken, result>>
  BY StepImplements
<1> QED BY <1>1, <1>2, SweepInvInit, SweepInvStep, PTL DEF Spec, ImplementsContract, Contract!CSpec
=============================================================================
