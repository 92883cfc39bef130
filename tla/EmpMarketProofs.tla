--------------------------- MODULE EmpMarketProofs ---------------------------
(***************************************************************************)
(* The books of the market are in order and deals are kept, for any        *)
(* countries, units, prices, lots and length of the game.                  *)
(***************************************************************************)
EXTENDS EmpMarket, EmpLemmas

-----------------------------------------------------------------------------
(* What bids cost. *)

CommTable  == Seq(Lot \cup {Free})
TradeTable == Seq(Trade \cup {Free})

\* What c owes for its bids of one kind, and for a single one.
LotsOwed(lots, c)   == SumFunction([n \in Bids(lots, c) |-> Cost(lots[n])])
UnitsOwed(lots, c)  == SumFunction([n \in Bids(lots, c) |-> lots[n].price])
LotOwed(lots, c, n)  == IF n \in Bids(lots, c) THEN Cost(lots[n]) ELSE 0
UnitOwed(lots, c, n) == IF n \in Bids(lots, c) THEN lots[n].price ELSE 0

LEMMA Constants ==
  /\ Deities \subseteq Countries /\ Sellers \subseteq Countries /\ Bidders \subseteq Countries
  /\ Struck \subseteq Countries
  /\ None \notin Countries /\ IsFiniteSet(Countries) /\ Sellers # {}
  /\ BuyTax \in Nat /\ TradeTax \in Nat /\ TradeTax <= 100 /\ ItemMax \in Nat
  /\ Money0 \in Nat /\ Items0 \in 0..ItemMax /\ MaxLots \in Nat /\ MaxTrades \in Nat
  /\ \A p \in Prices : p \in Nat
  /\ \A p \in Offers : p \in Prices
  /\ \A a \in Amounts : a \in Nat \ {0}
BY MarketAssumption

\* A lot is offered by a country, unless it is free.
LEMMA FreeOrNot ==
  /\ Free.own = None
  /\ \A lot \in Lot : lot.own \in Countries /\ lot.own # None
  /\ \A t \in Trade : t.own \in Countries /\ t.own # None
BY Constants DEF Free, Lot, Trade

\* What goods cost is a natural number.
LEMMA CostIsNat ==
  ASSUME NEW lot \in Lot
  PROVE  Cost(lot) \in Nat /\ Gain(lot) \in Nat
<1>1. lot.price \in Nat /\ lot.amount \in Nat /\ BuyTax \in Nat
  BY Constants DEF Lot
<1>2. \A a, b \in Nat : a * b \in Nat /\ a \div 100 \in Nat
  OBVIOUS
<1>3. lot.price * lot.amount \in Nat /\ (lot.price * lot.amount) * BuyTax \in Nat
  BY <1>1, <1>2
<1> QED
  BY <1>2, <1>3 DEF Cost, Gain

\* A table is finite, and so are the bids in it.
LEMMA BidsAreFinite ==
  ASSUME NEW B, NEW lots \in Seq(B), NEW c
  PROVE  /\ IsFiniteSet(DOMAIN lots) /\ DOMAIN lots = 1..Len(lots) /\ Len(lots) \in Nat
         /\ IsFiniteSet(Bids(lots, c))
<1>1. DOMAIN lots = 1..Len(lots) /\ Len(lots) \in Nat
  BY LenProperties
<1>2. IsFiniteSet(1..Len(lots))
  BY <1>1, FS_Interval
<1>3. Bids(lots, c) \subseteq DOMAIN lots
  BY DEF Bids
<1> QED
  BY <1>1, <1>2, <1>3, FS_Subset

\* A bid is for something.
LEMMA BidIsForLot ==
  /\ \A lots \in CommTable, c \in Countries : \A n \in Bids(lots, c) : lots[n] \in Lot
  /\ \A lots \in TradeTable, c \in Countries : \A n \in Bids(lots, c) : lots[n] \in Trade
<1>1. \A B : \A lots \in Seq(B) : \A n \in DOMAIN lots : lots[n] \in B
  BY ElementOfSeq, LenProperties
<1> QED
  BY <1>1, FreeOrNot DEF CommTable, TradeTable, Bids

\* Where one lot changes, what is owed changes by what is owed for it.
LEMMA LotsOwedChange ==
  ASSUME NEW lots \in CommTable, NEW els \in CommTable, NEW c \in Countries, NEW n,
         DOMAIN lots \ {n} = DOMAIN els \ {n}, \A m \in DOMAIN lots \ {n} : lots[m] = els[m]
  PROVE  /\ LotsOwed(lots, c) \in Nat /\ LotsOwed(els, c) \in Nat
         /\ LotOwed(lots, c, n) \in Nat /\ LotOwed(els, c, n) \in Nat
         /\ LotOwed(lots, c, n) <= LotsOwed(lots, c)
         /\ LotsOwed(els, c) = LotsOwed(lots, c) - LotOwed(lots, c, n) + LotOwed(els, c, n)
<1> DEFINE f == [m \in Bids(lots, c) |-> Cost(lots[m])]
           g == [m \in Bids(els, c) |-> Cost(els[m])]
<1>1. IsFiniteSet(Bids(lots, c)) /\ IsFiniteSet(Bids(els, c))
  BY BidsAreFinite DEF CommTable
<1>2. /\ \A m \in Bids(lots, c) : f[m] \in Nat
      /\ \A m \in Bids(els, c) : g[m] \in Nat
  BY BidIsForLot, CostIsNat
<1>3. Bids(lots, c) \ {n} = Bids(els, c) \ {n} /\ \A m \in Bids(lots, c) \ {n} : f[m] = g[m]
  BY DEF Bids
<1>4. DOMAIN f = Bids(lots, c) /\ DOMAIN g = Bids(els, c)
  OBVIOUS
<1>5. /\ LotsOwed(lots, c) = SumFunction(f) /\ LotsOwed(els, c) = SumFunction(g)
      /\ LotOwed(lots, c, n) = IF n \in Bids(lots, c) THEN f[n] ELSE 0
      /\ LotOwed(els, c, n) = IF n \in Bids(els, c) THEN g[n] ELSE 0
  BY DEF LotsOwed, LotOwed
<1> HIDE DEF f, g
<1>6. SumFunction(f) \in Nat /\ SumFunction(g) \in Nat /\ \A m \in Bids(lots, c) : f[m] <= SumFunction(f)
  BY <1>1, <1>2, <1>4, SumIsNat
<1>7. SumFunction(g) = SumFunction(f) - (IF n \in Bids(lots, c) THEN f[n] ELSE 0)
                                      + (IF n \in Bids(els, c) THEN g[n] ELSE 0)
  <2>1. /\ \A m \in DOMAIN f : f[m] \in Int
        /\ \A m \in DOMAIN g : g[m] \in Int
    BY <1>2, <1>4
  <2>2. DOMAIN f \ {n} = DOMAIN g \ {n} /\ \A m \in DOMAIN f \ {n} : f[m] = g[m]
    BY <1>3, <1>4
  <2>3. SumFunction(g) = SumFunction(f) - (IF n \in DOMAIN f THEN f[n] ELSE 0)
                                        + (IF n \in DOMAIN g THEN g[n] ELSE 0)
    BY <1>1, <1>4, <2>1, <2>2, SumDiffersAt
  <2> QED
    BY <1>4, <2>3
<1> QED
  BY <1>2, <1>5, <1>6, <1>7

\* So it is with units.
LEMMA UnitsOwedChange ==
  ASSUME NEW lots \in TradeTable, NEW els \in TradeTable, NEW c \in Countries, NEW n,
         DOMAIN lots \ {n} = DOMAIN els \ {n}, \A m \in DOMAIN lots \ {n} : lots[m] = els[m]
  PROVE  /\ UnitsOwed(lots, c) \in Nat /\ UnitsOwed(els, c) \in Nat
         /\ UnitOwed(lots, c, n) \in Nat /\ UnitOwed(els, c, n) \in Nat
         /\ UnitOwed(lots, c, n) <= UnitsOwed(lots, c)
         /\ UnitsOwed(els, c) = UnitsOwed(lots, c) - UnitOwed(lots, c, n) + UnitOwed(els, c, n)
<1> DEFINE f == [m \in Bids(lots, c) |-> lots[m].price]
           g == [m \in Bids(els, c) |-> els[m].price]
<1>1. IsFiniteSet(Bids(lots, c)) /\ IsFiniteSet(Bids(els, c))
  BY BidsAreFinite DEF TradeTable
<1>2. /\ \A m \in Bids(lots, c) : f[m] \in Nat
      /\ \A m \in Bids(els, c) : g[m] \in Nat
  BY BidIsForLot, Constants DEF Trade
<1>3. Bids(lots, c) \ {n} = Bids(els, c) \ {n} /\ \A m \in Bids(lots, c) \ {n} : f[m] = g[m]
  BY DEF Bids
<1>4. DOMAIN f = Bids(lots, c) /\ DOMAIN g = Bids(els, c)
  OBVIOUS
<1>5. /\ UnitsOwed(lots, c) = SumFunction(f) /\ UnitsOwed(els, c) = SumFunction(g)
      /\ UnitOwed(lots, c, n) = IF n \in Bids(lots, c) THEN f[n] ELSE 0
      /\ UnitOwed(els, c, n) = IF n \in Bids(els, c) THEN g[n] ELSE 0
  BY DEF UnitsOwed, UnitOwed
<1> HIDE DEF f, g
<1>6. SumFunction(f) \in Nat /\ SumFunction(g) \in Nat /\ \A m \in Bids(lots, c) : f[m] <= SumFunction(f)
  BY <1>1, <1>2, <1>4, SumIsNat
<1>7. SumFunction(g) = SumFunction(f) - (IF n \in Bids(lots, c) THEN f[n] ELSE 0)
                                      + (IF n \in Bids(els, c) THEN g[n] ELSE 0)
  <2>1. /\ \A m \in DOMAIN f : f[m] \in Int
        /\ \A m \in DOMAIN g : g[m] \in Int
    BY <1>2, <1>4
  <2>2. DOMAIN f \ {n} = DOMAIN g \ {n} /\ \A m \in DOMAIN f \ {n} : f[m] = g[m]
    BY <1>3, <1>4
  <2>3. SumFunction(g) = SumFunction(f) - (IF n \in DOMAIN f THEN f[n] ELSE 0)
                                        + (IF n \in DOMAIN g THEN g[n] ELSE 0)
    BY <1>1, <1>4, <2>1, <2>2, SumDiffersAt
  <2> QED
    BY <1>4, <2>3
<1> QED
  BY <1>2, <1>5, <1>6, <1>7

\* What is owed in all, of both kinds.
LEMMA OwedInAll ==
  ASSUME NEW d \in Tables, NEW c \in Countries
  PROVE  /\ Owed(d, c) = LotsOwed(d.comm, c) + UnitsOwed(d.trade, c)
         /\ LotsOwed(d.comm, c) \in Nat /\ UnitsOwed(d.trade, c) \in Nat /\ Owed(d, c) \in Nat
<1>1. d.comm \in CommTable /\ d.trade \in TradeTable
  BY DEF Tables, CommTable, TradeTable
<1>2. LotsOwed(d.comm, c) \in Nat
  BY <1>1, LotsOwedChange
<1>3. UnitsOwed(d.trade, c) \in Nat
  BY <1>1, UnitsOwedChange
<1> QED
  BY <1>2, <1>3 DEF Owed, LotsOwed, UnitsOwed

-----------------------------------------------------------------------------
(* Settlement. *)

\* What c could spend if all its bids won.
Spare(d, c) == d.money[c] - Owed(d, c)

\* Nobody is left with less to spend.
NoLess(d, e) == \A c \in Countries : Spare(d, c) <= Spare(e, c)

\* The tables have the same lots, taken or free.
SameSize(d, e) == DOMAIN e.comm = DOMAIN d.comm /\ DOMAIN e.trade = DOMAIN d.trade
                  /\ Len(e.comm) = Len(d.comm) /\ Len(e.trade) = Len(d.trade)

\* Writing to a lot of a table, or adding one.
LEMMA PutInTable ==
  ASSUME NEW B, NEW lots \in Seq(B), NEW n \in 1..Len(lots) + 1, NEW b \in B
  PROVE  LET els == PutAt(lots, n, b) IN
         /\ els \in Seq(B) /\ n \in DOMAIN els /\ els[n] = b
         /\ Len(els) = IF n > Len(lots) THEN Len(lots) + 1 ELSE Len(lots)
         /\ DOMAIN lots = 1..Len(lots) /\ DOMAIN els = 1..Len(els) /\ Len(lots) \in Nat
         /\ DOMAIN lots \ {n} = DOMAIN els \ {n}
         /\ \A m \in DOMAIN lots \ {n} : lots[m] = els[m]
         /\ n \in DOMAIN lots => els = [lots EXCEPT ![n] = b] /\ lots[n] \in B
<1> DEFINE els == PutAt(lots, n, b)
<1>1. DOMAIN lots = 1..Len(lots) /\ Len(lots) \in Nat
  BY LenProperties
<1>2. CASE n > Len(lots)
  <2>1. n = Len(lots) + 1 /\ n \notin DOMAIN lots
    BY <1>1, <1>2
  <2>2. els = Append(lots, b)
    BY <1>2 DEF PutAt
  <2>3. els \in Seq(B) /\ Len(els) = Len(lots) + 1 /\ els[n] = b /\ \A m \in 1..Len(lots) : els[m] = lots[m]
    BY <2>1, <2>2, AppendProperties
  <2>4. DOMAIN els = 1..Len(lots) + 1
    BY <2>3, LenProperties
  <2> HIDE DEF els
  <2> QED
    BY <1>1, <1>2, <2>1, <2>3, <2>4 DEF els
<1>3. CASE ~(n > Len(lots))
  <2>1. n \in 1..Len(lots)
    BY <1>1, <1>3
  <2>2. els = [lots EXCEPT ![n] = b]
    BY <1>3 DEF PutAt
  <2>3. els \in Seq(B) /\ Len(els) = Len(lots)
    BY <2>1, <2>2, ExceptSeq
  <2>4. DOMAIN els = DOMAIN lots /\ els[n] = b /\ \A m \in DOMAIN lots \ {n} : els[m] = lots[m]
    BY <1>1, <2>1, <2>2
  <2>5. lots[n] \in B
    BY <2>1, ElementOfSeq
  <2> HIDE DEF els
  <2> QED
    BY <1>1, <1>3, <2>1, <2>2, <2>3, <2>4, <2>5 DEF els
<1> QED
  BY <1>2, <1>3

PutLot(d, n, lot) == [d EXCEPT !.comm = PutAt(@, n, lot)]
PutTrade(d, n, t) == [d EXCEPT !.trade = PutAt(@, n, t)]

\* A lot is written: what its bidder owes for it changes, and nothing else.
LEMMA LotIsPut ==
  ASSUME NEW d \in Tables, NEW n \in 1..Len(d.comm) + 1, NEW lot \in Lot \cup {Free}
  PROVE  LET e == PutLot(d, n, lot) IN
         /\ e \in Tables /\ e.comm = PutAt(d.comm, n, lot)
         /\ n \in DOMAIN e.comm /\ e.comm[n] = lot
         /\ Len(e.comm) = (IF n > Len(d.comm) THEN Len(d.comm) + 1 ELSE Len(d.comm))
         /\ DOMAIN d.comm \ {n} = DOMAIN e.comm \ {n}
         /\ \A m \in DOMAIN d.comm \ {n} : d.comm[m] = e.comm[m]
         /\ e.money = d.money /\ e.trade = d.trade /\ e.sect = d.sect /\ e.unit = d.unit
         /\ \A c \in Countries :
               /\ LotOwed(d.comm, c, n) \in Nat /\ LotOwed(e.comm, c, n) \in Nat
               /\ LotOwed(d.comm, c, n) <= Owed(d, c)
               /\ Owed(e, c) = Owed(d, c) - LotOwed(d.comm, c, n) + LotOwed(e.comm, c, n)
<1> DEFINE e == PutLot(d, n, lot)
<1>1. d.comm \in Seq(Lot \cup {Free})
  BY DEF Tables
<1> DEFINE els == PutAt(d.comm, n, lot)
<1>2. /\ els \in Seq(Lot \cup {Free}) /\ DOMAIN d.comm \ {n} = DOMAIN els \ {n}
      /\ \A m \in DOMAIN d.comm \ {n} : d.comm[m] = els[m]
      /\ n \in DOMAIN els /\ els[n] = lot /\ Len(els) = IF n > Len(d.comm) THEN Len(d.comm) + 1 ELSE Len(d.comm)
  <2> DEFINE B == Lot \cup {Free}  lots == d.comm
  <2>1. lots \in Seq(B) /\ n \in 1..Len(lots) + 1 /\ lot \in B
    BY <1>1
  <2> HIDE DEF B, lots
  <2>2. LET z == PutAt(lots, n, lot) IN
        /\ z \in Seq(B) /\ DOMAIN lots \ {n} = DOMAIN z \ {n} /\ \A m \in DOMAIN lots \ {n} : lots[m] = z[m]
        /\ n \in DOMAIN z /\ z[n] = lot /\ Len(z) = IF n > Len(lots) THEN Len(lots) + 1 ELSE Len(lots)
    BY <2>1, PutInTable
  <2> QED
    BY <2>2 DEF B, lots
<1> HIDE DEF els
<1>3. e = [d EXCEPT !.comm = els]
  BY SMTT(40) DEF els, Tables, PutLot
<1>4. e \in Tables /\ e.comm = els /\ e.trade = d.trade /\ e.money = d.money
      /\ e.sect = d.sect /\ e.unit = d.unit
  BY <1>2, <1>3, ZenonT(60) DEF Tables
<1> HIDE DEF e
<1>5. ASSUME NEW c \in Countries
      PROVE  /\ LotOwed(d.comm, c, n) \in Nat /\ LotOwed(e.comm, c, n) \in Nat
             /\ LotOwed(d.comm, c, n) <= Owed(d, c)
             /\ Owed(e, c) = Owed(d, c) - LotOwed(d.comm, c, n) + LotOwed(e.comm, c, n)
  <2>1. /\ LotsOwed(els, c) = LotsOwed(d.comm, c) - LotOwed(d.comm, c, n) + LotOwed(els, c, n)
        /\ LotOwed(d.comm, c, n) \in Nat /\ LotOwed(els, c, n) \in Nat
        /\ LotOwed(d.comm, c, n) <= LotsOwed(d.comm, c)
    BY <1>1, <1>2, LotsOwedChange, SMTT(40) DEF CommTable
  <2>2. /\ Owed(d, c) = LotsOwed(d.comm, c) + UnitsOwed(d.trade, c)
        /\ Owed(e, c) = LotsOwed(els, c) + UnitsOwed(d.trade, c)
        /\ LotsOwed(d.comm, c) \in Nat /\ UnitsOwed(d.trade, c) \in Nat
    BY <1>4, OwedInAll
  <2> QED
    BY <1>4, <2>1, <2>2
<1> QED
  BY <1>2, <1>4, <1>5 DEF e, els

\* So it is with units on the block.
LEMMA TradeIsPut ==
  ASSUME NEW d \in Tables, NEW n \in 1..Len(d.trade) + 1, NEW t \in Trade \cup {Free}
  PROVE  LET e == PutTrade(d, n, t) IN
         /\ e \in Tables /\ e.trade = PutAt(d.trade, n, t)
         /\ n \in DOMAIN e.trade /\ e.trade[n] = t
         /\ Len(e.trade) = (IF n > Len(d.trade) THEN Len(d.trade) + 1 ELSE Len(d.trade))
         /\ DOMAIN d.trade \ {n} = DOMAIN e.trade \ {n}
         /\ \A m \in DOMAIN d.trade \ {n} : d.trade[m] = e.trade[m]
         /\ e.money = d.money /\ e.comm = d.comm /\ e.sect = d.sect /\ e.unit = d.unit
         /\ \A c \in Countries :
               /\ UnitOwed(d.trade, c, n) \in Nat /\ UnitOwed(e.trade, c, n) \in Nat
               /\ UnitOwed(d.trade, c, n) <= Owed(d, c)
               /\ Owed(e, c) = Owed(d, c) - UnitOwed(d.trade, c, n) + UnitOwed(e.trade, c, n)
<1> DEFINE e == PutTrade(d, n, t)
<1>1. d.trade \in Seq(Trade \cup {Free})
  BY DEF Tables
<1> DEFINE els == PutAt(d.trade, n, t)
<1>2. /\ els \in Seq(Trade \cup {Free}) /\ DOMAIN d.trade \ {n} = DOMAIN els \ {n}
      /\ \A m \in DOMAIN d.trade \ {n} : d.trade[m] = els[m]
      /\ n \in DOMAIN els /\ els[n] = t /\ Len(els) = IF n > Len(d.trade) THEN Len(d.trade) + 1 ELSE Len(d.trade)
  <2> DEFINE B == Trade \cup {Free}  lots == d.trade
  <2>1. lots \in Seq(B) /\ n \in 1..Len(lots) + 1 /\ t \in B
    BY <1>1
  <2> HIDE DEF B, lots
  <2>2. LET z == PutAt(lots, n, t) IN
        /\ z \in Seq(B) /\ DOMAIN lots \ {n} = DOMAIN z \ {n} /\ \A m \in DOMAIN lots \ {n} : lots[m] = z[m]
        /\ n \in DOMAIN z /\ z[n] = t /\ Len(z) = IF n > Len(lots) THEN Len(lots) + 1 ELSE Len(lots)
    BY <2>1, PutInTable
  <2> QED
    BY <2>2 DEF B, lots
<1> HIDE DEF els
<1>3. e = [d EXCEPT !.trade = els]
  BY SMTT(40) DEF els, Tables, PutTrade
<1>4. e \in Tables /\ e.trade = els /\ e.comm = d.comm /\ e.money = d.money
      /\ e.sect = d.sect /\ e.unit = d.unit
  BY <1>2, <1>3, ZenonT(60) DEF Tables
<1> HIDE DEF e
<1>5. ASSUME NEW c \in Countries
      PROVE  /\ UnitOwed(d.trade, c, n) \in Nat /\ UnitOwed(e.trade, c, n) \in Nat
             /\ UnitOwed(d.trade, c, n) <= Owed(d, c)
             /\ Owed(e, c) = Owed(d, c) - UnitOwed(d.trade, c, n) + UnitOwed(e.trade, c, n)
  <2>1. /\ UnitsOwed(els, c) = UnitsOwed(d.trade, c) - UnitOwed(d.trade, c, n) + UnitOwed(els, c, n)
        /\ UnitOwed(d.trade, c, n) \in Nat /\ UnitOwed(els, c, n) \in Nat
        /\ UnitOwed(d.trade, c, n) <= UnitsOwed(d.trade, c)
    BY <1>1, <1>2, UnitsOwedChange, SMTT(40) DEF TradeTable
  <2>2. /\ Owed(d, c) = LotsOwed(d.comm, c) + UnitsOwed(d.trade, c)
        /\ Owed(e, c) = LotsOwed(d.comm, c) + UnitsOwed(els, c)
        /\ LotsOwed(d.comm, c) \in Nat /\ UnitsOwed(d.trade, c) \in Nat
    BY <1>4, OwedInAll
  <2> QED
    BY <1>4, <2>1, <2>2
<1> QED
  BY <1>2, <1>4, <1>5 DEF e, els

\* Nobody owes anything for a free lot.
LEMMA NothingForFree ==
  ASSUME NEW lots, NEW n \in DOMAIN lots, NEW c, lots[n].own \in {None, c}
  PROVE  LotOwed(lots, c, n) = 0 /\ UnitOwed(lots, c, n) = 0
BY DEF LotOwed, UnitOwed, Bids

\* A lot is taken from its table: what was bid for it need not be paid.
LEMMA LotIsFreed ==
  ASSUME NEW d \in Tables, NEW n \in DOMAIN d.comm
  PROVE  /\ FreeLot(d, n) \in Tables /\ SameSize(d, FreeLot(d, n))
         /\ FreeLot(d, n).money = d.money /\ FreeLot(d, n).trade = d.trade
         /\ FreeLot(d, n).sect = d.sect /\ FreeLot(d, n).unit = d.unit
         /\ FreeLot(d, n).comm[n] = Free
         /\ \A m \in DOMAIN d.comm \ {n} : FreeLot(d, n).comm[m] = d.comm[m]
         /\ \A c \in Countries : Owed(FreeLot(d, n), c) = Owed(d, c) - LotOwed(d.comm, c, n)
         /\ \A c \in Countries : LotOwed(d.comm, c, n) \in Nat /\ LotOwed(d.comm, c, n) <= Owed(d, c)
<1> DEFINE els == PutAt(d.comm, n, Free)
           e == PutLot(d, n, Free)
<1>1. d.comm \in Seq(Lot \cup {Free})
  BY DEF Tables
<1>2. n \in 1..Len(d.comm) + 1 /\ ~(n > Len(d.comm))
  BY <1>1, LenProperties
<1>3. /\ els[n] = Free /\ Len(els) = Len(d.comm) /\ DOMAIN els = DOMAIN d.comm /\ n \in DOMAIN els
      /\ \A m \in DOMAIN d.comm \ {n} : d.comm[m] = els[m]
  <2> DEFINE B == Lot \cup {Free}  lots == d.comm
  <2>1. lots \in Seq(B) /\ n \in 1..Len(lots) + 1 /\ Free \in B /\ ~(n > Len(lots))
    BY <1>1, <1>2
  <2> HIDE DEF B, lots
  <2>2. LET z == PutAt(lots, n, Free) IN
        /\ z[n] = Free /\ Len(z) = Len(lots) /\ DOMAIN lots = 1..Len(lots) /\ DOMAIN z = 1..Len(z)
        /\ n \in DOMAIN z /\ \A m \in DOMAIN lots \ {n} : lots[m] = z[m]
    BY <2>1, PutInTable
  <2> QED
    BY <2>2 DEF lots
<1>4. els = [d.comm EXCEPT ![n] = Free]
  BY <1>2 DEF PutAt
<1>5. FreeLot(d, n) = e
  BY <1>4 DEF FreeLot, Tables, PutLot
<1>6. /\ e \in Tables /\ e.comm = els
      /\ e.money = d.money /\ e.trade = d.trade /\ e.sect = d.sect /\ e.unit = d.unit
      /\ \A c \in Countries :
            /\ LotOwed(d.comm, c, n) \in Nat /\ LotOwed(d.comm, c, n) <= Owed(d, c)
            /\ Owed(e, c) = Owed(d, c) - LotOwed(d.comm, c, n) + LotOwed(els, c, n)
  <2>1. Free \in Lot \cup {Free}
    OBVIOUS
  <2> HIDE DEF els
  <2>2. /\ e \in Tables /\ e.comm = PutAt(d.comm, n, Free)
        /\ e.money = d.money /\ e.trade = d.trade /\ e.sect = d.sect /\ e.unit = d.unit
        /\ \A c \in Countries :
              /\ LotOwed(d.comm, c, n) \in Nat /\ LotOwed(d.comm, c, n) <= Owed(d, c)
              /\ Owed(e, c) = Owed(d, c) - LotOwed(d.comm, c, n) + LotOwed(e.comm, c, n)
    BY <1>2, <2>1, LotIsPut
  <2> HIDE DEF e
  <2>3. e.comm = els
    BY <2>2 DEF els
  <2> QED
    BY <2>2, <2>3
<1> HIDE DEF e, els
<1>7. \A c \in Countries : LotOwed(els, c, n) = 0
  BY <1>3, FreeOrNot, NothingForFree
<1>8. \A c \in Countries : Owed(d, c) \in Nat
  BY OwedInAll
<1> QED
  BY <1>3, <1>5, <1>6, <1>7, <1>8 DEF SameSize

\* What one turn of the loop of check_market() may do with a lot.
LotTurn(d, n, e) ==
  LET lot == d.comm[n] IN
  \/ e = d
  \/ /\ lot \in Lot /\ lot.bidder # lot.own /\ ~Awaits(lot)
     /\ e.comm[n] = Free /\ \A m \in DOMAIN d.comm \ {n} : e.comm[m] = d.comm[m]
     /\ \/ e.money = d.money /\ e.sect = d.sect
        \/ /\ e.money = [d.money EXCEPT ![lot.bidder] = @ - Cost(lot), ![lot.own] = @ + Gain(lot)]
           /\ e.sect = [d.sect EXCEPT ![lot.dest].items = @ + lot.amount]

\* It leaves nobody with less to spend: the winner pays what it owed, and its
\* seller gets something.
LEMMA SettleLotKeeps ==
  ASSUME NEW d \in Tables, NEW n \in DOMAIN d.comm
  PROVE  LET e == SettleLot(d, n) IN
         /\ e \in Tables /\ SameSize(d, e) /\ NoLess(d, e)
         /\ e.trade = d.trade /\ e.unit = d.unit
         /\ LotTurn(d, n, e)
<1> DEFINE lot == d.comm[n]
           p == [d EXCEPT !.sect[lot.dest].items = @ + lot.amount,
                          !.money[lot.bidder] = @ - Cost(lot), !.money[lot.own] = @ + Gain(lot)]
           e == SettleLot(d, n)
<1>1. lot \in Lot \cup {Free}
  BY ElementOfSeq, LenProperties DEF Tables
<1>2. \A c \in Countries : d.money[c] \in Nat /\ Owed(d, c) \in Nat
  BY OwedInAll DEF Tables
<1>3. CASE lot.own = None \/ Awaits(lot)
  <2>1. e = d
    BY <1>3 DEF SettleLot
  <2> QED
    BY <2>1, <1>2 DEF SameSize, NoLess, Spare, LotTurn
<1>4. CASE ~(lot.own = None \/ Awaits(lot)) /\ FallsThrough(d, lot)
  <2>1. e = FreeLot(d, n)
    BY <1>4 DEF SettleLot
  <2>2. /\ e \in Tables /\ SameSize(d, e) /\ e.money = d.money /\ e.trade = d.trade
        /\ e.sect = d.sect /\ e.unit = d.unit /\ e.comm[n] = Free
        /\ \A m \in DOMAIN d.comm \ {n} : e.comm[m] = d.comm[m]
        /\ \A c \in Countries : Owed(e, c) = Owed(d, c) - LotOwed(d.comm, c, n)
        /\ \A c \in Countries : LotOwed(d.comm, c, n) \in Nat /\ LotOwed(d.comm, c, n) <= Owed(d, c)
    BY <2>1, LotIsFreed
  <2> HIDE DEF e
  <2>3. lot \in Lot /\ lot.bidder # lot.own /\ ~Awaits(lot)
    BY <1>1, <1>4, FreeOrNot DEF Awaits
  <2>4. LotTurn(d, n, e)
    BY <2>2, <2>3 DEF LotTurn
  <2> QED
    BY <1>2, <2>2, <2>4 DEF NoLess, Spare, e
<1>5. CASE ~(lot.own = None \/ Awaits(lot)) /\ ~FallsThrough(d, lot)
  <2>1. e = FreeLot(p, n)
    BY <1>5 DEF SettleLot
  <2>2. lot \in Lot /\ lot.own # None /\ lot.bidder # lot.own
    BY <1>1, <1>5, FreeOrNot DEF Awaits
  <2>3. lot.own \in Countries /\ lot.bidder \in Countries /\ lot.dest \in Countries
        /\ lot.amount \in Nat /\ Cost(lot) \in Nat /\ Gain(lot) \in Nat
    BY <2>2, CostIsNat, Constants DEF Lot
  <2> HIDE DEF lot
  <2>4. d.money[lot.bidder] >= Cost(lot) /\ d.sect[lot.dest].items + lot.amount <= ItemMax
    <3>1. d.sect[lot.dest] \in Sector /\ ItemMax \in Nat
      BY <2>3, Constants DEF Tables
    <3>2. d.sect[lot.dest].items \in Nat
      BY <3>1 DEF Sector
    <3>3. ~(d.money[lot.bidder] < Cost(lot)) /\ ~(d.sect[lot.dest].items + lot.amount > ItemMax)
      BY <1>5 DEF FallsThrough, Full
    <3> QED
      BY <1>2, <2>3, <3>1, <3>2, <3>3
  <2>5. /\ p.money = [d.money EXCEPT ![lot.bidder] = @ - Cost(lot), ![lot.own] = @ + Gain(lot)]
        /\ p.sect = [d.sect EXCEPT ![lot.dest].items = @ + lot.amount]
        /\ p.comm = d.comm /\ p.trade = d.trade /\ p.unit = d.unit
        /\ p = [money |-> p.money, sect |-> p.sect, unit |-> p.unit, comm |-> p.comm, trade |-> p.trade]
    <3>1. DOMAIN d = {"money", "sect", "unit", "comm", "trade"}
      BY DEF Tables
    <3>2. DOMAIN p = {"money", "sect", "unit", "comm", "trade"}
      BY <3>1
    <3>3. p.comm = d.comm /\ p.trade = d.trade /\ p.unit = d.unit
      BY <3>1
    <3>4. p.sect = [d.sect EXCEPT ![lot.dest].items = @ + lot.amount]
      BY <3>1
    <3>5. p.money = [d.money EXCEPT ![lot.bidder] = @ - Cost(lot), ![lot.own] = @ + Gain(lot)]
      BY <3>1
    <3>6. p = [money |-> p.money, sect |-> p.sect, unit |-> p.unit, comm |-> p.comm, trade |-> p.trade]
      <4>1. p = [i \in DOMAIN p |-> p[i]]
        OBVIOUS
      <4> HIDE DEF p
      <4> QED
        BY <4>1, <3>2
    <3> QED
      BY <3>3, <3>4, <3>5, <3>6
  <2> HIDE DEF p
  <2>6. p.money \in [Countries -> Nat]
    <3>1. d.money \in [Countries -> Nat]
      BY DEF Tables
    <3> QED
      BY <2>2, <2>3, <2>4, <2>5, <3>1
  <2>7. p.sect \in [Countries -> Sector]
    <3>1. d.sect \in [Countries -> Sector]
      BY DEF Tables
    <3>2. d.sect[lot.dest].items \in Nat
      BY <3>1, <2>3, Constants DEF Sector
    <3>3. d.sect[lot.dest].items + lot.amount \in 0..ItemMax
      BY <2>3, <2>4, <3>2, Constants
    <3>4. [d.sect[lot.dest] EXCEPT !.items = @ + lot.amount] \in Sector
      BY <3>1, <3>3, <2>3 DEF Sector
    <3> QED
      BY <3>1, <3>4, <2>3, <2>5
  <2>8. p \in Tables
    BY <2>5, <2>6, <2>7 DEF Tables
  <2>9. /\ e \in Tables /\ SameSize(p, e) /\ e.money = p.money /\ e.trade = p.trade /\ e.unit = p.unit
        /\ e.sect = p.sect /\ e.comm[n] = Free /\ \A m \in DOMAIN p.comm \ {n} : e.comm[m] = p.comm[m]
        /\ \A c \in Countries : Owed(e, c) = Owed(p, c) - LotOwed(p.comm, c, n)
        /\ \A c \in Countries : LotOwed(p.comm, c, n) \in Nat
    BY <2>1, <2>5, <2>8, LotIsFreed
  <2> HIDE DEF e
  <2>10. \A c \in Countries : Owed(p, c) = Owed(d, c)
    BY <2>5, <2>8, OwedInAll
  <2>11. LotOwed(d.comm, lot.bidder, n) = Cost(lot)
    BY <2>2, <2>3 DEF LotOwed, Bids, lot
  <2>12. ASSUME NEW c \in Countries PROVE Spare(d, c) <= Spare(e, c)
    <3>1. CASE c = lot.bidder
      <4>1. e.money[c] = d.money[c] - Cost(lot)
        BY <2>2, <2>3, <2>5, <2>9, <3>1 DEF Tables
      <4>2. Owed(e, c) = Owed(d, c) - Cost(lot)
        BY <2>5, <2>9, <2>10, <2>11, <3>1
      <4> QED
        BY <4>1, <4>2, <1>2, <2>3 DEF Spare
    <3>2. CASE c # lot.bidder
      <4>1. e.money[c] >= d.money[c] /\ e.money[c] \in Nat
        <5>1. d.money \in [Countries -> Nat]
          BY DEF Tables
        <5>2. e.money[c] = IF c = lot.own THEN d.money[c] + Gain(lot) ELSE d.money[c]
          BY <2>2, <2>3, <2>5, <2>9, <3>2, <5>1
        <5> QED
          BY <2>3, <5>1, <5>2
      <4>2. Owed(e, c) = Owed(d, c) - LotOwed(d.comm, c, n) /\ LotOwed(d.comm, c, n) \in Nat
        BY <2>5, <2>9, <2>10
      <4> QED
        BY <4>1, <4>2, <1>2 DEF Spare
    <3> QED
      BY <3>1, <3>2
  <2>13. LotTurn(d, n, e)
    BY <1>5, <2>2, <2>5, <2>9 DEF LotTurn, lot
  <2> QED
    BY <2>5, <2>9, <2>12, <2>13 DEF SameSize, NoLess, e
<1> QED
  BY <1>3, <1>4, <1>5

\* A unit is taken off the block.
LEMMA TradeIsFreed ==
  ASSUME NEW d \in Tables, NEW n \in DOMAIN d.trade
  PROVE  LET e == [d EXCEPT !.trade[n] = Free] IN
         /\ e \in Tables /\ SameSize(d, e)
         /\ e.money = d.money /\ e.comm = d.comm /\ e.sect = d.sect /\ e.unit = d.unit
         /\ e.trade[n] = Free
         /\ \A m \in DOMAIN d.trade \ {n} : e.trade[m] = d.trade[m]
         /\ \A c \in Countries : Owed(e, c) = Owed(d, c) - UnitOwed(d.trade, c, n)
         /\ \A c \in Countries : UnitOwed(d.trade, c, n) \in Nat /\ UnitOwed(d.trade, c, n) <= Owed(d, c)
<1> DEFINE els == PutAt(d.trade, n, Free)
           e == PutTrade(d, n, Free)
<1>1. d.trade \in Seq(Trade \cup {Free})
  BY DEF Tables
<1>2. n \in 1..Len(d.trade) + 1 /\ ~(n > Len(d.trade))
  BY <1>1, LenProperties
<1>3. /\ els[n] = Free /\ Len(els) = Len(d.trade) /\ DOMAIN els = DOMAIN d.trade /\ n \in DOMAIN els
      /\ \A m \in DOMAIN d.trade \ {n} : d.trade[m] = els[m]
  <2> DEFINE B == Trade \cup {Free}  lots == d.trade
  <2>1. lots \in Seq(B) /\ n \in 1..Len(lots) + 1 /\ Free \in B /\ ~(n > Len(lots))
    BY <1>1, <1>2
  <2> HIDE DEF B, lots
  <2>2. LET z == PutAt(lots, n, Free) IN
        /\ z[n] = Free /\ Len(z) = Len(lots) /\ DOMAIN lots = 1..Len(lots) /\ DOMAIN z = 1..Len(z)
        /\ n \in DOMAIN z /\ \A m \in DOMAIN lots \ {n} : lots[m] = z[m]
    BY <2>1, PutInTable
  <2> QED
    BY <2>2 DEF lots
<1>4. els = [d.trade EXCEPT ![n] = Free]
  BY <1>2 DEF PutAt
<1>5. [d EXCEPT !.trade[n] = Free] = e
  BY <1>4 DEF Tables, PutTrade
<1>6. /\ e \in Tables /\ e.trade = els
      /\ e.money = d.money /\ e.comm = d.comm /\ e.sect = d.sect /\ e.unit = d.unit
      /\ \A c \in Countries :
            /\ UnitOwed(d.trade, c, n) \in Nat /\ UnitOwed(d.trade, c, n) <= Owed(d, c)
            /\ Owed(e, c) = Owed(d, c) - UnitOwed(d.trade, c, n) + UnitOwed(els, c, n)
  <2>1. Free \in Trade \cup {Free}
    OBVIOUS
  <2> HIDE DEF els
  <2>2. /\ e \in Tables /\ e.trade = PutAt(d.trade, n, Free)
        /\ e.money = d.money /\ e.comm = d.comm /\ e.sect = d.sect /\ e.unit = d.unit
        /\ \A c \in Countries :
              /\ UnitOwed(d.trade, c, n) \in Nat /\ UnitOwed(d.trade, c, n) <= Owed(d, c)
              /\ Owed(e, c) = Owed(d, c) - UnitOwed(d.trade, c, n) + UnitOwed(e.trade, c, n)
    BY <1>2, <2>1, TradeIsPut
  <2> HIDE DEF e
  <2>3. e.trade = els
    BY <2>2 DEF els
  <2> QED
    BY <2>2, <2>3
<1> HIDE DEF e, els
<1>7. \A c \in Countries : UnitOwed(els, c, n) = 0
  BY <1>3, FreeOrNot, NothingForFree
<1>8. \A c \in Countries : Owed(d, c) \in Nat
  BY OwedInAll
<1> QED
  BY <1>3, <1>5, <1>6, <1>7, <1>8 DEF SameSize

\* What a seller gets is a natural number, and the price if there is no tax.
LEMMA GainIsNat ==
  ASSUME NEW t \in Trade
  PROVE  /\ t.price \in Nat /\ TradeGain(t) \in Nat
         /\ TradeTax = 100 => TradeGain(t) = t.price
<1>1. t.price \in Nat /\ TradeTax \in Nat
  BY Constants DEF Trade
<1>2. \A a, b \in Nat : a * b \in Nat /\ a \div 100 \in Nat
  OBVIOUS
<1>3. \A a \in Nat : (a * 100) \div 100 = a
  OBVIOUS
<1>4. t.price * TradeTax \in Nat
  BY <1>1, <1>2
<1> QED
  BY <1>1, <1>2, <1>3, <1>4 DEF TradeGain

\* Trades only go away.
FewerTrades(d, e) ==
  \A n \in DOMAIN d.trade : e.trade[n] = d.trade[n] \/ e.trade[n] = Free

\* What one turn of the loop of check_trade() may do with a lot.
TradeTurn(d, n, e) ==
  LET t == d.trade[n] IN
  \/ e = d
  \/ /\ t \in Trade /\ e.trade[n] = Free /\ \A m \in DOMAIN d.trade \ {n} : e.trade[m] = d.trade[m]
     /\ e.comm = d.comm /\ e.sect = d.sect
     /\ \/ /\ ~Awaits(t) \/ d.unit[t.unit] # t.own
           /\ e.money = d.money /\ e.unit = d.unit
        \/ /\ ~Awaits(t) /\ t.bidder # t.own /\ d.unit[t.unit] = t.own
           /\ e.money = [d.money EXCEPT ![t.bidder] = @ - t.price, ![t.own] = @ + TradeGain(t)]
           /\ e.unit = [d.unit EXCEPT ![t.unit] = t.bidder]

\* It leaves nobody with less to spend.
LEMMA SettleTradeKeeps ==
  ASSUME NEW d \in Tables, NEW n \in DOMAIN d.trade
  PROVE  LET e == SettleTrade(d, n) IN
         /\ e \in Tables /\ SameSize(d, e) /\ NoLess(d, e) /\ FewerTrades(d, e)
         /\ TradeTurn(d, n, e)
<1> DEFINE t == d.trade[n]
           off == [d EXCEPT !.trade[n] = Free]
           p == [off EXCEPT !.money[t.bidder] = @ - t.price, !.money[t.own] = @ + TradeGain(t),
                            !.unit[t.unit] = t.bidder]
           e == SettleTrade(d, n)
<1>1. t \in Trade \cup {Free}
  BY ElementOfSeq, LenProperties DEF Tables
<1>2. \A c \in Countries : d.money[c] \in Nat /\ Owed(d, c) \in Nat
  BY OwedInAll DEF Tables
<1>3. /\ off \in Tables /\ SameSize(d, off)
      /\ off.money = d.money /\ off.comm = d.comm /\ off.sect = d.sect /\ off.unit = d.unit
      /\ off.trade[n] = Free
      /\ \A m \in DOMAIN d.trade \ {n} : off.trade[m] = d.trade[m]
      /\ \A c \in Countries : Owed(off, c) = Owed(d, c) - UnitOwed(d.trade, c, n)
      /\ \A c \in Countries : UnitOwed(d.trade, c, n) \in Nat /\ UnitOwed(d.trade, c, n) <= Owed(d, c)
  BY TradeIsFreed
<1>4. \/ e = d
      \/ e = off /\ t.own # None /\ (~Awaits(t) \/ d.unit[t.unit] # t.own)
      \/ e = p /\ t.own # None /\ ~Awaits(t) /\ d.unit[t.unit] = t.own /\ ~(d.money[t.bidder] < t.price)
  BY DEF SettleTrade
<1>5. CASE e = d
  BY <1>2, <1>5 DEF SameSize, NoLess, Spare, FewerTrades, TradeTurn
<1> HIDE DEF off
<1>6. CASE e = off /\ t.own # None /\ (~Awaits(t) \/ d.unit[t.unit] # t.own)
  <2>1. t \in Trade
    BY <1>1, <1>6, FreeOrNot
  <2>2. TradeTurn(d, n, off)
    BY <1>3, <1>6, <2>1 DEF TradeTurn
  <2>3. NoLess(d, off)
    BY <1>2, <1>3 DEF NoLess, Spare
  <2>4. FewerTrades(d, off)
    BY <1>3 DEF FewerTrades
  <2> HIDE DEF e
  <2> QED
    BY <1>3, <1>6, <2>2, <2>3, <2>4 DEF e
<1>7. CASE e = p /\ t.own # None /\ ~Awaits(t) /\ d.unit[t.unit] = t.own /\ ~(d.money[t.bidder] < t.price)
  <2>1. t \in Trade /\ t.bidder # t.own
    BY <1>1, <1>7, FreeOrNot DEF Awaits
  <2>2. t.own \in Countries /\ t.bidder \in Countries /\ t.unit \in Units
        /\ t.price \in Nat /\ TradeGain(t) \in Nat
    BY <2>1, GainIsNat DEF Trade
  <2>3. d.money[t.bidder] >= t.price
    BY <1>2, <1>7, <2>2
  <2>4. UnitOwed(d.trade, t.bidder, n) = t.price
    BY <2>1, <2>2, <1>7 DEF UnitOwed, Bids
  <2> HIDE DEF t
  <2>5. /\ p.money = [d.money EXCEPT ![t.bidder] = @ - t.price, ![t.own] = @ + TradeGain(t)]
        /\ p.unit = [d.unit EXCEPT ![t.unit] = t.bidder]
        /\ p.comm = d.comm /\ p.trade = off.trade /\ p.sect = d.sect
        /\ p = [money |-> p.money, sect |-> p.sect, unit |-> p.unit, comm |-> p.comm, trade |-> p.trade]
    <3>1. DOMAIN off = {"money", "sect", "unit", "comm", "trade"}
      BY <1>3 DEF Tables
    <3>2. DOMAIN p = {"money", "sect", "unit", "comm", "trade"}
      BY <3>1
    <3>3. p.comm = d.comm /\ p.trade = off.trade /\ p.sect = d.sect
      BY <1>3, <3>1
    <3>4. p.unit = [d.unit EXCEPT ![t.unit] = t.bidder]
      BY <1>3, <3>1
    <3>5. p.money = [d.money EXCEPT ![t.bidder] = @ - t.price, ![t.own] = @ + TradeGain(t)]
      BY <1>3, <3>1
    <3>6. p = [money |-> p.money, sect |-> p.sect, unit |-> p.unit, comm |-> p.comm, trade |-> p.trade]
      <4>1. p = [i \in DOMAIN p |-> p[i]]
        OBVIOUS
      <4> HIDE DEF p
      <4> QED
        BY <4>1, <3>2
    <3> QED
      BY <3>3, <3>4, <3>5, <3>6
  <2> HIDE DEF p, e
  <2>6. p.money \in [Countries -> Nat]
    <3>1. d.money \in [Countries -> Nat]
      BY DEF Tables
    <3> QED
      BY <2>1, <2>2, <2>3, <2>5, <3>1
  <2>7. p.unit \in [Units -> Owner]
    <3>1. d.unit \in [Units -> Owner]
      BY DEF Tables
    <3> QED
      BY <2>2, <2>5, <3>1 DEF Owner
  <2>8. p \in Tables
    <3>1. off.trade \in Seq(Trade \cup {Free}) /\ d.comm \in Seq(Lot \cup {Free}) /\ d.sect \in [Countries -> Sector]
      BY <1>3 DEF Tables
    <3> QED
      BY <2>5, <2>6, <2>7, <3>1 DEF Tables
  <2>9. \A c \in Countries : Owed(p, c) = Owed(off, c)
    BY <1>3, <2>5, <2>8, OwedInAll
  <2>10. ASSUME NEW c \in Countries PROVE Spare(d, c) <= Spare(p, c)
    <3>0. d.money \in [Countries -> Nat]
      BY DEF Tables
    <3>1. CASE c = t.bidder
      <4>1. p.money[c] = d.money[c] - t.price
        BY <2>1, <2>2, <2>5, <3>0, <3>1
      <4>2. Owed(p, c) = Owed(d, c) - t.price
        BY <1>3, <2>4, <2>9, <3>1
      <4> QED
        BY <4>1, <4>2, <1>2, <2>2 DEF Spare
    <3>2. CASE c # t.bidder
      <4>1. p.money[c] = IF c = t.own THEN d.money[c] + TradeGain(t) ELSE d.money[c]
        BY <2>2, <2>5, <3>0, <3>2
      <4>2. p.money[c] >= d.money[c] /\ p.money[c] \in Nat
        BY <4>1, <2>2, <1>2
      <4>3. Owed(p, c) = Owed(d, c) - UnitOwed(d.trade, c, n) /\ UnitOwed(d.trade, c, n) \in Nat
        BY <1>3, <2>9
      <4> QED
        BY <4>2, <4>3, <1>2 DEF Spare
    <3> QED
      BY <3>1, <3>2
  <2>11. SameSize(d, p)
    BY <1>3, <2>5 DEF SameSize
  <2>12. FewerTrades(d, p)
    BY <1>3, <2>5 DEF FewerTrades
  <2>13. TradeTurn(d, n, p)
    BY <1>3, <1>7, <2>1, <2>5 DEF TradeTurn, t
  <2> QED
    BY <1>7, <2>8, <2>10, <2>11, <2>12, <2>13 DEF NoLess, e
<1> QED
  BY <1>4, <1>5, <1>6, <1>7

\* Both relations between tables can be chained.
LEMMA Chained ==
  ASSUME NEW d \in Tables, NEW e \in Tables, NEW f \in Tables,
         SameSize(d, e), NoLess(d, e), SameSize(e, f), NoLess(e, f)
  PROVE  SameSize(d, f) /\ NoLess(d, f)
<1>1. ASSUME NEW c \in Countries PROVE Spare(d, c) <= Spare(f, c)
  <2>1. \A t \in Tables : t.money[c] \in Nat
    BY DEF Tables
  <2>2. \A t \in Tables : Spare(t, c) \in Int
    BY <2>1, OwedInAll DEF Spare
  <2>3. Spare(d, c) <= Spare(e, c) /\ Spare(e, c) <= Spare(f, c)
    BY DEF NoLess
  <2> QED
    BY <2>2, <2>3
<1> QED
  BY <1>1 DEF SameSize, NoLess

\* Tables are as good as themselves.
LEMMA NoneLess ==
  ASSUME NEW d \in Tables
  PROVE  SameSize(d, d) /\ NoLess(d, d) /\ FewerTrades(d, d)
<1>1. \A c \in Countries : Spare(d, c) \in Int
  <2>1. \A c \in Countries : d.money[c] \in Nat
    BY DEF Tables
  <2> QED
    BY <2>1, OwedInAll DEF Spare
<1> QED
  BY <1>1 DEF SameSize, NoLess, FewerTrades

\* check_market() goes from lot to lot: what there is after each of them.
LEMMA MarketRounds ==
  ASSUME NEW d \in Tables
  PROVE  \E r \in [0..Len(d.comm) -> Tables] :
            /\ r[0] = d /\ r[Len(d.comm)] = CheckMarket(d)
            /\ \A i \in 0..Len(d.comm) : SameSize(d, r[i])
            /\ \A i \in 1..Len(d.comm) : r[i] = SettleLot(r[i - 1], i)
<1> DEFINE K == {e \in Tables : SameSize(d, e)}
           B == DOMAIN d.comm
           q == [i \in B |-> i]
           F == [y \in K |-> [n \in B |-> SettleLot(y, n)]]
           Is(h) == h = [s \in SUBSET DOMAIN q |->
                           IF s = {} THEN d ELSE SettleLot(h[s \ {Max(s)}], q[Max(s)])]
           iter == CHOOSE h : Is(h)
<1>0. d \in K
  BY NoneLess
<1>1. Len(d.comm) \in Nat /\ B = 1..Len(d.comm)
  BY LenProperties DEF Tables
<1>2. q \in Seq(B) /\ Len(q) = Len(d.comm) /\ DOMAIN q = B
  BY <1>1
<1>3. \A y \in K, n \in B : SettleLot(y, n) \in K
  <2> TAKE y \in K, n \in B
  <2>1. y \in Tables /\ n \in DOMAIN y.comm /\ SameSize(d, y)
    BY DEF SameSize
  <2>2. SettleLot(y, n) \in Tables /\ SameSize(y, SettleLot(y, n))
    BY <2>1, SettleLotKeeps
  <2> QED
    BY <2>1, <2>2 DEF SameSize
<1> HIDE DEF K
<1>4. F \in [K -> [B -> K]]
  BY <1>3
<1> HIDE DEF B, q
<1>5. \E h : Is(h)
  <2>0. Folds(K, Len(q), d, F, q)
    <3> HIDE DEF F
    <3> QED
      BY <1>0, <1>2, <1>4, FoldExists
  <2>1. PICK h : h \in [SUBSET (1..Len(q)) -> K] /\ Recurs(h, Len(q), d, F, q)
    BY <2>0 DEF Folds
  <2>2. ASSUME NEW s \in SUBSET DOMAIN q, s # {}
        PROVE  h[s \ {Max(s)}] \in K /\ q[Max(s)] \in B
    <3>1. Max(s) \in s
      BY <1>1, <1>2, <2>2, MaxOfSome
    <3> QED
      BY <1>1, <1>2, <2>1, <3>1, ElementOfSeq
  <2>3. \A s \in SUBSET DOMAIN q : s # {} => F[h[s \ {Max(s)}]][q[Max(s)]] = SettleLot(h[s \ {Max(s)}], q[Max(s)])
    BY <2>2
  <2> HIDE DEF F
  <2>4. \A s \in SUBSET DOMAIN q : h[s] = IF s = {} THEN d ELSE SettleLot(h[s \ {Max(s)}], q[Max(s)])
    BY <1>1, <1>2, <2>1, <2>3 DEF Recurs
  <2> QED
    BY <1>1, <1>2, <2>1, <2>4
<1>6. Is(iter)
  BY <1>5
<1>7. CheckMarket(d) = iter[1..Len(q)]
  BY <1>1, <1>2 DEF CheckMarket, FoldLeftDomain, FoldLeft, MapThenFoldSet, B, q
<1> HIDE DEF iter, F
<1> DEFINE r == [i \in 0..Len(d.comm) |-> iter[1..i]]
           S == {i \in 0..Len(q) : r[i] \in K}
<1>8. r[0] = d
  <2>1. 1..0 = {} /\ {} \in SUBSET DOMAIN q /\ 0 \in 0..Len(d.comm)
    BY <1>1
  <2> QED
    BY <1>6, <2>1
<1>9. ASSUME NEW i \in 0..Len(q), i < Len(q)
      PROVE  i + 1 \in B /\ i + 1 \in 0..Len(q) /\ (i + 1) - 1 = i /\ r[i + 1] = SettleLot(r[i], i + 1)
  <2>0. i + 1 \in 1..Len(q) /\ i + 1 \in 0..Len(q) /\ (i + 1) - 1 = i
    BY <1>1, <1>2, <1>9
  <2>1. 1..i + 1 \in SUBSET (1..Len(q)) /\ 1..i + 1 # {} /\ Max(1..i + 1) = i + 1 /\ (1..i + 1) \ {Max(1..i + 1)} = 1..i
    <3>1. 1..i + 1 \in SUBSET (1..Len(q)) /\ 1..i + 1 # {} /\ Max(1..i + 1) = i + 1
          /\ (1..i + 1) \ {Max(1..i + 1)} = 1..(i + 1) - 1
      BY <1>1, <1>2, <2>0, UpTo
    <3> QED
      BY <2>0, <3>1
  <2>2. iter[1..i + 1] = SettleLot(iter[(1..i + 1) \ {Max(1..i + 1)}], q[Max(1..i + 1)])
    BY <1>1, <1>2, <1>6, <2>1
  <2>3. q[i + 1] = i + 1
    BY <1>1, <1>2, <2>0 DEF q
  <2> QED
    BY <1>1, <1>2, <1>9, <2>0, <2>1, <2>2, <2>3
<1>10. 0..Len(q) \subseteq S
  <2>1. 0 \in S
    BY <1>0, <1>1, <1>2, <1>8
  <2> HIDE DEF r
  <2>2. \A i \in 0..Len(q) : i \in S /\ i < Len(q) => i + 1 \in S
    BY <1>3, <1>9
  <2> HIDE DEF S
  <2> QED
    BY <1>1, <1>2, <2>1, <2>2, NatsBySteps
<1>11. r[Len(d.comm)] = CheckMarket(d)
  <2>1. Len(d.comm) \in 0..Len(d.comm)
    BY <1>1
  <2> QED
    BY <1>2, <1>7, <2>1
<1>12. \A i \in 1..Len(d.comm) : r[i] = SettleLot(r[i - 1], i)
  <2> TAKE i \in 1..Len(d.comm)
  <2>1. i - 1 \in 0..Len(q) /\ i - 1 < Len(q) /\ (i - 1) + 1 = i
    BY <1>1, <1>2
  <2> HIDE DEF r
  <2> QED
    BY <1>9, <2>1
<1>13. \A i \in 0..Len(d.comm) : r[i] \in K
  <2> HIDE DEF r
  <2> QED
    BY <1>2, <1>10
<1>14. r \in [0..Len(d.comm) -> Tables] /\ \A i \in 0..Len(d.comm) : SameSize(d, r[i])
  BY <1>13 DEF K
<1> HIDE DEF r
<1> QED
  BY <1>8, <1>11, <1>12, <1>14

\* check_market() leaves nobody with less to spend, and the block alone.
LEMMA CheckMarketKeeps ==
  ASSUME NEW d \in Tables
  PROVE  LET e == CheckMarket(d) IN
         /\ e \in Tables /\ SameSize(d, e) /\ NoLess(d, e)
         /\ e.trade = d.trade /\ e.unit = d.unit
<1> DEFINE N == Len(d.comm)
<1>0. N \in Nat /\ DOMAIN d.comm = 1..N
  BY LenProperties DEF Tables
<1>1. PICK r \in [0..N -> Tables] :
            /\ r[0] = d /\ r[N] = CheckMarket(d)
            /\ \A i \in 0..N : SameSize(d, r[i])
            /\ \A i \in 1..N : r[i] = SettleLot(r[i - 1], i)
  BY MarketRounds
<1> HIDE DEF N
<1> DEFINE S == {i \in 0..N : NoLess(d, r[i]) /\ r[i].trade = d.trade /\ r[i].unit = d.unit}
<1>2. 0 \in S
  BY <1>0, <1>1, NoneLess
<1>3. ASSUME NEW i \in 0..N, i \in S, i < N PROVE i + 1 \in S
  <2>1. i + 1 \in 1..N /\ i + 1 \in 0..N /\ (i + 1) - 1 = i
    BY <1>0, <1>3
  <2>2. r[i] \in Tables /\ r[i + 1] \in Tables /\ r[i + 1] = SettleLot(r[i], i + 1) /\ SameSize(d, r[i])
    BY <1>1, <2>1
  <2>3. /\ SameSize(r[i], r[i + 1]) /\ NoLess(r[i], r[i + 1])
        /\ r[i + 1].trade = r[i].trade /\ r[i + 1].unit = r[i].unit
    <3>1. i + 1 \in DOMAIN r[i].comm
      BY <1>0, <2>1, <2>2 DEF SameSize
    <3> QED
      BY <2>2, <3>1, SettleLotKeeps
  <2>4. NoLess(d, r[i + 1])
    BY <1>3, <2>2, <2>3, Chained
  <2> QED
    BY <1>3, <2>1, <2>3, <2>4
<1>4. N \in S
  <2> HIDE DEF S
  <2>1. 0..N \subseteq S
    BY <1>0, <1>2, <1>3, NatsBySteps
  <2> QED
    BY <1>0, <2>1
<1>5. N \in 0..N
  BY <1>0
<1> QED
  BY <1>1, <1>4, <1>5

\* check_trade() goes from lot to lot: what there is after each of them.
LEMMA TradeRounds ==
  ASSUME NEW d \in Tables
  PROVE  \E r \in [0..Len(d.trade) -> Tables] :
            /\ r[0] = d /\ r[Len(d.trade)] = CheckTrade(d)
            /\ \A i \in 0..Len(d.trade) : SameSize(d, r[i])
            /\ \A i \in 1..Len(d.trade) : r[i] = SettleTrade(r[i - 1], i)
<1> DEFINE K == {e \in Tables : SameSize(d, e)}
           B == DOMAIN d.trade
           q == [i \in B |-> i]
           F == [y \in K |-> [n \in B |-> SettleTrade(y, n)]]
           Is(h) == h = [s \in SUBSET DOMAIN q |->
                           IF s = {} THEN d ELSE SettleTrade(h[s \ {Max(s)}], q[Max(s)])]
           iter == CHOOSE h : Is(h)
<1>0. d \in K
  BY NoneLess
<1>1. Len(d.trade) \in Nat /\ B = 1..Len(d.trade)
  BY LenProperties DEF Tables
<1>2. q \in Seq(B) /\ Len(q) = Len(d.trade) /\ DOMAIN q = B
  BY <1>1
<1>3. \A y \in K, n \in B : SettleTrade(y, n) \in K
  <2> TAKE y \in K, n \in B
  <2>1. y \in Tables /\ n \in DOMAIN y.trade /\ SameSize(d, y)
    BY DEF SameSize
  <2>2. SettleTrade(y, n) \in Tables /\ SameSize(y, SettleTrade(y, n))
    BY <2>1, SettleTradeKeeps
  <2> QED
    BY <2>1, <2>2 DEF SameSize
<1> HIDE DEF K
<1>4. F \in [K -> [B -> K]]
  BY <1>3
<1> HIDE DEF B, q
<1>5. \E h : Is(h)
  <2>0. Folds(K, Len(q), d, F, q)
    <3> HIDE DEF F
    <3> QED
      BY <1>0, <1>2, <1>4, FoldExists
  <2>1. PICK h : h \in [SUBSET (1..Len(q)) -> K] /\ Recurs(h, Len(q), d, F, q)
    BY <2>0 DEF Folds
  <2>2. ASSUME NEW s \in SUBSET DOMAIN q, s # {}
        PROVE  h[s \ {Max(s)}] \in K /\ q[Max(s)] \in B
    <3>1. Max(s) \in s
      BY <1>1, <1>2, <2>2, MaxOfSome
    <3> QED
      BY <1>1, <1>2, <2>1, <3>1, ElementOfSeq
  <2>3. \A s \in SUBSET DOMAIN q : s # {} => F[h[s \ {Max(s)}]][q[Max(s)]] = SettleTrade(h[s \ {Max(s)}], q[Max(s)])
    BY <2>2
  <2> HIDE DEF F
  <2>4. \A s \in SUBSET DOMAIN q : h[s] = IF s = {} THEN d ELSE SettleTrade(h[s \ {Max(s)}], q[Max(s)])
    BY <1>1, <1>2, <2>1, <2>3 DEF Recurs
  <2> QED
    BY <1>1, <1>2, <2>1, <2>4
<1>6. Is(iter)
  BY <1>5
<1>7. CheckTrade(d) = iter[1..Len(q)]
  BY <1>1, <1>2 DEF CheckTrade, FoldLeftDomain, FoldLeft, MapThenFoldSet, B, q
<1> HIDE DEF iter, F
<1> DEFINE r == [i \in 0..Len(d.trade) |-> iter[1..i]]
           S == {i \in 0..Len(q) : r[i] \in K}
<1>8. r[0] = d
  <2>1. 1..0 = {} /\ {} \in SUBSET DOMAIN q /\ 0 \in 0..Len(d.trade)
    BY <1>1
  <2> QED
    BY <1>6, <2>1
<1>9. ASSUME NEW i \in 0..Len(q), i < Len(q)
      PROVE  i + 1 \in B /\ i + 1 \in 0..Len(q) /\ (i + 1) - 1 = i /\ r[i + 1] = SettleTrade(r[i], i + 1)
  <2>0. i + 1 \in 1..Len(q) /\ i + 1 \in 0..Len(q) /\ (i + 1) - 1 = i
    BY <1>1, <1>2, <1>9
  <2>1. 1..i + 1 \in SUBSET (1..Len(q)) /\ 1..i + 1 # {} /\ Max(1..i + 1) = i + 1 /\ (1..i + 1) \ {Max(1..i + 1)} = 1..i
    <3>1. 1..i + 1 \in SUBSET (1..Len(q)) /\ 1..i + 1 # {} /\ Max(1..i + 1) = i + 1
          /\ (1..i + 1) \ {Max(1..i + 1)} = 1..(i + 1) - 1
      BY <1>1, <1>2, <2>0, UpTo
    <3> QED
      BY <2>0, <3>1
  <2>2. iter[1..i + 1] = SettleTrade(iter[(1..i + 1) \ {Max(1..i + 1)}], q[Max(1..i + 1)])
    BY <1>1, <1>2, <1>6, <2>1
  <2>3. q[i + 1] = i + 1
    BY <1>1, <1>2, <2>0 DEF q
  <2> QED
    BY <1>1, <1>2, <1>9, <2>0, <2>1, <2>2, <2>3
<1>10. 0..Len(q) \subseteq S
  <2>1. 0 \in S
    BY <1>0, <1>1, <1>2, <1>8
  <2> HIDE DEF r
  <2>2. \A i \in 0..Len(q) : i \in S /\ i < Len(q) => i + 1 \in S
    BY <1>3, <1>9
  <2> HIDE DEF S
  <2> QED
    BY <1>1, <1>2, <2>1, <2>2, NatsBySteps
<1>11. r[Len(d.trade)] = CheckTrade(d)
  <2>1. Len(d.trade) \in 0..Len(d.trade)
    BY <1>1
  <2> QED
    BY <1>2, <1>7, <2>1
<1>12. \A i \in 1..Len(d.trade) : r[i] = SettleTrade(r[i - 1], i)
  <2> TAKE i \in 1..Len(d.trade)
  <2>1. i - 1 \in 0..Len(q) /\ i - 1 < Len(q) /\ (i - 1) + 1 = i
    BY <1>1, <1>2
  <2> HIDE DEF r
  <2> QED
    BY <1>9, <2>1
<1>13. \A i \in 0..Len(d.trade) : r[i] \in K
  <2> HIDE DEF r
  <2> QED
    BY <1>2, <1>10
<1>14. r \in [0..Len(d.trade) -> Tables] /\ \A i \in 0..Len(d.trade) : SameSize(d, r[i])
  BY <1>13 DEF K
<1> HIDE DEF r
<1> QED
  BY <1>8, <1>11, <1>12, <1>14

\* check_trade() leaves nobody with less to spend, and puts nothing on the block.
LEMMA CheckTradeKeeps ==
  ASSUME NEW d \in Tables
  PROVE  LET e == CheckTrade(d) IN
         e \in Tables /\ SameSize(d, e) /\ NoLess(d, e) /\ FewerTrades(d, e)
<1> DEFINE N == Len(d.trade)
<1>0. N \in Nat /\ DOMAIN d.trade = 1..N
  BY LenProperties DEF Tables
<1>1. PICK r \in [0..N -> Tables] :
            /\ r[0] = d /\ r[N] = CheckTrade(d)
            /\ \A i \in 0..N : SameSize(d, r[i])
            /\ \A i \in 1..N : r[i] = SettleTrade(r[i - 1], i)
  BY TradeRounds
<1> HIDE DEF N
<1> DEFINE S == {i \in 0..N : NoLess(d, r[i]) /\ FewerTrades(d, r[i])}
<1>2. 0 \in S
  BY <1>0, <1>1, NoneLess
<1>3. ASSUME NEW i \in 0..N, i \in S, i < N PROVE i + 1 \in S
  <2>1. i + 1 \in 1..N /\ i + 1 \in 0..N /\ (i + 1) - 1 = i
    BY <1>0, <1>3
  <2>2. r[i] \in Tables /\ r[i + 1] \in Tables /\ r[i + 1] = SettleTrade(r[i], i + 1) /\ SameSize(d, r[i])
    BY <1>1, <2>1
  <2>3. SameSize(r[i], r[i + 1]) /\ NoLess(r[i], r[i + 1]) /\ FewerTrades(r[i], r[i + 1])
    <3>1. i + 1 \in DOMAIN r[i].trade
      BY <1>0, <2>1, <2>2 DEF SameSize
    <3> QED
      BY <2>2, <3>1, SettleTradeKeeps
  <2>4. NoLess(d, r[i + 1])
    BY <1>3, <2>2, <2>3, Chained
  <2>5. FewerTrades(d, r[i + 1])
    BY <1>3, <2>2, <2>3 DEF FewerTrades, SameSize
  <2> QED
    BY <2>1, <2>4, <2>5
<1>4. N \in S
  <2> HIDE DEF S
  <2>1. 0..N \subseteq S
    BY <1>0, <1>2, <1>3, NatsBySteps
  <2> QED
    BY <1>0, <2>1
<1>5. N \in 0..N
  BY <1>0
<1> QED
  BY <1>1, <1>4, <1>5

-----------------------------------------------------------------------------
(* The inductive invariant. *)

\* What c has left if all its bids win, but for what it spent on something else.
Means(c) == Spare(db, c) + outside.spent[c]

\* A command that bids after its next prompt can pay for it.
CanPay(x, means) ==
  /\ x.op = "dest" => Cost([x.copy EXCEPT !.price = x.bid]) <= means
  /\ x.op = "trade" => x.can <= means

AllCanPay == \A c \in Countries : 0 <= Means(c) /\ CanPay(cmd[c], Means(c))

MarketInv == TypeOK /\ OneLotPerUnit /\ (TradeTax = 100 => AllCanPay)

\* Tables that may follow d.
Follows(d, e) == /\ e \in Tables /\ Len(e.comm) <= MaxLots /\ Len(e.trade) <= MaxTrades
                 /\ Len(d.comm) <= Len(e.comm) /\ Len(d.trade) <= Len(e.trade)

\* What is spare may be less than nothing.
LEMMA SpareIsInt ==
  ASSUME NEW d \in Tables, NEW c \in Countries
  PROVE  Spare(d, c) \in Int /\ d.money[c] \in Nat /\ Owed(d, c) \in Nat
<1>1. d.money[c] \in Nat /\ Owed(d, c) \in Nat
  BY OwedInAll DEF Tables
<1> QED
  BY <1>1 DEF Spare

\* Who can pay can pay with more.
LEMMA CanPayWithMore ==
  ASSUME NEW x \in Prompts, NEW m \in Int, NEW k \in Int, m <= k, CanPay(x, m)
  PROVE  CanPay(x, k)
<1>1. ASSUME x.op = "dest" PROVE Cost([x.copy EXCEPT !.price = x.bid]) \in Nat
  <2>1. [x.copy EXCEPT !.price = x.bid] \in Lot
    BY <1>1 DEF Prompts, Idle, Lot
  <2> QED
    BY <2>1, CostIsNat
<1>2. x.op = "trade" => x.can \in Int
  BY DEF Prompts, Idle
<1> QED
  BY <1>1, <1>2 DEF CanPay

\* The bids that are added up are all that is owed, unless units are taxed.
LEMMA TallyIsOwed ==
  ASSUME NEW d \in Tables, NEW c \in Countries, TradeTax = 100
  PROVE  Tally(d, c) = Owed(d, c)
<1>1. d.trade \in TradeTable
  BY DEF Tables, TradeTable
<1>2. \A n \in Bids(d.trade, c) : TradeGain(d.trade[n]) = d.trade[n].price
  BY <1>1, BidIsForLot, GainIsNat
<1>3. [n \in Bids(d.trade, c) |-> TradeGain(d.trade[n])] = [n \in Bids(d.trade, c) |-> d.trade[n].price]
  BY <1>2
<1>4. Tally(d, c) = UnitsOwed(d.trade, c) + LotsOwed(d.comm, c)
  BY <1>3 DEF Tally, UnitsOwed, LotsOwed
<1>5. Owed(d, c) = LotsOwed(d.comm, c) + UnitsOwed(d.trade, c) /\ LotsOwed(d.comm, c) \in Nat /\ UnitsOwed(d.trade, c) \in Nat
  BY OwedInAll
<1> QED
  BY <1>4, <1>5

\* What a command remembers stays good when the tables grow.
LEMMA PromptsStay ==
  ASSUME TypeOK, Follows(db, db')
  PROVE  Prompts \subseteq Prompts'
<1>1. db.comm \in Seq(Lot \cup {Free}) /\ db'.comm \in Seq(Lot \cup {Free})
      /\ db.trade \in Seq(Trade \cup {Free}) /\ db'.trade \in Seq(Trade \cup {Free})
  BY DEF TypeOK, Follows, Tables
<1>2. DOMAIN db.comm = 1..Len(db.comm) /\ DOMAIN db'.comm = 1..Len(db'.comm)
      /\ DOMAIN db.trade = 1..Len(db.trade) /\ DOMAIN db'.trade = 1..Len(db'.trade)
      /\ Len(db.comm) \in Nat /\ Len(db'.comm) \in Nat /\ Len(db.trade) \in Nat /\ Len(db'.trade) \in Nat
  BY <1>1, LenProperties
<1>3. Len(db.comm) <= Len(db'.comm) /\ Len(db.trade) <= Len(db'.trade)
  BY DEF Follows
<1>4. DOMAIN db.comm \subseteq DOMAIN db'.comm /\ DOMAIN db.trade \subseteq DOMAIN db'.trade
  BY <1>2, <1>3
<1> QED
  BY <1>4 DEF Prompts

\* A step of c's command keeps the invariant if nobody else loses by it and c
\* can pay for what it still means to do.
LEMMA CommandKeeps ==
  ASSUME MarketInv, NEW c \in Countries, NEW x \in Prompts',
         Follows(db, db'), cmd' = [cmd EXCEPT ![c] = x],
         outside' \in [events : Nat, spent : [Countries -> Nat]],
         OneLotPerUnit',
         TradeTax = 100 => /\ \A b \in Countries \ {c} : Means(b) <= Means(b)'
                           /\ 0 <= Means(c)' /\ CanPay(x, Means(c)')
  PROVE  MarketInv'
<1>1. TypeOK'
  <2>1. cmd \in [Countries -> Prompts]
    BY DEF MarketInv, TypeOK
  <2>2. Prompts \subseteq Prompts'
    BY PromptsStay DEF MarketInv
  <2>3. cmd' \in [Countries -> Prompts']
    BY <2>1, <2>2
  <2> QED
    BY <2>3 DEF TypeOK, Follows
<1>2. ASSUME TradeTax = 100, NEW b \in Countries PROVE 0 <= Means(b)' /\ CanPay(cmd'[b], Means(b)')
  <2>0. cmd \in [Countries -> Prompts]
    BY DEF MarketInv, TypeOK
  <2>1. CASE b = c
    BY <1>2, <2>0, <2>1
  <2>2. CASE b # c
    <3>1. Means(b) <= Means(b)' /\ cmd'[b] = cmd[b]
      BY <1>2, <2>0, <2>2
    <3>2. 0 <= Means(b) /\ CanPay(cmd[b], Means(b))
      BY <1>2 DEF MarketInv, AllCanPay
    <3>3. Means(b) \in Int /\ Means(b)' \in Int
      <4>1. db \in Tables /\ db' \in Tables /\ outside.spent[b] \in Nat /\ outside'.spent[b] \in Nat
        BY DEF MarketInv, TypeOK, Follows
      <4>2. Spare(db, b) \in Int /\ Spare(db', b) \in Int
        BY <4>1, SpareIsInt
      <4> QED
        BY <4>1, <4>2 DEF Means
    <3>4. CanPay(cmd[b], Means(b)')
      BY <2>0, <3>1, <3>2, <3>3, CanPayWithMore
    <3> QED
      BY <3>1, <3>2, <3>3, <3>4
  <2> QED
    BY <2>1, <2>2
<1> QED
  BY <1>1, <1>2 DEF MarketInv, AllCanPay

\* A step that no command takes keeps it if nobody loses by it.
LEMMA RestKeeps ==
  ASSUME MarketInv, Follows(db, db'), UNCHANGED cmd,
         outside' \in [events : Nat, spent : [Countries -> Nat]],
         OneLotPerUnit',
         TradeTax = 100 => \A b \in Countries : Means(b) <= Means(b)'
  PROVE  MarketInv'
<1>1. PICK c \in Countries : TRUE
  BY Constants
<1>2. cmd \in [Countries -> Prompts] /\ cmd' = cmd /\ Prompts \subseteq Prompts'
  BY PromptsStay DEF MarketInv, TypeOK
<1>3. cmd' = [cmd EXCEPT ![c] = cmd[c]] /\ cmd[c] \in Prompts'
  BY <1>2
<1>4. ASSUME TradeTax = 100 PROVE 0 <= Means(c)' /\ CanPay(cmd[c], Means(c)')
  <2>1. Means(c) <= Means(c)' /\ 0 <= Means(c) /\ CanPay(cmd[c], Means(c))
    BY <1>4 DEF MarketInv, AllCanPay
  <2>2. db \in Tables /\ db' \in Tables /\ outside.spent[c] \in Nat /\ outside'.spent[c] \in Nat
    BY DEF MarketInv, TypeOK, Follows
  <2>3. Spare(db, c) \in Int /\ Spare(db', c) \in Int
    BY <2>2, SpareIsInt
  <2>4. Means(c) \in Int /\ Means(c)' \in Int
    BY <2>2, <2>3 DEF Means
  <2> QED
    BY <1>2, <2>1, <2>4, CanPayWithMore
<1> QED
  BY <1>3, <1>4, CommandKeeps

\* All bids together are a natural number.
LEMMA TallyIsNat ==
  ASSUME NEW d \in Tables, NEW c \in Countries
  PROVE  Tally(d, c) \in Nat
<1> DEFINE f == [n \in Bids(d.trade, c) |-> TradeGain(d.trade[n])]
<1>1. d.trade \in TradeTable
  BY DEF Tables, TradeTable
<1>2. IsFiniteSet(Bids(d.trade, c))
  BY <1>1, BidsAreFinite DEF TradeTable
<1>3. \A n \in Bids(d.trade, c) : TradeGain(d.trade[n]) \in Nat
  BY <1>1, BidIsForLot, GainIsNat
<1>4. DOMAIN f = Bids(d.trade, c) /\ \A n \in DOMAIN f : f[n] \in Nat
  BY <1>3
<1>5. Tally(d, c) = SumFunction(f) + LotsOwed(d.comm, c)
  BY DEF Tally, LotsOwed
<1> HIDE DEF f
<1>6. SumFunction(f) \in Nat
  BY <1>2, <1>4, SumIsNat
<1>7. LotsOwed(d.comm, c) \in Nat
  BY OwedInAll
<1> QED
  BY <1>5, <1>6, <1>7

\* What is in a table, and where.
LEMMA LotInTable ==
  ASSUME NEW d \in Tables
  PROVE  /\ DOMAIN d.comm = 1..Len(d.comm) /\ Len(d.comm) \in Nat
         /\ \A n \in DOMAIN d.comm : d.comm[n] \in Lot \cup {Free} /\ (d.comm[n].own # None => d.comm[n] \in Lot)
         /\ DOMAIN d.trade = 1..Len(d.trade) /\ Len(d.trade) \in Nat
         /\ \A n \in DOMAIN d.trade : d.trade[n] \in Trade \cup {Free} /\ (d.trade[n].own # None => d.trade[n] \in Trade)
<1>1. d.comm \in Seq(Lot \cup {Free}) /\ d.trade \in Seq(Trade \cup {Free})
  BY DEF Tables
<1>2. DOMAIN d.comm = 1..Len(d.comm) /\ Len(d.comm) \in Nat /\ DOMAIN d.trade = 1..Len(d.trade) /\ Len(d.trade) \in Nat
  BY <1>1, LenProperties
<1>3. \A n \in DOMAIN d.comm : d.comm[n] \in Lot \cup {Free}
  BY <1>1, <1>2, ElementOfSeq
<1>4. \A n \in DOMAIN d.trade : d.trade[n] \in Trade \cup {Free}
  BY <1>1, <1>2, ElementOfSeq
<1>5. Free.own = None
  BY FreeOrNot
<1> QED
  BY <1>2, <1>3, <1>4, <1>5

\* Who loses nothing and spends nothing else has what it had.
LEMMA MeansKept ==
  ASSUME db \in Tables, db' \in Tables, outside \in [events : Nat, spent : [Countries -> Nat]],
         outside'.spent = outside.spent,
         NEW b \in Countries, Spare(db, b) <= Spare(db', b)
  PROVE  Means(b) <= Means(b)' /\ Means(b) \in Int /\ Means(b)' \in Int
<1>1. Spare(db, b) \in Int /\ Spare(db', b) \in Int /\ outside.spent[b] \in Nat
  BY SpareIsInt
<1> QED
  BY <1>1 DEF Means

\* Where no unit comes to the block, none comes there twice.
LEMMA OneLotKept ==
  ASSUME OneLotPerUnit,
         \A n \in DOMAIN db'.trade : db'.trade[n].own # None =>
            n \in DOMAIN db.trade /\ db.trade[n].own # None /\ db'.trade[n].unit = db.trade[n].unit
  PROVE  OneLotPerUnit'
BY DEF OneLotPerUnit, LiveTrades

\* Nothing follows from reading the tables.
LEMMA LookKeeps ==
  ASSUME MarketInv, NEW c \in Countries, NEW x \in Prompts, UNCHANGED db, cmd' = [cmd EXCEPT ![c] = x],
         outside' \in [events : Nat, spent : [Countries -> Nat]], outside'.spent = outside.spent,
         TradeTax = 100 => CanPay(x, Means(c))
  PROVE  MarketInv'
<1>1. db \in Tables /\ outside \in [events : Nat, spent : [Countries -> Nat]]
  BY DEF MarketInv, TypeOK
<1>2. Follows(db, db')
  BY <1>1, LotInTable DEF MarketInv, TypeOK, Follows
<1>3. x \in Prompts'
  BY DEF Prompts
<1>4. OneLotPerUnit'
  BY DEF MarketInv, OneLotPerUnit, LiveTrades
<1>5. \A b \in Countries : Means(b)' = Means(b)
  BY DEF Means
<1>6. \A b \in Countries : Means(b) \in Int
  BY <1>1, SpareIsInt DEF Means
<1>7. TradeTax = 100 => 0 <= Means(c)
  BY DEF MarketInv, AllCanPay
<1>8. \A b \in Countries \ {c} : Means(b) <= Means(b)'
  BY <1>5, <1>6
<1>9. TradeTax = 100 => 0 <= Means(c)' /\ CanPay(x, Means(c)')
  BY <1>5, <1>7
<1> QED
  BY <1>2, <1>3, <1>4, <1>8, <1>9, CommandKeeps

\* A player is asked for the price.
LEMMA BuyLookKeeps ==
  ASSUME MarketInv, NEW c \in Countries, NEW n \in DOMAIN db.comm, BuyLook(c, n) PROVE MarketInv'
<1> DEFINE x == [op |-> "price", lot |-> n, copy |-> db.comm[n]]
<1>1. db \in Tables /\ outside \in [events : Nat, spent : [Countries -> Nat]]
  BY DEF MarketInv, TypeOK
<1>2. db.comm[n] \in Lot
  BY <1>1, LotInTable DEF BuyLook
<1>3. x \in Prompts /\ CanPay(x, Means(c))
  BY <1>2 DEF Prompts, CanPay
<1> QED
  BY <1>1, <1>3, LookKeeps DEF BuyLook

\* A player has named a price that he can pay with all others.
LEMMA BuyBidKeeps ==
  ASSUME MarketInv, NEW c \in Countries, NEW bid \in Prices, BuyBid(c, bid) PROVE MarketInv'
<1> DEFINE x == [op |-> "dest", lot |-> cmd[c].lot, copy |-> cmd[c].copy, bid |-> bid]
<1>1. db \in Tables /\ outside \in [events : Nat, spent : [Countries -> Nat]] /\ cmd[c] \in Prompts
  BY DEF MarketInv, TypeOK
<1>2. cmd[c].lot \in DOMAIN db.comm /\ cmd[c].copy \in Lot
  BY <1>1 DEF BuyBid, Prompts, Idle
<1>3. x \in Prompts
  BY <1>2 DEF Prompts
<1>4. ASSUME TradeTax = 100 PROVE CanPay(x, Means(c))
  <2>1. Cost([cmd[c].copy EXCEPT !.price = bid]) <= CanSpend(db, c)
    BY DEF BuyBid
  <2>2. CanSpend(db, c) = Spare(db, c)
    BY <1>1, <1>4, TallyIsOwed DEF CanSpend, Spare
  <2>3. Spare(db, c) \in Int /\ outside.spent[c] \in Nat
    BY <1>1, SpareIsInt
  <2>4. Cost([cmd[c].copy EXCEPT !.price = bid]) \in Nat
    <3>1. [cmd[c].copy EXCEPT !.price = bid] \in Lot
      BY <1>2 DEF Lot
    <3> QED
      BY <3>1, CostIsNat
  <2>5. Cost([cmd[c].copy EXCEPT !.price = bid]) <= Means(c)
    BY <2>1, <2>2, <2>3, <2>4 DEF Means
  <2> QED
    BY <2>5 DEF CanPay
<1> QED
  BY <1>1, <1>3, <1>4, LookKeeps DEF BuyBid

LEMMA SellLookKeeps ==
  ASSUME MarketInv, NEW c \in Countries, NEW s \in Countries, SellLook(c, s) PROVE MarketInv'
<1> DEFINE x == [op |-> "sell", sect |-> s, copy |-> db.sect[s]]
<1>1. db \in Tables /\ outside \in [events : Nat, spent : [Countries -> Nat]]
  BY DEF MarketInv, TypeOK
<1>2. db.sect[s] \in Sector
  BY <1>1 DEF Tables
<1>3. x \in Prompts /\ CanPay(x, Means(c))
  BY <1>2 DEF Prompts, CanPay
<1> QED
  BY <1>1, <1>3, LookKeeps DEF SellLook

LEMMA ResetLookKeeps ==
  ASSUME MarketInv, NEW c \in Countries, NEW n \in DOMAIN db.comm, ResetLook(c, n) PROVE MarketInv'
<1> DEFINE x == [op |-> "reset", lot |-> n, copy |-> db.comm[n]]
<1>1. db \in Tables /\ outside \in [events : Nat, spent : [Countries -> Nat]]
  BY DEF MarketInv, TypeOK
<1>2. db.comm[n] \in Lot
  BY <1>1, LotInTable DEF ResetLook
<1>3. x \in Prompts /\ CanPay(x, Means(c))
  BY <1>2 DEF Prompts, CanPay
<1>4. outside' \in [events : Nat, spent : [Countries -> Nat]] /\ outside'.spent = outside.spent
  BY <1>1 DEF ResetLook
<1>5. UNCHANGED db /\ cmd' = [cmd EXCEPT ![c] = x]
  BY DEF ResetLook
<1> QED
  BY <1>3, <1>4, <1>5, LookKeeps

LEMMA SetLookKeeps ==
  ASSUME MarketInv, NEW c \in Countries, NEW u \in Units, SetLook(c, u) PROVE MarketInv'
<1> DEFINE x == [op |-> "set", unit |-> u, unitown |-> db.unit[u]]
<1>1. db \in Tables /\ outside \in [events : Nat, spent : [Countries -> Nat]]
  BY DEF MarketInv, TypeOK
<1>2. db.unit[u] \in Countries
  BY <1>1 DEF Tables, Owner, SetLook
<1>3. x \in Prompts /\ CanPay(x, Means(c))
  BY <1>2 DEF Prompts, CanPay
<1> QED
  BY <1>1, <1>3, LookKeeps DEF SetLook

\* A player learns how much he can bid for a unit.
LEMMA TradeLookKeeps ==
  ASSUME MarketInv, NEW c \in Countries, NEW n \in DOMAIN db.trade, TradeLook(c, n) PROVE MarketInv'
<1> DEFINE t == db.trade[n]
           x == [op |-> "trade", lot |-> n, copy |-> t, unitown |-> db.unit[t.unit], can |-> CanSpend(db, c)]
<1>1. db \in Tables /\ outside \in [events : Nat, spent : [Countries -> Nat]]
  BY DEF MarketInv, TypeOK
<1>2. t \in Trade
  BY <1>1, LotInTable DEF TradeLook
<1>3. db.unit[t.unit] \in Owner
  BY <1>1, <1>2 DEF Tables, Trade
<1>4. Spare(db, c) \in Int /\ db.money[c] \in Nat /\ outside.spent[c] \in Nat /\ Tally(db, c) \in Nat
  BY <1>1, SpareIsInt, TallyIsNat
<1>5. x \in Prompts
  <2>1. CanSpend(db, c) \in Int
    BY <1>4 DEF CanSpend
  <2> QED
    BY <1>2, <1>3, <2>1 DEF Prompts
<1>6. ASSUME TradeTax = 100 PROVE CanPay(x, Means(c))
  <2>1. CanSpend(db, c) = Spare(db, c)
    BY <1>1, <1>6, TallyIsOwed DEF CanSpend, Spare
  <2>2. CanSpend(db, c) <= Means(c)
    BY <1>4, <2>1 DEF Means
  <2> QED
    BY <2>2 DEF CanPay
<1> QED
  BY <1>1, <1>5, <1>6, LookKeeps DEF TradeLook

LEMMA GiveUpKeeps ==
  ASSUME MarketInv, NEW c \in Countries, GiveUp(c) PROVE MarketInv'
<1>1. db \in Tables /\ outside \in [events : Nat, spent : [Countries -> Nat]]
  BY DEF MarketInv, TypeOK
<1>2. Idle \in Prompts /\ CanPay(Idle, Means(c))
  BY DEF Prompts, CanPay, Idle
<1> QED
  BY <1>1, <1>2, LookKeeps DEF GiveUp

\* A lot costs less for a lower price.
LEMMA LowerCost ==
  ASSUME NEW lot \in Lot, NEW els \in Lot, els.price <= lot.price, els.amount = lot.amount
  PROVE  Cost(els) <= Cost(lot)
<1>1. lot.price \in Nat /\ els.price \in Nat /\ lot.amount \in Nat /\ BuyTax \in Nat
  BY Constants DEF Lot
<1>2. \A a, b, k \in Nat : a <= b => a * k <= b * k /\ a * k \in Nat /\ b * k \in Nat
  <2> TAKE a, b, k \in Nat
  <2> HAVE a <= b
  <2>1. b - a \in Nat /\ b = a + (b - a)
    OBVIOUS
  <2>2. (b - a) * k \in Nat /\ b * k = a * k + (b - a) * k /\ a * k \in Nat /\ b * k \in Nat
    BY <2>1
  <2> QED
    BY <2>2
<1>3. els.price * lot.amount <= lot.price * lot.amount /\ els.price * lot.amount \in Nat /\ lot.price * lot.amount \in Nat
  BY <1>1, <1>2
<1>4. /\ els.price * lot.amount * BuyTax <= lot.price * lot.amount * BuyTax
      /\ els.price * lot.amount * BuyTax \in Nat /\ lot.price * lot.amount * BuyTax \in Nat
  BY <1>1, <1>2, <1>3
<1>5. \A a, b \in Nat : a <= b => a \div 100 <= b \div 100
  OBVIOUS
<1> QED
  BY <1>4, <1>5 DEF Cost

\* A lot is written or added that nobody owes more for.
LEMMA LotWriteKeeps ==
  ASSUME MarketInv, NEW c \in Countries, db' \in Tables, NEW lot \in Lot \cup {Free},
         NEW n \in 1..Len(db.comm) + 1, n <= MaxLots,
         db'.comm = PutAt(db.comm, n, lot), db'.money = db.money, db'.trade = db.trade,
         cmd' = [cmd EXCEPT ![c] = Idle] \/ cmd' = cmd, UNCHANGED outside,
         \A b \in Countries : LotOwed(db'.comm, b, n) <= LotOwed(db.comm, b, n)
  PROVE  MarketInv'
<1>1. db \in Tables /\ outside \in [events : Nat, spent : [Countries -> Nat]] /\ cmd \in [Countries -> Prompts]
  BY DEF MarketInv, TypeOK
<1>2. Follows(db, db')
  <2>2. Len(db'.comm) = (IF n > Len(db.comm) THEN Len(db.comm) + 1 ELSE Len(db.comm)) /\ Len(db.comm) \in Nat
    <3>1. /\ Len(PutLot(db, n, lot).comm) = (IF n > Len(db.comm) THEN Len(db.comm) + 1 ELSE Len(db.comm))
          /\ PutLot(db, n, lot).comm = PutAt(db.comm, n, lot)
      BY <1>1, LotIsPut
    <3>2. Len(db.comm) \in Nat
      BY <1>1, LotInTable
    <3> QED
      BY <3>1, <3>2
  <2>3. MaxLots \in Nat /\ Len(db.trade) \in Nat
    BY <1>1, LotInTable, Constants
  <2> QED
    BY <2>2, <2>3 DEF Follows, MarketInv, TypeOK
<1>3. OneLotPerUnit'
  BY DEF MarketInv, OneLotPerUnit, LiveTrades
<1>4. ASSUME NEW b \in Countries PROVE Spare(db, b) <= Spare(db', b)
  <2>1. /\ LotOwed(db.comm, b, n) \in Nat /\ LotOwed(PutLot(db, n, lot).comm, b, n) \in Nat
        /\ PutLot(db, n, lot) \in Tables
        /\ PutLot(db, n, lot).comm = PutAt(db.comm, n, lot) /\ PutLot(db, n, lot).trade = db.trade
        /\ Owed(PutLot(db, n, lot), b) = Owed(db, b) - LotOwed(db.comm, b, n) + LotOwed(PutLot(db, n, lot).comm, b, n)
    BY <1>1, LotIsPut
  <2>2. Owed(db', b) = Owed(PutLot(db, n, lot), b)
    BY <2>1, OwedInAll
  <2>3. Owed(db, b) \in Nat /\ db.money[b] \in Nat
    BY <1>1, SpareIsInt
  <2>4. LotOwed(db'.comm, b, n) <= LotOwed(db.comm, b, n) /\ LotOwed(db'.comm, b, n) = LotOwed(PutLot(db, n, lot).comm, b, n)
    BY <2>1
  <2> QED
    BY <2>1, <2>2, <2>3, <2>4 DEF Spare
<1>5. \A b \in Countries : Means(b) <= Means(b)' /\ Means(b) \in Int /\ Means(b)' \in Int
  BY <1>1, <1>4, MeansKept
<1>6. TradeTax = 100 => 0 <= Means(c)'
  BY <1>5 DEF MarketInv, AllCanPay
<1>7. Idle \in Prompts' /\ CanPay(Idle, Means(c)')
  BY DEF Prompts, CanPay, Idle
<1> QED
  BY <1>1, <1>2, <1>3, <1>5, <1>6, <1>7, CommandKeeps, RestKeeps

\* A slot that is free, or one more.
LEMMA FreeSlotIs ==
  ASSUME NEW B, NEW table \in Seq(B)
  PROVE  /\ FreeSlot(table) \in 1..Len(table) + 1
         /\ FreeSlot(table) \in DOMAIN table => table[FreeSlot(table)].own = None
<1>1. DOMAIN table = 1..Len(table) /\ Len(table) \in Nat
  BY LenProperties
<1>2. CASE \E n \in DOMAIN table : table[n].own = None
  <2> DEFINE T == {n \in DOMAIN table : table[n].own = None}
  <2>1. T \in SUBSET Nat /\ T # {}
    BY <1>1, <1>2
  <2>2. \E n \in T : \A m \in T : n <= m
    BY <2>1, LeastNat
  <2>3. \E n \in DOMAIN table : table[n].own = None /\ \A m \in 1..n-1 : table[m].own # None
    BY <1>1, <2>2
  <2>4. FreeSlot(table) \in DOMAIN table /\ table[FreeSlot(table)].own = None
    BY <1>2, <2>3 DEF FreeSlot
  <2> QED
    BY <1>1, <2>4
<1>3. CASE ~\E n \in DOMAIN table : table[n].own = None
  BY <1>1, <1>3 DEF FreeSlot
<1> QED
  BY <1>2, <1>3

\* Goods are put on the market: nobody bids for them yet.
LEMMA SellPostKeeps ==
  ASSUME MarketInv, NEW c \in Countries, NEW amount \in Amounts, NEW price \in Offers, SellPost(c, amount, price)
  PROVE  MarketInv'
<1> DEFINE n == FreeSlot(db.comm)
           lot == [own |-> c, amount |-> amount, price |-> price, bidder |-> c,
                   dest |-> c, from |-> cmd[c].sect, due |-> FALSE]
           s == [cmd[c].copy EXCEPT !.items = @ - amount]
           sects == [db.sect EXCEPT ![cmd[c].sect] = s]
<1>1. db \in Tables /\ cmd[c] \in Prompts /\ cmd[c].op = "sell" /\ amount <= cmd[c].copy.items
  BY DEF MarketInv, TypeOK, SellPost
<1>2. cmd[c].sect \in Countries /\ cmd[c].copy \in Sector
  BY <1>1 DEF Prompts, Idle
<1>3. amount \in 1..ItemMax /\ price \in Prices /\ s \in Sector
  <2>1. cmd[c].copy.items \in 0..ItemMax /\ ItemMax \in Nat /\ amount \in Nat \ {0} /\ price \in Prices
    BY <1>2, Constants DEF Sector
  <2>2. amount \in 1..ItemMax /\ cmd[c].copy.items - amount \in 0..ItemMax
    BY <1>1, <2>1
  <2> QED
    BY <1>2, <2>1, <2>2 DEF Sector
<1>4. lot \in Lot /\ sects \in [Countries -> Sector]
  BY <1>1, <1>2, <1>3 DEF Lot, Tables
<1>5. n \in 1..Len(db.comm) + 1 /\ n <= MaxLots
  <2>1. n \in 1..Len(db.comm) + 1
    BY <1>1, FreeSlotIs DEF Tables
  <2> QED
    BY <2>1 DEF SellPost
<1>6. db' = [db EXCEPT !.sect[cmd[c].sect] = s, !.comm = PutAt(@, n, lot)]
  BY DEF SellPost
<1>7. PutLot(db, n, lot) \in Tables /\ PutLot(db, n, lot).comm = PutAt(db.comm, n, lot)
  BY <1>1, <1>4, <1>5, LotIsPut
<1>8. PutAt(db.comm, n, lot) \in Seq(Lot \cup {Free})
  BY <1>7 DEF Tables
<1>9. PutAt(db.comm, n, lot)[n] = lot
  BY <1>1, <1>4, <1>5, LotIsPut
<1>10. lot.own = c /\ lot.bidder = c
  OBVIOUS
<1> HIDE DEF n, lot, s
<1>11. db' = [db EXCEPT !.sect = sects, !.comm = PutAt(db.comm, n, lot)]
  BY <1>1, <1>6 DEF Tables
<1> HIDE DEF sects
<1>12. db' \in Tables /\ db'.comm = PutAt(db.comm, n, lot) /\ db'.money = db.money /\ db'.trade = db.trade
  BY <1>1, <1>4, <1>8, <1>11 DEF Tables
<1>13. ASSUME NEW b \in Countries PROVE LotOwed(db'.comm, b, n) <= LotOwed(db.comm, b, n)
  <2>1. LotOwed(db'.comm, b, n) = 0
    BY <1>9, <1>10, <1>12 DEF LotOwed, Bids
  <2>2. LotOwed(db.comm, b, n) \in Nat
    BY <1>1, <1>4, <1>5, LotIsPut
  <2> QED
    BY <2>1, <2>2
<1>14. cmd' = [cmd EXCEPT ![c] = Idle] /\ UNCHANGED outside
  BY DEF SellPost
<1> QED
  BY <1>4, <1>5, <1>12, <1>13, <1>14, LotWriteKeeps

\* A table is written where there is a lot.
LEMMA LotIsChanged ==
  ASSUME NEW d \in Tables, NEW n \in DOMAIN d.comm, NEW lot \in Lot \cup {Free}
  PROVE  /\ [d EXCEPT !.comm[n] = lot] = PutLot(d, n, lot)
         /\ n \in 1..Len(d.comm) + 1 /\ Len(PutAt(d.comm, n, lot)) = Len(d.comm)
<1>1. n \in 1..Len(d.comm) + 1 /\ ~(n > Len(d.comm))
  BY LotInTable
<1>2. PutAt(d.comm, n, lot) = [d.comm EXCEPT ![n] = lot]
  BY <1>1 DEF PutAt
<1>3. Len(PutLot(d, n, lot).comm) = Len(d.comm) /\ PutLot(d, n, lot).comm = PutAt(d.comm, n, lot)
  BY <1>1, LotIsPut
<1> QED
  BY <1>1, <1>2, <1>3 DEF PutLot, Tables

LEMMA TradeIsChanged ==
  ASSUME NEW d \in Tables, NEW n \in DOMAIN d.trade, NEW t \in Trade \cup {Free}
  PROVE  /\ [d EXCEPT !.trade[n] = t] = PutTrade(d, n, t)
         /\ n \in 1..Len(d.trade) + 1 /\ Len(PutAt(d.trade, n, t)) = Len(d.trade)
<1>1. n \in 1..Len(d.trade) + 1 /\ ~(n > Len(d.trade))
  BY LotInTable
<1>2. PutAt(d.trade, n, t) = [d.trade EXCEPT ![n] = t]
  BY <1>1 DEF PutAt
<1>3. Len(PutTrade(d, n, t).trade) = Len(d.trade) /\ PutTrade(d, n, t).trade = PutAt(d.trade, n, t)
  BY <1>1, TradeIsPut
<1> QED
  BY <1>1, <1>2, <1>3 DEF PutTrade, Tables

\* What a command that stands before a lot remembers of it.
LEMMA CopyIsLot ==
  ASSUME MarketInv, NEW c \in Countries, cmd[c].op \in {"price", "reset", "dest"}, LotOk(c)
  PROVE  /\ db \in Tables /\ cmd[c].lot \in DOMAIN db.comm /\ cmd[c].lot <= MaxLots
         /\ cmd[c].copy \in Lot /\ db.comm[cmd[c].lot] = cmd[c].copy
         /\ cmd[c].op = "dest" => cmd[c].bid \in Prices
<1>1. db \in Tables /\ cmd[c] \in Prompts /\ Len(db.comm) <= MaxLots
  BY DEF MarketInv, TypeOK
<1>2. cmd[c].lot \in DOMAIN db.comm /\ cmd[c].copy \in Lot /\ (cmd[c].op = "dest" => cmd[c].bid \in Prices)
  BY <1>1 DEF Prompts, Idle
<1>3. cmd[c].lot <= MaxLots
  <2>1. MaxLots \in Nat
    BY Constants
  <2> QED
    BY <1>1, <1>2, <2>1, LotInTable
<1> QED
  BY <1>1, <1>2, <1>3 DEF LotOk

\* A lower price is less to owe.
LEMMA ResetPriceKeeps ==
  ASSUME MarketInv, NEW c \in Countries, NEW price \in Prices, ResetPrice(c, price) PROVE MarketInv'
<1> DEFINE n == cmd[c].lot
           lot == [cmd[c].copy EXCEPT !.price = price, !.due = FALSE]
<1>1. /\ db \in Tables /\ n \in DOMAIN db.comm /\ n <= MaxLots
      /\ cmd[c].copy \in Lot /\ db.comm[n] = cmd[c].copy
  BY CopyIsLot DEF ResetPrice
<1>2. lot \in Lot /\ lot.own = cmd[c].copy.own /\ lot.bidder = cmd[c].copy.bidder
      /\ lot.amount = cmd[c].copy.amount /\ lot.price = price
  BY <1>1 DEF Lot
<1>3. lot.price <= cmd[c].copy.price
  <2>1. price \in Nat /\ cmd[c].copy.price \in Nat /\ price < cmd[c].copy.price
    BY <1>1, Constants DEF ResetPrice, Lot
  <2> QED
    BY <1>2, <2>1
<1>4. db' = [db EXCEPT !.comm[n] = lot] /\ cmd' = [cmd EXCEPT ![c] = Idle] /\ UNCHANGED outside
  BY DEF ResetPrice
<1> HIDE DEF n, lot
<1>5. db' = PutLot(db, n, lot) /\ n \in 1..Len(db.comm) + 1
  BY <1>1, <1>2, <1>4, LotIsChanged
<1>6. /\ db' \in Tables /\ db'.comm = PutAt(db.comm, n, lot) /\ db'.money = db.money /\ db'.trade = db.trade
      /\ n \in DOMAIN db'.comm /\ db'.comm[n] = lot
  BY <1>1, <1>2, <1>5, LotIsPut
<1>7. Cost(lot) <= Cost(cmd[c].copy) /\ Cost(lot) \in Nat
  BY <1>1, <1>2, <1>3, LowerCost, CostIsNat
<1>8. \A b \in Countries : LotOwed(db'.comm, b, n) <= LotOwed(db.comm, b, n)
  BY <1>1, <1>2, <1>6, <1>7 DEF LotOwed, Bids
<1> QED
  BY <1>1, <1>2, <1>4, <1>5, <1>6, <1>8, LotWriteKeeps

\* So is a lot that is gone, whatever happens to its goods.
LEMMA LotGoneKeeps ==
  ASSUME MarketInv, NEW c \in Countries, NEW n \in DOMAIN db.comm, n <= MaxLots,
         NEW sects \in [Countries -> Sector], db' = FreeLot([db EXCEPT !.sect = sects], n),
         cmd' = [cmd EXCEPT ![c] = Idle], UNCHANGED outside
  PROVE  MarketInv'
<1>1. db \in Tables
  BY DEF MarketInv, TypeOK
<1> DEFINE d == [db EXCEPT !.sect = sects]
<1>2. d \in Tables /\ d.comm = db.comm /\ d.money = db.money /\ d.trade = db.trade
  BY <1>1 DEF Tables
<1>3. db' = [d EXCEPT !.comm[n] = Free]
  BY DEF FreeLot
<1> HIDE DEF d
<1>4. db' = PutLot(d, n, Free) /\ n \in 1..Len(db.comm) + 1 /\ Free \in Lot \cup {Free}
  BY <1>2, <1>3, LotIsChanged
<1>5. /\ db' \in Tables /\ db'.comm = PutAt(db.comm, n, Free) /\ db'.money = db.money /\ db'.trade = db.trade
      /\ n \in DOMAIN db'.comm /\ db'.comm[n] = Free
      /\ \A b \in Countries : LotOwed(db.comm, b, n) \in Nat
  BY <1>2, <1>4, LotIsPut
<1>6. \A b \in Countries : LotOwed(db'.comm, b, n) <= LotOwed(db.comm, b, n)
  <2> TAKE b \in Countries
  <2>1. LotOwed(db'.comm, b, n) = 0
    BY <1>5, FreeOrNot, NothingForFree
  <2> QED
    BY <1>5, <2>1
<1> QED
  BY <1>4, <1>5, <1>6, LotWriteKeeps

LEMMA WithdrawKeeps ==
  ASSUME MarketInv, NEW c \in Countries, Withdraw(c) PROVE MarketInv'
<1> DEFINE s == cmd[c].copy.from
           m == db.sect[s].items + cmd[c].copy.amount
           k == IF m > ItemMax THEN ItemMax ELSE m
           sects == [db.sect EXCEPT ![s].items = k]
<1>1. /\ db \in Tables /\ cmd[c].lot \in DOMAIN db.comm /\ cmd[c].lot <= MaxLots /\ cmd[c].copy \in Lot
  BY CopyIsLot DEF Withdraw
<1>2. s \in Countries /\ cmd[c].copy.amount \in Nat /\ ItemMax \in Nat /\ db.sect \in [Countries -> Sector]
  BY <1>1, Constants DEF Lot, Tables
<1>3. k \in 0..ItemMax
  <2>1. db.sect[s].items \in Nat
    BY <1>2 DEF Sector
  <2> QED
    BY <1>2, <2>1
<1>4. db' = FreeLot([db EXCEPT !.sect[s].items = k], cmd[c].lot)
      /\ cmd' = [cmd EXCEPT ![c] = Idle] /\ UNCHANGED outside
  BY DEF Withdraw
<1> HIDE DEF k
<1>5. sects \in [Countries -> Sector]
  <2>1. [db.sect[s] EXCEPT !.items = k] \in Sector
    BY <1>2, <1>3 DEF Sector
  <2> QED
    BY <1>2, <2>1
<1>6. [db EXCEPT !.sect[s].items = k] = [db EXCEPT !.sect = sects]
  BY <1>1 DEF Tables
<1> HIDE DEF s, sects
<1> QED
  BY <1>1, <1>4, <1>5, <1>6, LotGoneKeeps

LEMMA DestroyKeeps ==
  ASSUME MarketInv, NEW c \in Countries, Destroy(c) PROVE MarketInv'
<1>1. /\ db \in Tables /\ cmd[c].lot \in DOMAIN db.comm /\ cmd[c].lot <= MaxLots
  BY CopyIsLot DEF Destroy
<1>2. db.sect \in [Countries -> Sector] /\ db = [db EXCEPT !.sect = db.sect]
  BY <1>1 DEF Tables
<1>3. db' = FreeLot(db, cmd[c].lot) /\ cmd' = [cmd EXCEPT ![c] = Idle] /\ UNCHANGED outside
  BY DEF Destroy
<1>4. db' = FreeLot([db EXCEPT !.sect = db.sect], cmd[c].lot)
  BY <1>2, <1>3
<1> QED
  BY <1>1, <1>2, <1>3, <1>4, LotGoneKeeps

LEMMA LotDueKeeps ==
  ASSUME MarketInv, NEW n \in DOMAIN db.comm, LotDue(n) PROVE MarketInv'
<1> DEFINE lot == [db.comm[n] EXCEPT !.due = TRUE]
<1>1. db \in Tables /\ Len(db.comm) <= MaxLots
  BY DEF MarketInv, TypeOK
<1>2. db.comm[n] \in Lot
  BY <1>1, LotInTable DEF LotDue
<1>3. n \in 1..Len(db.comm) + 1 /\ n <= MaxLots
  BY <1>1, LotInTable, Constants
<1>4. lot \in Lot /\ lot.own = db.comm[n].own /\ lot.bidder = db.comm[n].bidder
      /\ lot.amount = db.comm[n].amount /\ lot.price = db.comm[n].price
  BY <1>2 DEF Lot
<1>5. db' = [db EXCEPT !.comm[n] = lot] /\ UNCHANGED <<cmd, outside>>
  BY <1>1 DEF LotDue, Tables
<1> HIDE DEF lot
<1>6. db' = PutLot(db, n, lot)
  BY <1>1, <1>4, <1>5, LotIsChanged
<1>7. /\ db' \in Tables /\ db'.comm = PutAt(db.comm, n, lot) /\ db'.money = db.money /\ db'.trade = db.trade
      /\ n \in DOMAIN db'.comm /\ db'.comm[n] = lot
      /\ \A b \in Countries : LotOwed(db.comm, b, n) \in Nat
  BY <1>1, <1>3, <1>4, <1>6, LotIsPut
<1>8. \A b \in Countries : LotOwed(db'.comm, b, n) = LotOwed(db.comm, b, n)
  BY <1>4, <1>7 DEF LotOwed, Bids, Cost
<1>9. \A b \in Countries : LotOwed(db'.comm, b, n) <= LotOwed(db.comm, b, n)
  BY <1>7, <1>8
<1>10. PICK c \in Countries : TRUE
  BY Constants
<1> QED
  BY <1>3, <1>4, <1>5, <1>7, <1>9, <1>10, LotWriteKeeps

\* After a bid that c can pay for, and a settlement of all that is due.
LEMMA BidKeeps ==
  ASSUME MarketInv, NEW c \in Countries, NEW d \in Tables,
         Len(d.comm) = Len(db.comm), DOMAIN d.trade = DOMAIN db.trade, Len(d.trade) = Len(db.trade),
         \A n \in DOMAIN d.trade : d.trade[n].own # None =>
            db.trade[n].own # None /\ d.trade[n].unit = db.trade[n].unit,
         \A b \in Countries \ {c} : Spare(db, b) <= Spare(d, b),
         TradeTax = 100 => 0 <= Spare(d, c) + outside.spent[c],
         db' \in Tables, SameSize(d, db'), NoLess(d, db'), FewerTrades(d, db'),
         cmd' = [cmd EXCEPT ![c] = Idle], UNCHANGED outside
  PROVE  MarketInv'
<1>1. db \in Tables /\ outside \in [events : Nat, spent : [Countries -> Nat]] /\ outside'.spent = outside.spent
  BY DEF MarketInv, TypeOK
<1>2. Follows(db, db')
  BY <1>1, LotInTable, Constants DEF Follows, SameSize, MarketInv, TypeOK
<1>3. OneLotPerUnit'
  <2>1. \A n \in DOMAIN db'.trade : db'.trade[n].own # None => db'.trade[n] = d.trade[n] /\ n \in DOMAIN d.trade
    BY FreeOrNot DEF SameSize, FewerTrades
  <2> QED
    BY <2>1, OneLotKept DEF MarketInv
<1>4. ASSUME NEW b \in Countries \ {c} PROVE Means(b) <= Means(b)'
  <2>1. Spare(db, b) \in Int /\ Spare(d, b) \in Int /\ Spare(db', b) \in Int
    BY <1>1, SpareIsInt
  <2>2. Spare(db, b) <= Spare(db', b)
    BY <2>1 DEF NoLess
  <2> QED
    BY <1>1, <2>2, MeansKept
<1>5. TradeTax = 100 => 0 <= Means(c)'
  <2>1. Spare(d, c) \in Int /\ Spare(db', c) \in Int /\ outside.spent[c] \in Nat
    BY <1>1, SpareIsInt
  <2>2. Spare(d, c) <= Spare(db', c)
    BY DEF NoLess
  <2> QED
    BY <1>1, <2>1, <2>2 DEF Means
<1>6. Idle \in Prompts' /\ CanPay(Idle, Means(c)')
  BY DEF Prompts, CanPay, Idle
<1> QED
  BY <1>1, <1>2, <1>3, <1>4, <1>5, <1>6, CommandKeeps

\* A bid for goods is placed.
LEMMA BuyPlaceKeeps ==
  ASSUME MarketInv, NEW c \in Countries, NEW s \in Countries, BuyPlace(c, s) PROVE MarketInv'
<1> DEFINE n == cmd[c].lot
           copy == cmd[c].copy
           bid == cmd[c].bid
           lot == [Outbid(copy, c, bid) EXCEPT !.dest = s]
           d == PutLot(db, n, lot)
<1>1. /\ db \in Tables /\ n \in DOMAIN db.comm /\ copy \in Lot /\ db.comm[n] = copy /\ bid \in Prices
  BY CopyIsLot DEF BuyPlace
<1>2. outside.spent[c] \in Nat
  BY DEF MarketInv, TypeOK
<1>3. db' = CheckMarket([db EXCEPT !.comm[n] = lot]) /\ cmd' = [cmd EXCEPT ![c] = Idle] /\ UNCHANGED outside
  BY DEF BuyPlace
<1>4. TradeTax = 100 => 0 <= Means(c) /\ Cost([copy EXCEPT !.price = bid]) <= Means(c)
  BY DEF MarketInv, AllCanPay, CanPay, BuyPlace
<1> HIDE DEF n, copy, bid
<1>5. /\ lot \in Lot /\ lot.bidder = c
      /\ lot.price = [copy EXCEPT !.price = bid].price /\ lot.amount = [copy EXCEPT !.price = bid].amount
      /\ [copy EXCEPT !.price = bid] \in Lot
  BY <1>1 DEF Lot, Outbid
<1>6. Cost(lot) = Cost([copy EXCEPT !.price = bid]) /\ Cost(lot) \in Nat
  BY <1>5, CostIsNat DEF Cost
<1> HIDE DEF lot
<1>7. [db EXCEPT !.comm[n] = lot] = d /\ n \in 1..Len(db.comm) + 1 /\ Len(PutAt(db.comm, n, lot)) = Len(db.comm)
  BY <1>1, <1>5, LotIsChanged
<1>8. /\ d \in Tables /\ d.comm = PutAt(db.comm, n, lot) /\ d.money = db.money /\ d.trade = db.trade
      /\ n \in DOMAIN d.comm /\ d.comm[n] = lot
      /\ \A b \in Countries :
            /\ LotOwed(db.comm, b, n) \in Nat /\ LotOwed(d.comm, b, n) \in Nat
            /\ Owed(d, b) = Owed(db, b) - LotOwed(db.comm, b, n) + LotOwed(d.comm, b, n)
  BY <1>1, <1>5, <1>7, LotIsPut
<1> HIDE DEF d
<1>9. ASSUME NEW b \in Countries \ {c} PROVE Spare(db, b) <= Spare(d, b)
  <2>1. LotOwed(d.comm, b, n) = 0
    BY <1>5, <1>8 DEF LotOwed, Bids
  <2>2. Owed(db, b) \in Nat /\ db.money[b] \in Nat
    BY <1>1, SpareIsInt
  <2> QED
    BY <1>8, <2>1, <2>2 DEF Spare
<1>10. ASSUME TradeTax = 100 PROVE 0 <= Spare(d, c) + outside.spent[c]
  <2>1. LotOwed(d.comm, c, n) <= Cost(lot)
    BY <1>6, <1>8 DEF LotOwed
  <2>2. Owed(db, c) \in Nat /\ db.money[c] \in Nat
    BY <1>1, SpareIsInt
  <2>3. LotOwed(db.comm, c, n) \in Nat /\ LotOwed(d.comm, c, n) \in Nat
        /\ Owed(d, c) = Owed(db, c) - LotOwed(db.comm, c, n) + LotOwed(d.comm, c, n)
    BY <1>8
  <2>4. Cost(lot) <= db.money[c] - Owed(db, c) + outside.spent[c]
    BY <1>4, <1>6, <1>10 DEF Means, Spare
  <2>5. d.money[c] = db.money[c]
    BY <1>8
  <2> QED
    BY <1>2, <1>6, <2>1, <2>2, <2>3, <2>4, <2>5 DEF Spare
<1>11. /\ db' \in Tables /\ SameSize(d, db') /\ NoLess(d, db') /\ db'.trade = d.trade
  BY <1>3, <1>7, <1>8, CheckMarketKeeps
<1>12. FewerTrades(d, db')
  BY <1>11 DEF FewerTrades
<1> QED
  BY <1>3, <1>7, <1>8, <1>9, <1>10, <1>11, <1>12, BidKeeps

\* A bid for a unit is placed.
LEMMA TradeBidKeeps ==
  ASSUME MarketInv, NEW c \in Countries, NEW bid \in Prices, TradeBid(c, bid) PROVE MarketInv'
<1> DEFINE n == cmd[c].lot
           copy == cmd[c].copy
           t == Outbid(copy, c, bid)
           d == PutTrade(db, n, t)
<1>1. /\ db \in Tables /\ n \in DOMAIN db.trade /\ copy \in Trade /\ db.trade[n] = copy /\ cmd[c].can \in Int
  <2>1. db \in Tables /\ cmd[c] \in Prompts
    BY DEF MarketInv, TypeOK
  <2>2. n \in DOMAIN db.trade /\ copy \in Trade /\ cmd[c].can \in Int
    BY <2>1 DEF TradeBid, Prompts, Idle
  <2> QED
    BY <2>1, <2>2 DEF TradeBid, TradeOk
<1>2. outside.spent[c] \in Nat /\ bid \in Nat
  BY Constants DEF MarketInv, TypeOK
<1>3. db' = CheckTrade([db EXCEPT !.trade[n] = t]) /\ cmd' = [cmd EXCEPT ![c] = Idle] /\ UNCHANGED outside
  BY DEF TradeBid
<1>4. TradeTax = 100 => 0 <= Means(c) /\ cmd[c].can <= Means(c)
  BY DEF MarketInv, AllCanPay, CanPay, TradeBid
<1>5. bid <= cmd[c].can
  BY DEF TradeBid
<1> HIDE DEF n, copy
<1>6. t \in Trade /\ t.bidder = c /\ t.price = bid /\ t.own = copy.own /\ t.unit = copy.unit
  BY <1>1 DEF Trade, Outbid
<1> HIDE DEF t
<1>7. [db EXCEPT !.trade[n] = t] = d /\ n \in 1..Len(db.trade) + 1 /\ Len(PutAt(db.trade, n, t)) = Len(db.trade)
  BY <1>1, <1>6, TradeIsChanged
<1>8. /\ d \in Tables /\ d.trade = PutAt(db.trade, n, t) /\ d.money = db.money /\ d.comm = db.comm
      /\ n \in DOMAIN d.trade /\ d.trade[n] = t
      /\ DOMAIN db.trade \ {n} = DOMAIN d.trade \ {n} /\ \A m \in DOMAIN db.trade \ {n} : db.trade[m] = d.trade[m]
      /\ \A b \in Countries :
            /\ UnitOwed(db.trade, b, n) \in Nat /\ UnitOwed(d.trade, b, n) \in Nat
            /\ Owed(d, b) = Owed(db, b) - UnitOwed(db.trade, b, n) + UnitOwed(d.trade, b, n)
  BY <1>1, <1>6, <1>7, TradeIsPut
<1> HIDE DEF d
<1>9. ASSUME NEW b \in Countries \ {c} PROVE Spare(db, b) <= Spare(d, b)
  <2>1. UnitOwed(d.trade, b, n) = 0
    BY <1>6, <1>8 DEF UnitOwed, Bids
  <2>2. Owed(db, b) \in Nat /\ db.money[b] \in Nat
    BY <1>1, SpareIsInt
  <2> QED
    BY <1>8, <2>1, <2>2 DEF Spare
<1>10. ASSUME TradeTax = 100 PROVE 0 <= Spare(d, c) + outside.spent[c]
  <2>1. UnitOwed(d.trade, c, n) <= bid
    BY <1>2, <1>6, <1>8 DEF UnitOwed
  <2>2. Owed(db, c) \in Nat /\ db.money[c] \in Nat
    BY <1>1, SpareIsInt
  <2>3. UnitOwed(db.trade, c, n) \in Nat /\ UnitOwed(d.trade, c, n) \in Nat
        /\ Owed(d, c) = Owed(db, c) - UnitOwed(db.trade, c, n) + UnitOwed(d.trade, c, n)
    BY <1>8
  <2>4. bid <= db.money[c] - Owed(db, c) + outside.spent[c]
    BY <1>1, <1>2, <1>4, <1>5, <1>10, <2>2 DEF Means, Spare
  <2>5. d.money[c] = db.money[c]
    BY <1>8
  <2> QED
    BY <1>2, <2>1, <2>2, <2>3, <2>4, <2>5 DEF Spare
<1>11. /\ db' \in Tables /\ SameSize(d, db') /\ NoLess(d, db') /\ FewerTrades(d, db')
  BY <1>3, <1>7, <1>8, CheckTradeKeeps
<1>12. DOMAIN d.trade = DOMAIN db.trade /\ Len(d.trade) = Len(db.trade) /\ Len(d.comm) = Len(db.comm)
  BY <1>1, <1>7, <1>8
<1>13. \A m \in DOMAIN d.trade : d.trade[m].own # None => db.trade[m].own # None /\ d.trade[m].unit = db.trade[m].unit
  BY <1>1, <1>6, <1>8, <1>12
<1> QED
  BY <1>3, <1>8, <1>9, <1>10, <1>11, <1>12, <1>13, BidKeeps

\* A unit is put on the block or its lot is written, and nobody owes more for it.
LEMMA TradeWriteKeeps ==
  ASSUME MarketInv, NEW c \in Countries, db' \in Tables, NEW t \in Trade \cup {Free},
         NEW n \in 1..Len(db.trade) + 1, n <= MaxTrades,
         db'.trade = PutAt(db.trade, n, t), db'.money = db.money, db'.comm = db.comm,
         cmd' = [cmd EXCEPT ![c] = Idle] \/ cmd' = cmd,
         outside' \in [events : Nat, spent : [Countries -> Nat]], outside'.spent = outside.spent,
         OneLotPerUnit',
         \A b \in Countries : UnitOwed(db'.trade, b, n) <= UnitOwed(db.trade, b, n)
  PROVE  MarketInv'
<1>1. db \in Tables /\ outside \in [events : Nat, spent : [Countries -> Nat]] /\ cmd \in [Countries -> Prompts]
  BY DEF MarketInv, TypeOK
<1>2. Follows(db, db')
  <2>2. Len(db'.trade) = (IF n > Len(db.trade) THEN Len(db.trade) + 1 ELSE Len(db.trade)) /\ Len(db.trade) \in Nat
    <3>1. /\ Len(PutTrade(db, n, t).trade) = (IF n > Len(db.trade) THEN Len(db.trade) + 1 ELSE Len(db.trade))
          /\ PutTrade(db, n, t).trade = PutAt(db.trade, n, t)
      BY <1>1, TradeIsPut
    <3>2. Len(db.trade) \in Nat
      BY <1>1, LotInTable
    <3> QED
      BY <3>1, <3>2
  <2>3. MaxTrades \in Nat /\ Len(db.comm) \in Nat
    BY <1>1, LotInTable, Constants
  <2> QED
    BY <2>2, <2>3 DEF Follows, MarketInv, TypeOK
<1>4. ASSUME NEW b \in Countries PROVE Spare(db, b) <= Spare(db', b)
  <2>1. /\ UnitOwed(db.trade, b, n) \in Nat /\ UnitOwed(PutTrade(db, n, t).trade, b, n) \in Nat
        /\ PutTrade(db, n, t) \in Tables
        /\ PutTrade(db, n, t).trade = PutAt(db.trade, n, t) /\ PutTrade(db, n, t).comm = db.comm
        /\ Owed(PutTrade(db, n, t), b) = Owed(db, b) - UnitOwed(db.trade, b, n) + UnitOwed(PutTrade(db, n, t).trade, b, n)
    BY <1>1, TradeIsPut
  <2>2. Owed(db', b) = Owed(PutTrade(db, n, t), b)
    BY <2>1, OwedInAll
  <2>3. Owed(db, b) \in Nat /\ db.money[b] \in Nat
    BY <1>1, SpareIsInt
  <2>4. UnitOwed(db'.trade, b, n) <= UnitOwed(db.trade, b, n) /\ UnitOwed(db'.trade, b, n) = UnitOwed(PutTrade(db, n, t).trade, b, n)
    BY <2>1
  <2> QED
    BY <2>1, <2>2, <2>3, <2>4 DEF Spare
<1>5. \A b \in Countries : Means(b) <= Means(b)' /\ Means(b) \in Int /\ Means(b)' \in Int
  BY <1>1, <1>4, MeansKept
<1>6. TradeTax = 100 => 0 <= Means(c)'
  BY <1>5 DEF MarketInv, AllCanPay
<1>7. Idle \in Prompts' /\ CanPay(Idle, Means(c)')
  BY DEF Prompts, CanPay, Idle
<1> QED
  BY <1>1, <1>2, <1>5, <1>6, <1>7, CommandKeeps, RestKeeps

\* The lot of a unit that has one is its own.
LEMMA LotForIs ==
  ASSUME TypeOK, NEW u \in Units, LotsFor(u) # {}
  PROVE  /\ LotFor(u) \in DOMAIN db.trade /\ db.trade[LotFor(u)] \in Trade
         /\ db.trade[LotFor(u)].own # None /\ db.trade[LotFor(u)].unit = u
<1>1. db \in Tables
  BY DEF TypeOK
<1>2. DOMAIN db.trade = 1..Len(db.trade) /\ Len(db.trade) \in Nat
  BY <1>1, LotInTable
<1>3. LotsFor(u) \in SUBSET Nat
  BY <1>2 DEF LotsFor, LiveTrades
<1>4. \E n \in LotsFor(u) : \A m \in LotsFor(u) : n <= m
  BY <1>3, LeastNat
<1>5. LotFor(u) \in LotsFor(u)
  BY <1>4 DEF LotFor
<1> QED
  BY <1>1, <1>5, LotInTable DEF LotsFor, LiveTrades

LEMMA TradeSlotIs ==
  ASSUME TypeOK, NEW u \in Units
  PROVE  /\ TradeSlot(u) \in 1..Len(db.trade) + 1
         /\ LotsFor(u) # {} => TradeSlot(u) \in LotsFor(u) /\ TradeSlot(u) \in DOMAIN db.trade
<1>1. db.trade \in Seq(Trade \cup {Free}) /\ db \in Tables
  BY DEF TypeOK, Tables
<1>2. DOMAIN db.trade = 1..Len(db.trade) /\ Len(db.trade) \in Nat
  BY <1>1, LotInTable
<1>3. CASE LotsFor(u) # {}
  BY <1>2, <1>3, LotForIs DEF TradeSlot, LotsFor, LiveTrades
<1>4. CASE LotsFor(u) = {}
  BY <1>1, <1>4, FreeSlotIs DEF TradeSlot
<1> QED
  BY <1>3, <1>4

\* A unit gets its own lot, or a new one if it has none.
LEMMA SetPriceKeeps ==
  ASSUME MarketInv, NEW c \in Countries, NEW price \in Offers, SetPrice(c, price) PROVE MarketInv'
<1> DEFINE u == cmd[c].unit
           n == TradeSlot(u)
           t == [own |-> c, unit |-> u, price |-> price, bidder |-> c, due |-> FALSE]
<1>1. db \in Tables /\ TypeOK /\ cmd[c] \in Prompts /\ outside \in [events : Nat, spent : [Countries -> Nat]]
  BY DEF MarketInv, TypeOK
<1>2. u \in Units /\ t \in Trade /\ t.own = c /\ t.bidder = c /\ t.unit = u
  <2>1. u \in Units /\ price \in Prices
    BY <1>1, Constants DEF SetPrice, Prompts, Idle
  <2> QED
    BY <2>1 DEF Trade
<1>3. /\ n \in 1..Len(db.trade) + 1 /\ n <= MaxTrades
      /\ LotsFor(u) # {} => n \in LotsFor(u)
  BY <1>1, <1>2, TradeSlotIs DEF SetPrice
<1>4. db' = [db EXCEPT !.trade = PutAt(@, n, t)] /\ cmd' = [cmd EXCEPT ![c] = Idle] /\ UNCHANGED outside
  BY DEF SetPrice
<1> HIDE DEF n, t, u
<1>5. db' = PutTrade(db, n, t)
  BY <1>4 DEF PutTrade
<1>6. /\ db' \in Tables /\ db'.trade = PutAt(db.trade, n, t) /\ db'.money = db.money /\ db'.comm = db.comm
      /\ n \in DOMAIN db'.trade /\ db'.trade[n] = t
      /\ DOMAIN db.trade \ {n} = DOMAIN db'.trade \ {n} /\ \A m \in DOMAIN db.trade \ {n} : db.trade[m] = db'.trade[m]
      /\ \A b \in Countries : UnitOwed(db.trade, b, n) \in Nat
  BY <1>1, <1>2, <1>3, <1>5, TradeIsPut
<1>7. ASSUME NEW b \in Countries PROVE UnitOwed(db'.trade, b, n) <= UnitOwed(db.trade, b, n)
  <2>1. UnitOwed(db'.trade, b, n) = 0
    BY <1>2, <1>6 DEF UnitOwed, Bids
  <2> QED
    BY <1>6, <2>1
<1>8. OneLotPerUnit'
  <2>1. ASSUME NEW m \in DOMAIN db'.trade, db'.trade[m].own # None, db'.trade[m].unit = u PROVE m = n
    <3>1. SUFFICES ASSUME m # n PROVE FALSE
      OBVIOUS
    <3>2. m \in LotsFor(u)
      BY <1>6, <2>1, <3>1 DEF LotsFor, LiveTrades
    <3>3. n \in LotsFor(u)
      BY <1>3, <3>2
    <3> QED
      BY <3>1, <3>2, <3>3 DEF MarketInv, OneLotPerUnit, LotsFor
  <2>2. ASSUME NEW m \in DOMAIN db'.trade, NEW k \in DOMAIN db'.trade,
               db'.trade[m].own # None, db'.trade[k].own # None, db'.trade[m].unit = db'.trade[k].unit
        PROVE  m = k
    <3>1. CASE m = n \/ k = n
      BY <1>2, <1>6, <2>1, <2>2, <3>1
    <3>2. CASE m # n /\ k # n
      <4>1. m \in LiveTrades(db) /\ k \in LiveTrades(db) /\ db.trade[m].unit = db.trade[k].unit
        BY <1>6, <2>2, <3>2 DEF LiveTrades
      <4> QED
        BY <4>1 DEF MarketInv, OneLotPerUnit
    <3> QED
      BY <3>1, <3>2
  <2> QED
    BY <2>2 DEF OneLotPerUnit, LiveTrades
<1> QED
  BY <1>1, <1>2, <1>3, <1>4, <1>6, <1>7, <1>8, TradeWriteKeeps

LEMMA SetOffKeeps ==
  ASSUME MarketInv, NEW c \in Countries, SetOff(c) PROVE MarketInv'
<1> DEFINE u == cmd[c].unit
           n == TradeSlot(u)
<1>1. db \in Tables /\ TypeOK /\ cmd[c] \in Prompts /\ outside \in [events : Nat, spent : [Countries -> Nat]]
  BY DEF MarketInv, TypeOK
<1>2. u \in Units
  BY <1>1 DEF SetOff, Prompts, Idle
<1>3. n \in DOMAIN db.trade
  BY <1>1, <1>2, TradeSlotIs DEF SetOff
<1>4. db' = [db EXCEPT !.trade[n] = Free] /\ cmd' = [cmd EXCEPT ![c] = Idle] /\ UNCHANGED outside
  BY DEF SetOff
<1> HIDE DEF u, n
<1>5. Free \in Trade \cup {Free}
  OBVIOUS
<1>6. db' = PutTrade(db, n, Free) /\ n \in 1..Len(db.trade) + 1 /\ n <= MaxTrades
  <2>1. n <= Len(db.trade) /\ Len(db.trade) <= MaxTrades /\ Len(db.trade) \in Nat /\ n \in Nat /\ MaxTrades \in Nat
    BY <1>1, <1>3, LotInTable, Constants DEF TypeOK
  <2> QED
    BY <1>1, <1>3, <1>4, <1>5, <2>1, TradeIsChanged
<1>7. /\ db' \in Tables /\ db'.trade = PutAt(db.trade, n, Free) /\ db'.money = db.money /\ db'.comm = db.comm
      /\ n \in DOMAIN db'.trade /\ db'.trade[n] = Free
      /\ DOMAIN db.trade \ {n} = DOMAIN db'.trade \ {n} /\ \A m \in DOMAIN db.trade \ {n} : db.trade[m] = db'.trade[m]
      /\ \A b \in Countries : UnitOwed(db.trade, b, n) \in Nat
  BY <1>1, <1>5, <1>6, TradeIsPut
<1>8. ASSUME NEW b \in Countries PROVE UnitOwed(db'.trade, b, n) <= UnitOwed(db.trade, b, n)
  <2>1. UnitOwed(db'.trade, b, n) = 0
    BY <1>7, FreeOrNot, NothingForFree
  <2> QED
    BY <1>7, <2>1
<1>9. OneLotPerUnit'
  <2>1. \A m \in DOMAIN db'.trade : db'.trade[m].own # None =>
           m \in DOMAIN db.trade /\ db.trade[m].own # None /\ db'.trade[m].unit = db.trade[m].unit
    BY <1>7, FreeOrNot
  <2> QED
    BY <2>1, OneLotKept DEF MarketInv
<1> QED
  BY <1>1, <1>4, <1>5, <1>6, <1>7, <1>8, <1>9, TradeWriteKeeps

LEMMA TradeDueKeeps ==
  ASSUME MarketInv, NEW n \in DOMAIN db.trade, TradeDue(n) PROVE MarketInv'
<1> DEFINE t == [db.trade[n] EXCEPT !.due = TRUE]
<1>1. db \in Tables /\ TypeOK /\ outside \in [events : Nat, spent : [Countries -> Nat]]
  BY DEF MarketInv, TypeOK
<1>2. db.trade[n] \in Trade
  BY <1>1, LotInTable DEF TradeDue
<1>3. n \in 1..Len(db.trade) + 1 /\ n <= MaxTrades
  BY <1>1, LotInTable, Constants DEF TypeOK
<1>4. t \in Trade /\ t.own = db.trade[n].own /\ t.bidder = db.trade[n].bidder
      /\ t.unit = db.trade[n].unit /\ t.price = db.trade[n].price
  BY <1>2 DEF Trade
<1>5. db' = [db EXCEPT !.trade[n] = t] /\ UNCHANGED <<cmd, outside>>
  BY <1>1 DEF TradeDue, Tables
<1> HIDE DEF t
<1>6. db' = PutTrade(db, n, t)
  BY <1>1, <1>4, <1>5, TradeIsChanged
<1>7. /\ db' \in Tables /\ db'.trade = PutAt(db.trade, n, t) /\ db'.money = db.money /\ db'.comm = db.comm
      /\ n \in DOMAIN db'.trade /\ db'.trade[n] = t
      /\ DOMAIN db.trade \ {n} = DOMAIN db'.trade \ {n} /\ \A m \in DOMAIN db.trade \ {n} : db.trade[m] = db'.trade[m]
      /\ \A b \in Countries : UnitOwed(db.trade, b, n) \in Nat
  BY <1>1, <1>3, <1>4, <1>6, TradeIsPut
<1>8. \A b \in Countries : UnitOwed(db'.trade, b, n) = UnitOwed(db.trade, b, n)
  BY <1>4, <1>7 DEF UnitOwed, Bids
<1>9. \A b \in Countries : UnitOwed(db'.trade, b, n) <= UnitOwed(db.trade, b, n)
  BY <1>7, <1>8
<1>10. OneLotPerUnit'
  <2>1. \A m \in DOMAIN db'.trade : db'.trade[m].own # None =>
           m \in DOMAIN db.trade /\ db.trade[m].own # None /\ db'.trade[m].unit = db.trade[m].unit
    BY <1>4, <1>7
  <2> QED
    BY <2>1, OneLotKept DEF MarketInv
<1>11. PICK c \in Countries : TRUE
  BY Constants
<1> QED
  BY <1>1, <1>3, <1>4, <1>5, <1>7, <1>9, <1>10, <1>11, TradeWriteKeeps

\* The lot of a captured unit becomes its captor's: nobody owes more for it.
LEMMA CaptureKeeps ==
  ASSUME MarketInv, NEW u \in Units, NEW c \in Bidders, Capture(u, c) PROVE MarketInv'
<1>1. db \in Tables /\ TypeOK /\ outside \in [events : Nat, spent : [Countries -> Nat]] /\ c \in Countries
  BY Constants DEF MarketInv, TypeOK
<1> DEFINE trades == IF LotsFor(u) = {} THEN db.trade
                     ELSE [db.trade EXCEPT ![LotFor(u)] = SwitchOwn(db.trade[LotFor(u)], c)]
           d == [db EXCEPT !.unit[u] = c]
<1>2. /\ d \in Tables /\ d.comm = db.comm /\ d.trade = db.trade /\ d.money = db.money
  <2>1. db.unit \in [Units -> Owner] /\ d = [db EXCEPT !.unit = [db.unit EXCEPT ![u] = c]]
    BY <1>1 DEF Tables
  <2>2. [db.unit EXCEPT ![u] = c] \in [Units -> Owner]
    BY <1>1, <2>1 DEF Owner
  <2> QED
    BY <1>1, <2>1, <2>2 DEF Tables
<1>3. db' = [d EXCEPT !.trade = trades]
  <2>1. db' = [db EXCEPT !.unit[u] = c, !.trade = trades]
    BY DEF Capture
  <2> HIDE DEF trades
  <2> QED
    BY <1>1, <2>1 DEF Tables
<1>4. outside' \in [events : Nat, spent : [Countries -> Nat]] /\ outside'.spent = outside.spent /\ cmd' = cmd
  BY <1>1 DEF Capture, Happens
<1>5. CASE LotsFor(u) = {}
  <2>1. db' = d
    BY <1>2, <1>3, <1>5 DEF Tables
  <2>2. Follows(db, db')
    BY <1>1, <1>2, <2>1, LotInTable DEF Follows, TypeOK
  <2>3. OneLotPerUnit'
    BY <1>2, <2>1 DEF MarketInv, OneLotPerUnit, LiveTrades
  <2>4. ASSUME NEW b \in Countries PROVE Means(b) <= Means(b)'
    <3>1. Spare(db', b) = Spare(db, b) /\ Spare(db, b) \in Int
      BY <1>1, <1>2, <2>1, OwedInAll, SpareIsInt DEF Spare
    <3>2. Spare(db, b) <= Spare(db', b)
      BY <3>1
    <3> QED
      BY <1>1, <1>2, <1>4, <2>1, <3>2, MeansKept
  <2> QED
    BY <1>4, <2>2, <2>3, <2>4, RestKeeps
<1>6. CASE LotsFor(u) # {}
  <2> DEFINE n == LotFor(u)
             t == SwitchOwn(db.trade[n], c)
  <2>1. n \in DOMAIN db.trade /\ db.trade[n] \in Trade /\ db.trade[n].own # None
    BY <1>1, <1>6, LotForIs
  <2>2. trades = [db.trade EXCEPT ![n] = t]
    BY <1>6
  <2> HIDE DEF n
  <2>3. t \in Trade /\ t.own = c /\ t.unit = db.trade[n].unit /\ t.price = db.trade[n].price
        /\ t.bidder = (IF db.trade[n].bidder = db.trade[n].own THEN c ELSE db.trade[n].bidder)
    BY <1>1, <2>1 DEF SwitchOwn, Trade
  <2> HIDE DEF t
  <2>4. db' = [d EXCEPT !.trade[n] = t]
    BY <1>2, <1>3, <2>2 DEF Tables
  <2> HIDE DEF d, trades
  <2>5. db' = PutTrade(d, n, t) /\ n \in 1..Len(db.trade) + 1
    BY <1>2, <2>1, <2>3, <2>4, TradeIsChanged
  <2>6. /\ db' \in Tables /\ db'.trade = PutAt(db.trade, n, t) /\ db'.money = db.money /\ db'.comm = db.comm
        /\ n \in DOMAIN db'.trade /\ db'.trade[n] = t
        /\ DOMAIN db.trade \ {n} = DOMAIN db'.trade \ {n} /\ \A m \in DOMAIN db.trade \ {n} : db.trade[m] = db'.trade[m]
        /\ \A b \in Countries : UnitOwed(db.trade, b, n) \in Nat
    BY <1>2, <2>3, <2>5, TradeIsPut
  <2>7. ASSUME NEW b \in Countries PROVE UnitOwed(db'.trade, b, n) <= UnitOwed(db.trade, b, n)
    <3>1. n \in Bids(db'.trade, b) => n \in Bids(db.trade, b)
      BY <2>1, <2>3, <2>6 DEF Bids
    <3>2. UnitOwed(db'.trade, b, n) = UnitOwed(db.trade, b, n) \/ UnitOwed(db'.trade, b, n) = 0
      BY <2>3, <2>6, <3>1 DEF UnitOwed
    <3> QED
      BY <2>6, <3>2
  <2>8. OneLotPerUnit'
    <3>1. \A m \in DOMAIN db'.trade : db'.trade[m].own # None =>
             m \in DOMAIN db.trade /\ db.trade[m].own # None /\ db'.trade[m].unit = db.trade[m].unit
      BY <2>1, <2>3, <2>6
    <3> QED
      BY <3>1, OneLotKept DEF MarketInv
  <2>9. n <= MaxTrades
    BY <1>1, <2>1, LotInTable, Constants DEF TypeOK
  <2> QED
    BY <1>1, <1>4, <2>3, <2>5, <2>6, <2>7, <2>8, <2>9, TradeWriteKeeps
<1> QED
  BY <1>5, <1>6

-----------------------------------------------------------------------------
(* Settling all, and what else happens. *)

\* Whatever is done by check_market() and check_trade(), nobody loses by it.
LEMMA CheckKeeps ==
  ASSUME MarketInv, Check PROVE MarketInv'
<1> DEFINE d == CheckMarket(db)
<1>1. db \in Tables /\ outside \in [events : Nat, spent : [Countries -> Nat]]
  BY DEF MarketInv, TypeOK
<1>2. d \in Tables /\ SameSize(db, d) /\ NoLess(db, d) /\ d.trade = db.trade
  BY <1>1, CheckMarketKeeps
<1>3. db' = CheckTrade(d) /\ UNCHANGED <<cmd, outside>>
  BY DEF Check
<1> HIDE DEF d
<1>4. db' \in Tables /\ SameSize(d, db') /\ NoLess(d, db') /\ FewerTrades(d, db')
  BY <1>2, <1>3, CheckTradeKeeps
<1>5. SameSize(db, db') /\ NoLess(db, db')
  BY <1>1, <1>2, <1>4, Chained
<1>6. Follows(db, db')
  BY <1>1, <1>4, <1>5, LotInTable DEF Follows, SameSize, MarketInv, TypeOK
<1>7. OneLotPerUnit'
  <2>1. \A n \in DOMAIN db'.trade : db'.trade[n].own # None => db'.trade[n] = db.trade[n] /\ n \in DOMAIN db.trade
    BY <1>2, <1>4, <1>5, FreeOrNot DEF SameSize, FewerTrades
  <2> QED
    BY <2>1, OneLotKept DEF MarketInv
<1>8. \A b \in Countries : Means(b) <= Means(b)'
  BY <1>1, <1>3, <1>4, <1>5, MeansKept DEF NoLess
<1> QED
  BY <1>1, <1>3, <1>6, <1>7, <1>8, RestKeeps

\* What happens to sectors and units takes nothing from a country's means.
LEMMA ElseKeeps ==
  ASSUME MarketInv, db' \in Tables, db'.comm = db.comm, db'.trade = db.trade, db'.money = db.money,
         UNCHANGED cmd,
         outside' \in [events : Nat, spent : [Countries -> Nat]], outside'.spent = outside.spent
  PROVE  MarketInv'
<1>1. db \in Tables /\ outside \in [events : Nat, spent : [Countries -> Nat]]
  BY DEF MarketInv, TypeOK
<1>2. Follows(db, db')
  BY <1>1, LotInTable DEF Follows, MarketInv, TypeOK
<1>3. OneLotPerUnit'
  BY DEF MarketInv, OneLotPerUnit, LiveTrades
<1>4. ASSUME NEW b \in Countries PROVE Means(b) <= Means(b)'
  <2>1. Spare(db', b) = Spare(db, b) /\ Spare(db, b) \in Int
    BY <1>1, OwedInAll, SpareIsInt DEF Spare
  <2>2. Spare(db, b) <= Spare(db', b)
    BY <2>1
  <2> QED
    BY <1>1, <2>2, MeansKept
<1> QED
  BY <1>2, <1>3, <1>4, RestKeeps

LEMMA SpendKeeps ==
  ASSUME MarketInv, NEW c \in Countries, NEW sum \in Offers, Spend(c, sum) PROVE MarketInv'
<1>1. db \in Tables /\ outside \in [events : Nat, spent : [Countries -> Nat]] /\ sum \in Nat
  BY Constants DEF MarketInv, TypeOK
<1>2. /\ db' = [db EXCEPT !.money[c] = @ - sum] /\ sum <= db.money[c] /\ cmd' = cmd
      /\ outside' = [events |-> outside.events + 1, spent |-> [outside.spent EXCEPT ![c] = @ + sum]]
  BY DEF Spend
<1>3. db.money \in [Countries -> Nat] /\ outside.spent \in [Countries -> Nat]
  BY <1>1 DEF Tables
<1>4. [db.money EXCEPT ![c] = @ - sum] \in [Countries -> Nat]
  BY <1>1, <1>2, <1>3
<1>5. db' = [db EXCEPT !.money = [db.money EXCEPT ![c] = @ - sum]]
  BY <1>1, <1>2 DEF Tables
<1>6. db' \in Tables /\ db'.comm = db.comm /\ db'.trade = db.trade /\ db'.money = [db.money EXCEPT ![c] = @ - sum]
  BY <1>1, <1>4, <1>5 DEF Tables
<1>7. outside' \in [events : Nat, spent : [Countries -> Nat]]
      /\ outside'.spent = [outside.spent EXCEPT ![c] = @ + sum]
  BY <1>1, <1>2, <1>3
<1>8. Follows(db, db')
  BY <1>1, <1>6, LotInTable DEF Follows, MarketInv, TypeOK
<1>9. OneLotPerUnit'
  BY <1>6 DEF MarketInv, OneLotPerUnit, LiveTrades
<1>10. ASSUME NEW b \in Countries PROVE Means(b) <= Means(b)'
  <2>1. Owed(db', b) = Owed(db, b) /\ Owed(db, b) \in Nat /\ db.money[b] \in Nat /\ outside.spent[b] \in Nat
    BY <1>1, <1>3, <1>6, OwedInAll
  <2>2. db'.money[b] + outside'.spent[b] = db.money[b] + outside.spent[b] /\ db'.money[b] \in Int /\ outside'.spent[b] \in Int
    BY <1>1, <1>3, <1>6, <1>7
  <2> QED
    BY <2>1, <2>2 DEF Means, Spare
<1> QED
  BY <1>2, <1>7, <1>8, <1>9, <1>10, RestKeeps

\* A sector is written.
LEMMA SectorKeeps ==
  ASSUME MarketInv, NEW s \in Countries, NEW sect \in Sector, db' = [db EXCEPT !.sect[s] = sect], UNCHANGED cmd,
         outside' \in [events : Nat, spent : [Countries -> Nat]], outside'.spent = outside.spent
  PROVE  MarketInv'
<1>1. db \in Tables /\ db.sect \in [Countries -> Sector]
  BY DEF MarketInv, TypeOK, Tables
<1>2. db' = [db EXCEPT !.sect = [db.sect EXCEPT ![s] = sect]] /\ [db.sect EXCEPT ![s] = sect] \in [Countries -> Sector]
  BY <1>1 DEF Tables
<1>3. db' \in Tables /\ db'.comm = db.comm /\ db'.trade = db.trade /\ db'.money = db.money
  BY <1>1, <1>2 DEF Tables
<1> QED
  BY <1>3, ElseKeeps

\* The rest of the game.
LEMMA SectorsKeep ==
  ASSUME MarketInv, NEW s \in Countries,
         Designate(s) \/ Restore(s) \/ Produce(s) \/ \E c \in Bidders : Conquer(s, c)
  PROVE  MarketInv'
<1>1. db \in Tables /\ outside \in [events : Nat, spent : [Countries -> Nat]]
  BY DEF MarketInv, TypeOK
<1>2. db.sect \in [Countries -> Sector] /\ db.sect[s] \in Sector
  BY <1>1 DEF Tables
<1>3. /\ UNCHANGED cmd
      /\ outside' \in [events : Nat, spent : [Countries -> Nat]] /\ outside'.spent = outside.spent
  BY <1>1 DEF Designate, Restore, Produce, Conquer, Happens
<1>4. ASSUME Designate(s) PROVE MarketInv'
  <2> DEFINE sect == [db.sect[s] EXCEPT !.kind = "other"]
  <2>1. sect \in Sector
    BY <1>2 DEF Sector
  <2>2. db' = [db EXCEPT !.sect[s] = sect]
    BY <1>1, <1>2, <1>4 DEF Designate, Tables
  <2> HIDE DEF sect
  <2> QED
    BY <1>3, <2>1, <2>2, SectorKeeps
<1>5. ASSUME Restore(s) PROVE MarketInv'
  <2> DEFINE sect == [db.sect[s] EXCEPT !.kind = IF @ = "other" THEN "unfinished" ELSE "warehouse"]
  <2>1. sect \in Sector
    BY <1>2 DEF Sector
  <2>2. db' = [db EXCEPT !.sect[s] = sect]
    BY <1>1, <1>2, <1>5 DEF Restore, Tables
  <2> HIDE DEF sect
  <2> QED
    BY <1>3, <2>1, <2>2, SectorKeeps
<1>6. ASSUME Produce(s) PROVE MarketInv'
  <2> DEFINE sect == [db.sect[s] EXCEPT !.items = @ + 1]
  <2>1. sect \in Sector
    BY <1>2, <1>6, Constants DEF Sector, Produce
  <2>2. db' = [db EXCEPT !.sect[s] = sect]
    BY <1>1, <1>2, <1>6 DEF Produce, Tables
  <2> HIDE DEF sect
  <2> QED
    BY <1>3, <2>1, <2>2, SectorKeeps
<1>7. ASSUME NEW c \in Bidders, Conquer(s, c) PROVE MarketInv'
  <2> DEFINE sect == [db.sect[s] EXCEPT !.own = c]
  <2>1. sect \in Sector
    BY <1>2, Constants DEF Sector
  <2>2. db' = [db EXCEPT !.sect[s] = sect]
    BY <1>1, <1>2, <1>7 DEF Conquer, Tables
  <2> HIDE DEF sect
  <2> QED
    BY <1>3, <2>1, <2>2, SectorKeeps
<1> QED
  BY <1>4, <1>5, <1>6, <1>7

LEMMA SinkKeeps ==
  ASSUME MarketInv, NEW u \in Units, Sink(u) PROVE MarketInv'
<1>1. db \in Tables /\ outside \in [events : Nat, spent : [Countries -> Nat]] /\ db.unit \in [Units -> Owner]
  BY DEF MarketInv, TypeOK, Tables
<1>2. /\ db' = [db EXCEPT !.unit = [db.unit EXCEPT ![u] = None]] /\ cmd' = cmd
      /\ outside' \in [events : Nat, spent : [Countries -> Nat]] /\ outside'.spent = outside.spent
  <2>1. db' = [db EXCEPT !.unit = [db.unit EXCEPT ![u] = None]]
    BY <1>1 DEF Sink, Tables
  <2> QED
    BY <1>1, <2>1 DEF Sink, Happens
<1>3. [db.unit EXCEPT ![u] = None] \in [Units -> Owner]
  BY <1>1 DEF Owner
<1>4. db' \in Tables /\ db'.comm = db.comm /\ db'.trade = db.trade /\ db'.money = db.money
  BY <1>1, <1>2, <1>3 DEF Tables
<1> QED
  BY <1>2, <1>4, ElseKeeps

-----------------------------------------------------------------------------
(* The theorems. *)

LEMMA MarketInit == Init => MarketInv
<1> SUFFICES ASSUME Init PROVE MarketInv
  OBVIOUS
<1>1. /\ db = [money |-> [c \in Countries |-> Money0],
               sect  |-> [s \in Countries |-> [own |-> s, kind |-> "warehouse", items |-> Items0]],
               unit  |-> [u \in Units |-> CHOOSE c \in Sellers : TRUE],
               comm  |-> <<>>, trade |-> <<>>]
      /\ cmd = [c \in Countries |-> Idle]
      /\ outside = [events |-> 0, spent |-> [c \in Countries |-> 0]]
  BY DEF Init
<1>2. (CHOOSE c \in Sellers : TRUE) \in Countries
  BY Constants
<1>3. <<>> \in CommTable /\ <<>> \in TradeTable /\ Len(<<>>) = 0 /\ DOMAIN <<>> = {}
  BY DEF CommTable, TradeTable
<1>4. db \in Tables
  BY <1>1, <1>2, <1>3, Constants DEF Tables, Sector, Owner, CommTable, TradeTable
<1>5. TypeOK
  BY <1>1, <1>3, <1>4, Constants DEF TypeOK, Prompts
<1>6. OneLotPerUnit
  BY <1>1, <1>3 DEF OneLotPerUnit, LiveTrades
<1>7. ASSUME NEW c \in Countries PROVE 0 <= Means(c) /\ CanPay(cmd[c], Means(c))
  <2>1. Bids(db.comm, c) = {} /\ Bids(db.trade, c) = {}
    BY <1>1, <1>3 DEF Bids
  <2>2. LotsOwed(db.comm, c) = 0 /\ UnitsOwed(db.trade, c) = 0
    BY <2>1, SumOfNone DEF LotsOwed, UnitsOwed
  <2>3. Owed(db, c) = 0
    BY <1>4, <2>2, OwedInAll
  <2>4. db.money[c] = Money0 /\ outside.spent[c] = 0 /\ cmd[c] = Idle
    BY <1>1
  <2> QED
    BY <2>3, <2>4, Constants DEF Means, Spare, CanPay, Idle
<1> QED
  BY <1>5, <1>6, <1>7 DEF MarketInv, AllCanPay

LEMMA MarketStep == MarketInv /\ [Next]_vars => MarketInv'
<1> SUFFICES ASSUME MarketInv, [Next]_vars PROVE MarketInv'
  OBVIOUS
<1>0. Bidders \subseteq Countries
  BY Constants
<1>1. ASSUME NEW c \in Countries, Goods(c) PROVE MarketInv'
  BY <1>1, BuyLookKeeps, ResetLookKeeps, BuyBidKeeps, ResetPriceKeeps, BuyPlaceKeeps, SellLookKeeps,
     SellPostKeeps, WithdrawKeeps, DestroyKeeps DEF Goods
<1>2. ASSUME NEW c \in Countries, Block(c) PROVE MarketInv'
  BY <1>2, SetLookKeeps, SetPriceKeeps, TradeBidKeeps, SetOffKeeps, TradeLookKeeps DEF Block
<1>3. ASSUME NEW c \in Countries, GiveUp(c) PROVE MarketInv'
  BY <1>3, GiveUpKeeps
<1>4. CASE Check
  BY <1>4, CheckKeeps
<1>5. CASE Time
  BY <1>5, LotDueKeeps, TradeDueKeeps DEF Time
<1>6. CASE Rest
  BY <1>6, SpendKeeps, SectorsKeep, SinkKeeps, CaptureKeeps, Constants DEF Rest
<1>7. CASE UNCHANGED vars
  <2>1. db' = db /\ cmd' = cmd /\ outside' = outside
    BY <1>7 DEF vars
  <2> QED
    BY <2>1, ElseKeeps DEF MarketInv, TypeOK
<1> QED
  BY <1>1, <1>2, <1>3, <1>4, <1>5, <1>6, <1>7 DEF Next

\* The state of the market is well formed, no unit is on the block twice, and
\* what commands mean to bid next can be paid: what follows from every step of
\* every player, of the market thread and of the rest of the game.
THEOREM MarketInvariance == Spec => []MarketInv
<1>1. Init => MarketInv
  BY MarketInit
<1>2. MarketInv /\ [Next]_vars => MarketInv'
  BY MarketStep
<1> QED
  BY <1>1, <1>2, PTL DEF Spec

\* A unit is sold once, and countries can pay for all they have bid for unless
\* they spend their money on something else, if the seller of a unit gets all
\* that its buyer pays.
THEOREM BooksAreInOrder == TradeTax = 100 => (Spec => []BooksInOrder)
<1> SUFFICES ASSUME TradeTax = 100 PROVE Spec => []BooksInOrder
  OBVIOUS
<1>1. MarketInv => BooksInOrder
  <2> SUFFICES ASSUME MarketInv PROVE BooksInOrder
    OBVIOUS
  <2>1. ASSUME NEW c \in Countries PROVE Owed(db, c) <= db.money[c] + outside.spent[c]
    <3>1. 0 <= Means(c) /\ db \in Tables /\ outside.spent[c] \in Nat
      BY DEF MarketInv, AllCanPay, TypeOK
    <3>2. db.money[c] \in Nat /\ Owed(db, c) \in Nat
      BY <3>1, SpareIsInt
    <3> QED
      BY <3>1, <3>2 DEF Means, Spare
  <2> QED
    BY <2>1 DEF BooksInOrder, MarketInv, Solvent
<1> QED
  BY <1>1, MarketInvariance, PTL

\* Whatever the tax, the tables of the market stay well formed and no unit is
\* on the trading block twice.
THEOREM UnitsAreSoldOnce == Spec => [](TypeOK /\ OneLotPerUnit)
<1>1. MarketInv => TypeOK /\ OneLotPerUnit
  BY DEF MarketInv
<1> QED
  BY <1>1, MarketInvariance, PTL

-----------------------------------------------------------------------------
(* What a settlement moves. *)

\* What adds up for c over the lots of a set.
SumFor(L, who, what, c) == SumFunction([n \in {n \in L : who[n] = c} |-> what[n]])

\* Lot x is added to those of L.
Another(L, x, what) == IsFiniteSet(L) /\ x \notin L /\ \A n \in L \cup {x} : what[n] \in Int
AddsTo(L, x, who, what, c) ==
  /\ SumFor(L, who, what, c) \in Int /\ SumFor(L \cup {x}, who, what, c) \in Int
  /\ SumFor(L \cup {x}, who, what, c) = SumFor(L, who, what, c) + (IF who[x] = c THEN what[x] ELSE 0)

\* It adds to one country's sum.
LEMMA SumForMore ==
  ASSUME NEW L, NEW x, NEW who, NEW what, NEW c, Another(L, x, what)
  PROVE  AddsTo(L, x, who, what, c)
<1> DEFINE S == {n \in L : who[n] = c}
           T == {n \in L \cup {x} : who[n] = c}
           f == [n \in S |-> what[n]]
           g == [n \in T |-> what[n]]
<1>0. IsFiniteSet(L) /\ x \notin L /\ \A n \in L \cup {x} : what[n] \in Int
  BY DEF Another
<1>1. IsFiniteSet(S)
  BY <1>0, FS_Subset
<1>2. T = IF who[x] = c THEN S \cup {x} ELSE S
  OBVIOUS
<1>3. IsFiniteSet(T)
  <2>1. IsFiniteSet(S \cup {x})
    <3> HIDE DEF S
    <3> QED
      BY <1>1, FS_AddElement
  <2> QED
    BY <1>1, <1>2, <2>1
<1>4. /\ DOMAIN f = S /\ DOMAIN g = T /\ x \notin S /\ S \ {x} = T \ {x} /\ (x \in T <=> who[x] = c)
      /\ \A n \in S : f[n] = what[n] /\ f[n] \in Int
      /\ \A n \in T : g[n] = what[n] /\ g[n] \in Int
  BY <1>0
<1>5. SumFor(L, who, what, c) = SumFunction(f) /\ SumFor(L \cup {x}, who, what, c) = SumFunction(g)
  BY DEF SumFor
<1> HIDE DEF f, g, S, T
<1>6. \A n \in DOMAIN f \ {x} : f[n] = g[n]
  BY <1>4
<1>7. /\ SumFunction(f) \in Int /\ SumFunction(g) \in Int
      /\ SumFunction(g) = SumFunction(f) - (IF x \in DOMAIN f THEN f[x] ELSE 0)
                                         + (IF x \in DOMAIN g THEN g[x] ELSE 0)
  BY <1>1, <1>3, <1>4, <1>6, SumDiffersAt
<1> QED
  BY <1>4, <1>5, <1>7 DEF AddsTo

\* No lots add up to nothing.
LEMMA SumForNone ==
  ASSUME NEW who, NEW what, NEW c
  PROVE  SumFor({}, who, what, c) = 0
<1>1. DOMAIN [n \in {n \in {} : who[n] = c} |-> what[n]] = {}
  OBVIOUS
<1> QED
  BY <1>1, SumOfNone DEF SumFor

\* What is in the sectors, and what is in the lots.
Stored(d)     == SumFunction([s \in Countries |-> d.sect[s].items])
Offered(lots) == SumFunction([n \in {n \in DOMAIN lots : lots[n].own # None} |-> lots[n].amount])
OnLot(lots, n) == IF n \in DOMAIN lots /\ lots[n].own # None THEN lots[n].amount ELSE 0

\* All goods are in the one or in the other.
LEMMA GoodsAre ==
  ASSUME NEW d
  PROVE  GoodsIn(d) = Stored(d) + Offered(d.comm)
BY DEF GoodsIn, Stored, Offered, LiveLots

\* Where one sector changes, so does what is stored.
LEMMA StoredChange ==
  ASSUME NEW d \in Tables, NEW e \in Tables, NEW x \in Countries,
         \A s \in Countries \ {x} : d.sect[s].items = e.sect[s].items
  PROVE  /\ Stored(d) \in Int /\ Stored(e) \in Int /\ d.sect[x].items \in Nat /\ e.sect[x].items \in Nat
         /\ Stored(e) = Stored(d) - d.sect[x].items + e.sect[x].items
<1> DEFINE f == [s \in Countries |-> d.sect[s].items]
           g == [s \in Countries |-> e.sect[s].items]
<1>1. \A s \in Countries : d.sect[s] \in Sector /\ e.sect[s] \in Sector
  BY DEF Tables
<1>2. \A s \in Countries : d.sect[s].items \in Nat /\ e.sect[s].items \in Nat
  BY <1>1, Constants DEF Sector
<1>3. /\ DOMAIN f = Countries /\ DOMAIN g = Countries /\ f[x] = d.sect[x].items /\ g[x] = e.sect[x].items
      /\ \A s \in Countries : f[s] \in Int
      /\ \A s \in Countries : g[s] \in Int
      /\ \A s \in Countries \ {x} : f[s] = g[s]
  BY <1>2
<1>4. Stored(d) = SumFunction(f) /\ Stored(e) = SumFunction(g)
  BY DEF Stored
<1> HIDE DEF f, g
<1>5. /\ SumFunction(f) \in Int /\ SumFunction(g) \in Int
      /\ SumFunction(g) = SumFunction(f) - (IF x \in DOMAIN f THEN f[x] ELSE 0)
                                         + (IF x \in DOMAIN g THEN g[x] ELSE 0)
  BY <1>3, Constants, SumDiffersAt
<1> QED
  BY <1>2, <1>3, <1>4, <1>5

\* Where one lot changes, so does what is offered.
LEMMA OfferedChange ==
  ASSUME NEW lots \in CommTable, NEW els \in CommTable, NEW n,
         DOMAIN lots \ {n} = DOMAIN els \ {n}, \A m \in DOMAIN lots \ {n} : lots[m] = els[m]
  PROVE  /\ Offered(lots) \in Int /\ Offered(els) \in Int
         /\ OnLot(lots, n) \in Nat /\ OnLot(els, n) \in Nat
         /\ Offered(els) = Offered(lots) - OnLot(lots, n) + OnLot(els, n)
<1> DEFINE Live(t) == {m \in DOMAIN t : t[m].own # None}
           f == [m \in Live(lots) |-> lots[m].amount]
           g == [m \in Live(els) |-> els[m].amount]
<1>1. IsFiniteSet(DOMAIN lots) /\ IsFiniteSet(DOMAIN els)
  BY BidsAreFinite DEF CommTable
<1>2. Live(lots) \subseteq DOMAIN lots /\ Live(els) \subseteq DOMAIN els
  OBVIOUS
<1>3. IsFiniteSet(Live(lots)) /\ IsFiniteSet(Live(els))
  BY <1>1, <1>2, FS_Subset
<1>4. ASSUME NEW t \in CommTable, NEW m \in Live(t) PROVE t[m].amount \in Nat
  <2>1. m \in 1..Len(t)
    BY LenProperties DEF CommTable
  <2>2. t[m] \in Lot \cup {Free}
    BY <2>1, ElementOfSeq DEF CommTable
  <2>3. t[m] \in Lot
    BY <2>2, FreeOrNot
  <2> QED
    BY <2>3, Constants DEF Lot
<1>5. /\ DOMAIN f = Live(lots) /\ DOMAIN g = Live(els)
      /\ \A m \in Live(lots) : f[m] = lots[m].amount /\ f[m] \in Nat
      /\ \A m \in Live(els) : g[m] = els[m].amount /\ g[m] \in Nat
  BY <1>4
<1>6. Live(lots) \ {n} = Live(els) \ {n} /\ \A m \in Live(lots) \ {n} : f[m] = g[m]
  OBVIOUS
<1>7. Offered(lots) = SumFunction(f) /\ Offered(els) = SumFunction(g)
  BY DEF Offered
<1>8. /\ OnLot(lots, n) = IF n \in Live(lots) THEN f[n] ELSE 0
      /\ OnLot(els, n) = IF n \in Live(els) THEN g[n] ELSE 0
  BY DEF OnLot
<1> HIDE DEF f, g, Live
<1>9. /\ SumFunction(f) \in Int /\ SumFunction(g) \in Int
      /\ SumFunction(g) = SumFunction(f) - (IF n \in DOMAIN f THEN f[n] ELSE 0)
                                         + (IF n \in DOMAIN g THEN g[n] ELSE 0)
  <2>1. /\ \A m \in DOMAIN f : f[m] \in Int
        /\ \A m \in DOMAIN g : g[m] \in Int
    BY <1>5
  <2>2. DOMAIN f \ {n} = DOMAIN g \ {n} /\ \A m \in DOMAIN f \ {n} : f[m] = g[m]
    BY <1>5, <1>6
  <2> QED
    BY <1>3, <1>5, <2>1, <2>2, SumDiffersAt
<1> QED
  BY <1>5, <1>7, <1>8, <1>9

\* Where one country's money changes, so does all the money.
LEMMA FundsChange ==
  ASSUME NEW m \in [Countries -> Int], NEW k \in [Countries -> Int], NEW x \in Countries,
         \A c \in Countries \ {x} : m[c] = k[c]
  PROVE  SumFunction(m) \in Int /\ SumFunction(k) \in Int /\ SumFunction(k) = SumFunction(m) - m[x] + k[x]
<1>1. DOMAIN m = Countries /\ DOMAIN k = Countries /\ IsFiniteSet(Countries)
  BY Constants
<1>2. \A c \in Countries : m[c] \in Int /\ k[c] \in Int
  OBVIOUS
<1>3. /\ SumFunction(m) \in Int /\ SumFunction(k) \in Int
      /\ SumFunction(k) = SumFunction(m) - (IF x \in DOMAIN m THEN m[x] ELSE 0)
                                         + (IF x \in DOMAIN k THEN k[x] ELSE 0)
  BY <1>1, <1>2, SumDiffersAt
<1> QED
  BY <1>1, <1>2, <1>3

\* One country pays another.
LEMMA Payment ==
  ASSUME NEW m \in [Countries -> Nat], NEW a \in Countries, NEW b \in Countries, a # b,
         NEW x \in Nat, NEW y \in Nat
  PROVE  LET k == [m EXCEPT ![a] = @ - x, ![b] = @ + y] IN
         /\ SumFunction(k) \in Int /\ SumFunction(m) \in Int
         /\ SumFunction(k) = SumFunction(m) - x + y
<1> DEFINE h == [m EXCEPT ![a] = @ - x]
           k == [m EXCEPT ![a] = @ - x, ![b] = @ + y]
<1>1. m \in [Countries -> Int] /\ h \in [Countries -> Int] /\ k \in [Countries -> Int]
  OBVIOUS
<1>2. /\ \A c \in Countries \ {a} : m[c] = h[c]
      /\ \A c \in Countries \ {b} : h[c] = k[c]
      /\ h[a] = m[a] - x /\ k[b] = h[b] + y
  OBVIOUS
<1> HIDE DEF h, k
<1>3. SumFunction(m) \in Int /\ SumFunction(h) \in Int /\ SumFunction(h) = SumFunction(m) - m[a] + h[a]
  BY <1>1, <1>2, FundsChange
<1>4. SumFunction(k) \in Int /\ SumFunction(k) = SumFunction(h) - h[b] + k[b]
  BY <1>1, <1>2, FundsChange
<1>5. m[a] \in Int /\ h[a] \in Int /\ h[b] \in Int /\ k[b] \in Int
  BY <1>1
<1>6. SumFunction(k) = SumFunction(m) - x + y
  BY <1>2, <1>3, <1>4, <1>5
<1> QED
  BY <1>3, <1>4, <1>6 DEF k

\* The columns of a table.
OwnersOf(t)  == [n \in DOMAIN t |-> t[n].own]
BiddersOf(t) == [n \in DOMAIN t |-> t[n].bidder]
DestsOf(t)   == [n \in DOMAIN t |-> t[n].dest]
AmountsOf(t) == [n \in DOMAIN t |-> t[n].amount]
CostsOf(t)   == [n \in DOMAIN t |-> Cost(t[n])]
GainsOf(t)   == [n \in DOMAIN t |-> Gain(t[n])]

\* From d to e the lots of L were sold, and perhaps others went unsold.
LotsSettled(d, e, L) ==
  /\ L \subseteq Gone(d.comm, e.comm)
  /\ \A n \in DOMAIN d.comm : \/ e.comm[n] = d.comm[n]
                              \/ e.comm[n] = Free /\ d.comm[n].own # None /\ ~Awaits(d.comm[n])
  /\ \A c \in Countries :
        e.money[c] = d.money[c] + SumFor(L, OwnersOf(d.comm), GainsOf(d.comm), c)
                                - SumFor(L, BiddersOf(d.comm), CostsOf(d.comm), c)
  /\ \A s \in Countries :
        e.sect[s].items = d.sect[s].items + SumFor(L, DestsOf(d.comm), AmountsOf(d.comm), s)
  /\ GoodsIn(e) <= GoodsIn(d) /\ (GoodsIn(e) = GoodsIn(d) \/ Gone(d.comm, e.comm) # {})
  /\ BuyTax >= 100 => MoneyIn(e) <= MoneyIn(d)

\* With a tax that adds to the price nobody gets more than is paid.
LEMMA GainIsPaid ==
  ASSUME NEW lot \in Lot, BuyTax >= 100
  PROVE  Gain(lot) <= Cost(lot)
<1>1. \A x, k \in Nat : x <= (x * 100 + x * k) \div 100
  <2>1. \A x, y \in Nat : x <= (x * 100 + y) \div 100
    OBVIOUS
  <2>2. \A x, k \in Nat : x * k \in Nat
    OBVIOUS
  <2> QED
    BY <2>1, <2>2
<1>2. Gain(lot) \in Nat /\ BuyTax - 100 \in Nat
  BY CostIsNat, Constants
<1>3. \A x \in Nat : \A t \in Int : x * t = x * 100 + x * (t - 100)
  OBVIOUS
<1>4. Gain(lot) * BuyTax = Gain(lot) * 100 + Gain(lot) * (BuyTax - 100)
  BY <1>2, <1>3, Constants
<1>5. Cost(lot) = (Gain(lot) * BuyTax) \div 100
  BY DEF Cost, Gain
<1> QED
  BY <1>1, <1>2, <1>4, <1>5

\* The amounts of goods and of money are whole numbers.
LEMMA GoodsAreInt ==
  ASSUME NEW d \in Tables
  PROVE  /\ Stored(d) \in Int /\ Offered(d.comm) \in Int /\ GoodsIn(d) = Stored(d) + Offered(d.comm)
         /\ GoodsIn(d) \in Int /\ MoneyIn(d) \in Int
<1>1. PICK x \in Countries : TRUE
  BY Constants
<1>2. Stored(d) \in Int
  BY <1>1, StoredChange
<1>3. d.comm \in CommTable
  BY DEF Tables, CommTable
<1>4. Offered(d.comm) \in Int
  BY <1>3, OfferedChange
<1>5. d.money \in [Countries -> Int]
  BY DEF Tables
<1>6. MoneyIn(d) \in Int
  BY <1>1, <1>5, FundsChange DEF MoneyIn
<1> QED
  BY <1>2, <1>4, <1>6, GoodsAre

\* A lot is freed: there is less on offer by what was in it.
LEMMA LessOffered ==
  ASSUME NEW a \in Tables, NEW e \in Tables, SameSize(a, e), NEW n \in DOMAIN a.comm, a.comm[n] \in Lot,
         e.comm[n] = Free, \A m \in DOMAIN a.comm \ {n} : e.comm[m] = a.comm[m]
  PROVE  Offered(e.comm) = Offered(a.comm) - a.comm[n].amount /\ a.comm[n].amount \in Nat \ {0}
<1>1. a.comm \in CommTable /\ e.comm \in CommTable /\ DOMAIN a.comm = DOMAIN e.comm
  BY DEF Tables, CommTable, SameSize
<1>2. OnLot(a.comm, n) = a.comm[n].amount /\ OnLot(e.comm, n) = 0
  BY <1>1, FreeOrNot DEF OnLot
<1>3. /\ Offered(a.comm) \in Int
      /\ Offered(e.comm) = Offered(a.comm) - OnLot(a.comm, n) + OnLot(e.comm, n)
  BY <1>1, OfferedChange
<1>4. a.comm[n].amount \in Nat \ {0}
  BY Constants DEF Lot
<1> QED
  BY <1>2, <1>3, <1>4

\* What is gone stays gone when one more lot goes.
LEMMA GoneMore ==
  ASSUME NEW t, NEW u, NEW v, NEW n, n \in DOMAIN t, t[n].own # None, v[n] = Free,
         \A m \in DOMAIN t \ {n} : v[m] = u[m]
  PROVE  Gone(t, u) \cup {n} \subseteq Gone(t, v)
BY FreeOrNot DEF Gone

\* From a to e, after the lots of L, it is the turn of lot n.
LotSettled(d, a, n, e, L) == /\ d \in Tables /\ a \in Tables /\ e \in Tables
                             /\ SameSize(d, a) /\ SameSize(a, e)
                             /\ L \in SUBSET DOMAIN d.comm /\ LotsSettled(d, a, L)
                             /\ n \in DOMAIN d.comm \ L /\ a.comm[n] = d.comm[n] /\ LotTurn(a, n, e)

\* One more turn of the loop settles one more lot.
LEMMA LotSettles ==
  ASSUME NEW d, NEW a, NEW n, NEW e, NEW L, LotSettled(d, a, n, e, L)
  PROVE  \E K \in SUBSET (L \cup {n}) : LotsSettled(d, e, K)
<1> DEFINE lot == d.comm[n]
           own == OwnersOf(d.comm)  bid == BiddersOf(d.comm)  dest == DestsOf(d.comm)
           gain == GainsOf(d.comm)  cost == CostsOf(d.comm)  amt == AmountsOf(d.comm)
<1>0. /\ d \in Tables /\ a \in Tables /\ e \in Tables /\ SameSize(d, a) /\ SameSize(a, e)
      /\ L \in SUBSET DOMAIN d.comm /\ LotsSettled(d, a, L)
      /\ n \in DOMAIN d.comm \ L /\ a.comm[n] = d.comm[n] /\ LotTurn(a, n, e)
  BY DEF LotSettled
<1> USE <1>0
<1>1. CASE e = a
  BY <1>1
<1>2. ASSUME ~(e = a) PROVE \E K \in SUBSET (L \cup {n}) : LotsSettled(d, e, K)
  <2>1. /\ lot \in Lot /\ lot.bidder # lot.own /\ ~Awaits(lot)
        /\ e.comm[n] = Free /\ \A m \in DOMAIN a.comm \ {n} : e.comm[m] = a.comm[m]
        /\ \/ e.money = a.money /\ e.sect = a.sect
           \/ /\ e.money = [a.money EXCEPT ![lot.bidder] = @ - Cost(lot), ![lot.own] = @ + Gain(lot)]
              /\ e.sect = [a.sect EXCEPT ![lot.dest].items = @ + lot.amount]
    BY <1>2 DEF LotTurn
  <2>2. DOMAIN a.comm = DOMAIN d.comm /\ DOMAIN e.comm = DOMAIN d.comm
    BY DEF SameSize
  <2>3. lot.own # None /\ lot.own \in Countries /\ lot.bidder \in Countries /\ lot.dest \in Countries
        /\ lot.amount \in Nat \ {0} /\ Cost(lot) \in Nat /\ Gain(lot) \in Nat
    BY <2>1, FreeOrNot, CostIsNat, Constants DEF Lot
  <2> HIDE DEF lot
  <2>4. Gone(d.comm, a.comm) \cup {n} \subseteq Gone(d.comm, e.comm)
    BY <2>1, <2>2, <2>3, GoneMore DEF lot
  <2>5. \A m \in DOMAIN d.comm : \/ e.comm[m] = d.comm[m]
                                 \/ e.comm[m] = Free /\ d.comm[m].own # None /\ ~Awaits(d.comm[m])
    BY <2>1, <2>2, <2>3 DEF LotsSettled, lot
  <2>6. Offered(e.comm) = Offered(a.comm) - lot.amount
    BY <2>1, <2>2, LessOffered DEF lot
  <2>7. /\ GoodsIn(d) \in Int /\ GoodsIn(a) \in Int /\ MoneyIn(d) \in Int /\ MoneyIn(a) \in Int
        /\ GoodsIn(a) = Stored(a) + Offered(a.comm) /\ GoodsIn(e) = Stored(e) + Offered(e.comm)
        /\ Stored(a) \in Int /\ Stored(e) \in Int /\ Offered(a.comm) \in Int /\ Offered(e.comm) \in Int
    BY GoodsAreInt
  <2>8. /\ GoodsIn(a) <= GoodsIn(d) /\ L \subseteq Gone(d.comm, a.comm)
        /\ BuyTax >= 100 => MoneyIn(a) <= MoneyIn(d)
    BY DEF LotsSettled
  <2>9. CASE e.money = a.money /\ e.sect = a.sect
    <3>1. Stored(e) = Stored(a) /\ MoneyIn(e) = MoneyIn(a)
      BY <2>9 DEF Stored, MoneyIn
    <3>2. GoodsIn(e) <= GoodsIn(d)
      BY <2>3, <2>6, <2>7, <2>8, <3>1
    <3>3. \A c \in Countries :
             e.money[c] = d.money[c] + SumFor(L, own, gain, c) - SumFor(L, bid, cost, c)
      BY <2>9 DEF LotsSettled
    <3>4. \A s \in Countries : e.sect[s].items = d.sect[s].items + SumFor(L, dest, amt, s)
      BY <2>9 DEF LotsSettled
    <3>5. Gone(d.comm, e.comm) # {} /\ L \subseteq Gone(d.comm, e.comm)
      BY <2>4, <2>8
    <3> HIDE DEF own, bid, dest, gain, cost, amt
    <3>6. LotsSettled(d, e, L)
      BY <2>5, <2>8, <3>1, <3>2, <3>3, <3>4, <3>5 DEF LotsSettled, own, bid, dest, gain, cost, amt
    <3> QED
      BY <3>6
  <2>10. CASE /\ e.money = [a.money EXCEPT ![lot.bidder] = @ - Cost(lot), ![lot.own] = @ + Gain(lot)]
              /\ e.sect = [a.sect EXCEPT ![lot.dest].items = @ + lot.amount]
    <3> DEFINE K == L \cup {n}
    <3>1. IsFiniteSet(L)
      <4>1. IsFiniteSet(DOMAIN d.comm)
        BY BidsAreFinite DEF Tables
      <4> QED
        BY <4>1, FS_Subset
    <3>2. \A m \in K : m \in DOMAIN d.comm /\ d.comm[m] \in Lot
      BY <2>1, <2>8, LotInTable DEF Gone, lot
    <3>3. \A m \in K : gain[m] \in Int /\ cost[m] \in Int /\ amt[m] \in Int
      <4>1. \A x \in Lot : Gain(x) \in Nat /\ Cost(x) \in Nat
        BY CostIsNat
      <4>2. \A x \in Lot : x.amount \in Nat
        BY Constants DEF Lot
      <4> QED
        BY <3>2, <4>1, <4>2 DEF GainsOf, CostsOf, AmountsOf
    <3>4. own[n] = lot.own /\ bid[n] = lot.bidder /\ dest[n] = lot.dest
          /\ gain[n] = Gain(lot) /\ cost[n] = Cost(lot) /\ amt[n] = lot.amount
      BY DEF OwnersOf, BiddersOf, DestsOf, GainsOf, CostsOf, AmountsOf, lot
    <3>5. /\ \A c \in Countries :
                a.money[c] = d.money[c] + SumFor(L, own, gain, c) - SumFor(L, bid, cost, c)
          /\ \A s \in Countries : a.sect[s].items = d.sect[s].items + SumFor(L, dest, amt, s)
      BY DEF LotsSettled
    <3>6. /\ a.money \in [Countries -> Nat] /\ d.money \in [Countries -> Nat]
          /\ a.sect \in [Countries -> Sector] /\ d.sect \in [Countries -> Sector]
      BY DEF Tables
    <3> HIDE DEF own, bid, dest, gain, cost, amt, K
    <3>7. \A c \in Countries :
            /\ SumFor(L, own, gain, c) \in Int /\ SumFor(K, own, gain, c) \in Int
            /\ SumFor(K, own, gain, c) = SumFor(L, own, gain, c) + (IF own[n] = c THEN gain[n] ELSE 0)
      <4> TAKE c \in Countries
      <4>1. Another(L, n, gain)
        BY <3>1, <3>3 DEF K, Another
      <4>2. AddsTo(L, n, own, gain, c)
        BY <4>1, SumForMore
      <4> QED
        BY <4>2 DEF K, AddsTo
    <3>8. \A c \in Countries :
            /\ SumFor(L, bid, cost, c) \in Int /\ SumFor(K, bid, cost, c) \in Int
            /\ SumFor(K, bid, cost, c) = SumFor(L, bid, cost, c) + (IF bid[n] = c THEN cost[n] ELSE 0)
      <4> TAKE c \in Countries
      <4>1. Another(L, n, cost)
        BY <3>1, <3>3 DEF K, Another
      <4>2. AddsTo(L, n, bid, cost, c)
        BY <4>1, SumForMore
      <4> QED
        BY <4>2 DEF K, AddsTo
    <3>9. \A c \in Countries :
            /\ SumFor(L, dest, amt, c) \in Int /\ SumFor(K, dest, amt, c) \in Int
            /\ SumFor(K, dest, amt, c) = SumFor(L, dest, amt, c) + (IF dest[n] = c THEN amt[n] ELSE 0)
      <4> TAKE c \in Countries
      <4>1. Another(L, n, amt)
        BY <3>1, <3>3 DEF K, Another
      <4>2. AddsTo(L, n, dest, amt, c)
        BY <4>1, SumForMore
      <4> QED
        BY <4>2 DEF K, AddsTo
    <3>10. \A c \in Countries :
             e.money[c] = d.money[c] + SumFor(K, own, gain, c) - SumFor(K, bid, cost, c)
      <4> TAKE c \in Countries
      <4>1. e.money[c] = a.money[c] + (IF lot.own = c THEN Gain(lot) ELSE 0)
                                    - (IF lot.bidder = c THEN Cost(lot) ELSE 0)
        BY <2>1, <2>3, <2>10, <3>6
      <4>2. a.money[c] \in Nat /\ d.money[c] \in Nat
        BY <3>6
      <4> QED
        BY <2>3, <3>4, <3>5, <3>7, <3>8, <4>1, <4>2
    <3>11. \A s \in Countries : e.sect[s].items = d.sect[s].items + SumFor(K, dest, amt, s)
      <4> TAKE s \in Countries
      <4>1. a.sect[s] \in Sector /\ d.sect[s] \in Sector
        BY <3>6
      <4>2. a.sect[s].items \in Nat /\ d.sect[s].items \in Nat
        BY <4>1, Constants DEF Sector
      <4>3. e.sect[s].items = a.sect[s].items + (IF lot.dest = s THEN lot.amount ELSE 0)
        BY <2>3, <2>10, <3>6, <4>1, <4>2 DEF Sector
      <4> QED
        BY <2>3, <3>4, <3>5, <3>9, <4>2, <4>3
    <3>12. K \subseteq Gone(d.comm, e.comm) /\ Gone(d.comm, e.comm) # {}
      BY <2>4, <2>8 DEF K
    <3>13. GoodsIn(e) = GoodsIn(a)
      <4>1. \A s \in Countries \ {lot.dest} : a.sect[s].items = e.sect[s].items
        BY <2>10, <3>6
      <4>2. Stored(e) = Stored(a) - a.sect[lot.dest].items + e.sect[lot.dest].items
            /\ a.sect[lot.dest].items \in Nat
        BY <2>3, <4>1, StoredChange
      <4>3. e.sect[lot.dest].items = a.sect[lot.dest].items + lot.amount
        <5>1. a.sect[lot.dest] \in Sector
          BY <2>3, <3>6
        <5> QED
          BY <2>3, <2>10, <3>6, <5>1 DEF Sector
      <4> QED
        BY <2>3, <2>6, <2>7, <4>2, <4>3
    <3>14. MoneyIn(e) = MoneyIn(a) - Cost(lot) + Gain(lot)
      <4> DEFINE k == [a.money EXCEPT ![lot.bidder] = @ - Cost(lot), ![lot.own] = @ + Gain(lot)]
      <4>1. lot.bidder # lot.own
        BY <2>1 DEF lot
      <4>2. SumFunction(k) = SumFunction(a.money) - Cost(lot) + Gain(lot)
        BY <2>3, <3>6, <4>1, Payment
      <4>3. e.money = k
        BY <2>10
      <4> HIDE DEF k
      <4> QED
        BY <4>2, <4>3 DEF MoneyIn
    <3>15. BuyTax >= 100 => MoneyIn(e) <= MoneyIn(d)
      BY <2>1, <2>3, <2>7, <2>8, <3>14, GainIsPaid
    <3>16. LotsSettled(d, e, K)
      <4>1. GoodsIn(e) <= GoodsIn(d) /\ (GoodsIn(e) = GoodsIn(d) \/ Gone(d.comm, e.comm) # {})
        BY <2>8, <3>12, <3>13
      <4> QED
        BY <2>5, <3>10, <3>11, <3>12, <3>15, <4>1 DEF LotsSettled, own, bid, dest, gain, cost, amt
    <3> QED
      BY <3>16 DEF K
  <2> QED
    BY <2>1, <2>9, <2>10
<1> QED
  BY <1>1, <1>2

\* No lots settled, nothing moved.
LEMMA NoneSettled ==
  ASSUME NEW d \in Tables
  PROVE  LotsSettled(d, d, {})
<1>1. \A who, what, c : SumFor({}, who, what, c) = 0
  BY SumForNone
<1>2. \A c \in Countries : d.money[c] \in Nat
  BY DEF Tables
<1>3. \A s \in Countries : d.sect[s].items \in Nat
  <2>1. \A s \in Countries : d.sect[s] \in Sector
    BY DEF Tables
  <2> QED
    BY <2>1, Constants DEF Sector
<1>4. GoodsIn(d) \in Int /\ MoneyIn(d) \in Int
  BY GoodsAreInt
<1> QED
  BY <1>1, <1>2, <1>3, <1>4 DEF LotsSettled

\* check_market() settles some lots, and changes no trades and no units.
LEMMA MarketSettles ==
  ASSUME NEW d \in Tables
  PROVE  \E L \in SUBSET DOMAIN d.comm : LotsSettled(d, CheckMarket(d), L)
<1> DEFINE N == Len(d.comm)
<1>0. N \in Nat /\ DOMAIN d.comm = 1..N
  BY LenProperties DEF Tables
<1>1. PICK r \in [0..N -> Tables] :
            /\ r[0] = d /\ r[N] = CheckMarket(d)
            /\ \A i \in 0..N : SameSize(d, r[i])
            /\ \A i \in 1..N : r[i] = SettleLot(r[i - 1], i)
  BY MarketRounds
<1> HIDE DEF N
<1> DEFINE Good(i) == /\ \A m \in i + 1..N : r[i].comm[m] = d.comm[m]
                      /\ \E L \in SUBSET (1..i) : LotsSettled(d, r[i], L)
           S == {i \in 0..N : Good(i)}
<1>2. 0 \in S
  <2>1. \A m \in 0 + 1..N : r[0].comm[m] = d.comm[m]
    BY <1>1
  <2>2. {} \in SUBSET (1..0) /\ LotsSettled(d, r[0], {})
    BY <1>1, NoneSettled
  <2> QED
    BY <1>0, <2>1, <2>2
<1>3. ASSUME NEW i \in 0..N, i \in S, i < N PROVE i + 1 \in S
  <2>1. i + 1 \in 1..N /\ i + 1 \in 0..N /\ (i + 1) - 1 = i /\ i \in Nat
    BY <1>0, <1>3
  <2>2. r[i] \in Tables /\ r[i + 1] \in Tables /\ r[i + 1] = SettleLot(r[i], i + 1) /\ SameSize(d, r[i])
    BY <1>1, <2>1
  <2>3. i + 1 \in DOMAIN r[i].comm /\ DOMAIN r[i].comm = 1..N /\ i + 1 \in DOMAIN d.comm
    BY <1>0, <2>1, <2>2 DEF SameSize
  <2>4. SameSize(r[i], r[i + 1]) /\ LotTurn(r[i], i + 1, r[i + 1])
    BY <2>2, <2>3, SettleLotKeeps
  <2>5. PICK L \in SUBSET (1..i) : LotsSettled(d, r[i], L)
    BY <1>3
  <2>6. \A m \in i + 1..N : r[i].comm[m] = d.comm[m]
    BY <1>3
  <2>7. r[i].comm[i + 1] = d.comm[i + 1]
    <3>1. i + 1 \in i + 1..N
      BY <1>0, <2>1
    <3> QED
      BY <2>6, <3>1
  <2>8. L \in SUBSET DOMAIN d.comm /\ i + 1 \notin L
    <3>1. \A m \in 1..i : m \in 1..N /\ m # i + 1
      BY <1>0, <2>1
    <3> QED
      BY <1>0, <3>1
  <2>9. \E K \in SUBSET (L \cup {i + 1}) : LotsSettled(d, r[i + 1], K)
    <3>1. i + 1 \in DOMAIN d.comm \ L
      BY <2>3, <2>8
    <3> DEFINE a == r[i]  e == r[i + 1]  n == i + 1
    <3>2. LotSettled(d, a, n, e, L)
      BY <2>2, <2>4, <2>5, <2>7, <2>8, <3>1 DEF LotSettled
    <3> HIDE DEF S, a, e, n
    <3>3. \E K \in SUBSET (L \cup {n}) : LotsSettled(d, e, K)
      BY <3>2, LotSettles
    <3> QED
      BY <3>3 DEF e, n
  <2>10. L \cup {i + 1} \subseteq 1..i + 1
    <3>1. \A m \in 1..i : m \in 1..i + 1
      BY <2>1
    <3>2. i + 1 \in 1..i + 1
      BY <2>1
    <3> QED
      BY <3>1, <3>2
  <2>11. \A m \in (i + 1) + 1..N : r[i + 1].comm[m] = d.comm[m]
    <3> TAKE m \in (i + 1) + 1..N
    <3>1. m \in i + 1..N /\ m # i + 1 /\ m \in 1..N
      BY <1>0, <2>1
    <3>2. r[i + 1].comm[m] = r[i].comm[m]
      BY <2>3, <2>4, <3>1 DEF LotTurn
    <3> QED
      BY <2>6, <3>1, <3>2
  <2>12. \E K \in SUBSET (1..i + 1) : LotsSettled(d, r[i + 1], K)
    BY <2>9, <2>10
  <2> QED
    BY <2>1, <2>11, <2>12
<1>4. N \in S
  <2> HIDE DEF S
  <2>1. 0..N \subseteq S
    BY <1>0, <1>2, <1>3, NatsBySteps
  <2> QED
    BY <1>0, <2>1
<1> QED
  BY <1>0, <1>1, <1>4

\* No unit is on the block of d twice.
OneLotEach(d) == \A n, m \in LiveTrades(d) : d.trade[n].unit = d.trade[m].unit => n = m

PricesOf(t)     == [n \in DOMAIN t |-> t[n].price]
TradeGainsOf(t) == [n \in DOMAIN t |-> TradeGain(t[n])]

\* From d to e the units of the lots K were sold.
UnitsMoved(d, e, K) ==
  \A u \in Units : \/ \E n \in K : d.trade[n].unit = u /\ d.trade[n].own = d.unit[u] /\ e.unit[u] = d.trade[n].bidder
                   \/ (\A n \in K : d.trade[n].unit # u) /\ e.unit[u] = d.unit[u]
TradesSettled(d, e, K) ==
  /\ K \subseteq Gone(d.trade, e.trade)
  /\ \A n \in DOMAIN d.trade :
        \/ e.trade[n] = d.trade[n]
        \/ /\ e.trade[n] = Free /\ d.trade[n].own # None
           /\ ~Awaits(d.trade[n]) \/ d.unit[d.trade[n].unit] # d.trade[n].own
  /\ \A c \in Countries :
        e.money[c] = d.money[c] + SumFor(K, OwnersOf(d.trade), TradeGainsOf(d.trade), c)
                                - SumFor(K, BiddersOf(d.trade), PricesOf(d.trade), c)
  /\ UnitsMoved(d, e, K)
  /\ e.comm = d.comm /\ e.sect = d.sect
  /\ MoneyIn(e) <= MoneyIn(d)

\* Nobody gets more for a unit than is paid.
LEMMA TradeGainIsPaid ==
  ASSUME NEW t \in Trade
  PROVE  TradeGain(t) <= t.price
<1>1. \A x, k \in Nat : \A y \in Nat : x * 100 = y + x * k => y \div 100 <= x
  <2>1. \A x, y, z \in Nat : x * 100 = y + z => y \div 100 <= x
    OBVIOUS
  <2>2. \A x, k \in Nat : x * k \in Nat
    OBVIOUS
  <2> QED
    BY <2>1, <2>2
<1>2. t.price \in Nat /\ TradeTax \in Nat /\ 100 - TradeTax \in Nat
  BY GainIsNat, Constants
<1>3. \A x, k \in Nat : x * k \in Nat
  OBVIOUS
<1>4. \A x, y \in Int : x * 100 = x * y + x * (100 - y)
  OBVIOUS
<1>5. t.price * 100 = t.price * TradeTax + t.price * (100 - TradeTax) /\ t.price * TradeTax \in Nat
  BY <1>2, <1>3, <1>4
<1> QED
  BY <1>1, <1>2, <1>5 DEF TradeGain

\* From a to e, after the lots of L, it is the turn of lot n.
TradeSettled(d, a, n, e, L) == /\ d \in Tables /\ a \in Tables /\ e \in Tables /\ OneLotEach(d)
                               /\ SameSize(d, a) /\ SameSize(a, e)
                               /\ L \in SUBSET DOMAIN d.trade /\ TradesSettled(d, a, L)
                               /\ n \in DOMAIN d.trade \ L /\ a.trade[n] = d.trade[n] /\ TradeTurn(a, n, e)

\* One more turn of the loop settles one more lot.
LEMMA TradeSettles ==
  ASSUME NEW d, NEW a, NEW n, NEW e, NEW L, TradeSettled(d, a, n, e, L)
  PROVE  \E K \in SUBSET (L \cup {n}) : TradesSettled(d, e, K)
<1> DEFINE t == d.trade[n]
           own == OwnersOf(d.trade)  bid == BiddersOf(d.trade)
           gain == TradeGainsOf(d.trade)  cost == PricesOf(d.trade)
<1>0. /\ d \in Tables /\ a \in Tables /\ e \in Tables /\ OneLotEach(d) /\ SameSize(d, a) /\ SameSize(a, e)
      /\ L \in SUBSET DOMAIN d.trade /\ TradesSettled(d, a, L)
      /\ n \in DOMAIN d.trade \ L /\ a.trade[n] = d.trade[n] /\ TradeTurn(a, n, e)
  BY DEF TradeSettled
<1> USE <1>0
<1>1. CASE e = a
  BY <1>1
<1>2. ASSUME ~(e = a) PROVE \E K \in SUBSET (L \cup {n}) : TradesSettled(d, e, K)
  <2>1. /\ t \in Trade /\ e.trade[n] = Free /\ \A m \in DOMAIN a.trade \ {n} : e.trade[m] = a.trade[m]
        /\ e.comm = a.comm /\ e.sect = a.sect
        /\ \/ /\ ~Awaits(t) \/ a.unit[t.unit] # t.own
              /\ e.money = a.money /\ e.unit = a.unit
           \/ /\ ~Awaits(t) /\ t.bidder # t.own /\ a.unit[t.unit] = t.own
              /\ e.money = [a.money EXCEPT ![t.bidder] = @ - t.price, ![t.own] = @ + TradeGain(t)]
              /\ e.unit = [a.unit EXCEPT ![t.unit] = t.bidder]
    BY <1>2 DEF TradeTurn
  <2>2. DOMAIN a.trade = DOMAIN d.trade /\ DOMAIN e.trade = DOMAIN d.trade
    BY DEF SameSize
  <2>3. t.own # None /\ t.own \in Countries /\ t.bidder \in Countries /\ t.unit \in Units
        /\ t.price \in Nat /\ TradeGain(t) \in Nat /\ TradeGain(t) <= t.price
    BY <2>1, FreeOrNot, GainIsNat, TradeGainIsPaid DEF Trade
  <2> HIDE DEF t
  <2>4. Gone(d.trade, a.trade) \cup {n} \subseteq Gone(d.trade, e.trade)
    BY <2>1, <2>2, <2>3, GoneMore DEF t
  <2>5. /\ L \subseteq Gone(d.trade, a.trade) /\ MoneyIn(a) <= MoneyIn(d) /\ UnitsMoved(d, a, L)
        /\ MoneyIn(d) \in Int /\ MoneyIn(a) \in Int
        /\ e.comm = d.comm /\ e.sect = d.sect
    BY <2>1, GoodsAreInt DEF TradesSettled
  <2>6. \A m \in L : d.trade[m].unit # t.unit
    <3>1. \A m \in L : m \in LiveTrades(d) /\ m # n
      BY <2>5 DEF Gone, LiveTrades
    <3>2. n \in LiveTrades(d)
      BY <2>3 DEF LiveTrades, t
    <3> QED
      BY <3>1, <3>2 DEF OneLotEach, t
  <2>7. a.unit[t.unit] = d.unit[t.unit]
    BY <2>3, <2>5, <2>6 DEF UnitsMoved
  <2>8. \A m \in DOMAIN d.trade :
           \/ e.trade[m] = d.trade[m]
           \/ /\ e.trade[m] = Free /\ d.trade[m].own # None
              /\ ~Awaits(d.trade[m]) \/ d.unit[d.trade[m].unit] # d.trade[m].own
    <3> TAKE m \in DOMAIN d.trade
    <3>1. CASE m = n
      BY <2>1, <2>3, <2>7, <3>1 DEF t
    <3>2. CASE m # n
      <4>1. e.trade[m] = a.trade[m]
        BY <2>1, <2>2, <3>2
      <4> QED
        BY <4>1 DEF TradesSettled
    <3> QED
      BY <3>1, <3>2
  <2>9. CASE e.money = a.money /\ e.unit = a.unit
    <3>1. \A c \in Countries :
             e.money[c] = d.money[c] + SumFor(L, own, gain, c) - SumFor(L, bid, cost, c)
      BY <2>9 DEF TradesSettled
    <3>2. L \subseteq Gone(d.trade, e.trade) /\ UnitsMoved(d, e, L) /\ MoneyIn(e) <= MoneyIn(d)
      BY <2>4, <2>5, <2>9 DEF UnitsMoved, MoneyIn
    <3> HIDE DEF own, bid, gain, cost
    <3>3. TradesSettled(d, e, L)
      BY <2>5, <2>8, <3>1, <3>2 DEF TradesSettled, own, bid, gain, cost
    <3> QED
      BY <3>3
  <2>10. CASE /\ ~Awaits(t) /\ t.bidder # t.own /\ a.unit[t.unit] = t.own
              /\ e.money = [a.money EXCEPT ![t.bidder] = @ - t.price, ![t.own] = @ + TradeGain(t)]
              /\ e.unit = [a.unit EXCEPT ![t.unit] = t.bidder]
    <3> DEFINE K == L \cup {n}
    <3>1. IsFiniteSet(L)
      <4>1. IsFiniteSet(DOMAIN d.trade)
        BY BidsAreFinite DEF Tables
      <4> QED
        BY <4>1, FS_Subset
    <3>2. \A m \in K : m \in DOMAIN d.trade /\ d.trade[m] \in Trade
      BY <2>1, <2>5, LotInTable DEF Gone, t
    <3>3. \A m \in K : gain[m] \in Int /\ cost[m] \in Int
      <4>1. \A x \in Trade : TradeGain(x) \in Nat /\ x.price \in Nat
        BY GainIsNat
      <4> QED
        BY <3>2, <4>1 DEF TradeGainsOf, PricesOf
    <3>4. own[n] = t.own /\ bid[n] = t.bidder /\ gain[n] = TradeGain(t) /\ cost[n] = t.price
      BY DEF OwnersOf, BiddersOf, TradeGainsOf, PricesOf, t
    <3>5. \A c \in Countries :
             a.money[c] = d.money[c] + SumFor(L, own, gain, c) - SumFor(L, bid, cost, c)
      BY DEF TradesSettled
    <3>6. /\ a.money \in [Countries -> Nat] /\ d.money \in [Countries -> Nat]
          /\ a.unit \in [Units -> Owner]
      BY DEF Tables
    <3> HIDE DEF own, bid, gain, cost, K
    <3>7. Another(L, n, gain) /\ Another(L, n, cost)
      BY <3>1, <3>3 DEF K, Another
    <3>8. ASSUME NEW c \in Countries
          PROVE  e.money[c] = d.money[c] + SumFor(K, own, gain, c) - SumFor(K, bid, cost, c)
      <4>1. e.money[c] = a.money[c] + (IF t.own = c THEN TradeGain(t) ELSE 0)
                                    - (IF t.bidder = c THEN t.price ELSE 0)
        BY <2>3, <2>10, <3>6
      <4>2. a.money[c] \in Nat /\ d.money[c] \in Nat
        BY <3>6
      <4>3. AddsTo(L, n, own, gain, c) /\ AddsTo(L, n, bid, cost, c)
        BY <3>7, SumForMore
      <4>4. /\ SumFor(K, own, gain, c) = SumFor(L, own, gain, c) + (IF own[n] = c THEN gain[n] ELSE 0)
            /\ SumFor(K, bid, cost, c) = SumFor(L, bid, cost, c) + (IF bid[n] = c THEN cost[n] ELSE 0)
            /\ SumFor(L, own, gain, c) \in Int /\ SumFor(L, bid, cost, c) \in Int
        BY <4>3 DEF AddsTo, K
      <4> QED
        BY <2>3, <3>4, <3>5, <4>1, <4>2, <4>4
    <3>9. K \subseteq Gone(d.trade, e.trade)
      BY <2>4, <2>5 DEF K
    <3>10. UnitsMoved(d, e, K)
      <4> SUFFICES ASSUME NEW u \in Units
                   PROVE  \/ \E m \in K : d.trade[m].unit = u /\ d.trade[m].own = d.unit[u] /\ e.unit[u] = d.trade[m].bidder
                          \/ (\A m \in K : d.trade[m].unit # u) /\ e.unit[u] = d.unit[u]
        BY DEF UnitsMoved
      <4>1. CASE u = t.unit
        <5>1. n \in K /\ d.trade[n].unit = u /\ d.trade[n].own = d.unit[u] /\ e.unit[u] = d.trade[n].bidder
          BY <2>3, <2>7, <2>10, <3>6, <4>1 DEF K, t
        <5> QED
          BY <5>1
      <4>2. CASE u # t.unit
        <5>1. e.unit[u] = a.unit[u]
          BY <2>10, <3>6, <4>2
        <5> QED
          BY <2>5, <4>2, <5>1 DEF UnitsMoved, K, t
      <4> QED
        BY <4>1, <4>2
    <3>11. MoneyIn(e) = MoneyIn(a) - t.price + TradeGain(t)
      <4> DEFINE k == [a.money EXCEPT ![t.bidder] = @ - t.price, ![t.own] = @ + TradeGain(t)]
      <4>1. SumFunction(k) = SumFunction(a.money) - t.price + TradeGain(t)
        BY <2>3, <2>10, <3>6, Payment
      <4>2. e.money = k
        BY <2>10
      <4> HIDE DEF k
      <4> QED
        BY <4>1, <4>2 DEF MoneyIn
    <3>12. MoneyIn(e) <= MoneyIn(d)
      BY <2>3, <2>5, <3>11
    <3>13. TradesSettled(d, e, K)
      BY <2>5, <2>8, <3>8, <3>9, <3>10, <3>12 DEF TradesSettled, own, bid, gain, cost
    <3> QED
      BY <3>13 DEF K
  <2> QED
    BY <2>1, <2>9, <2>10
<1> QED
  BY <1>1, <1>2

\* No lots settled, nothing moved.
LEMMA NoTradeSettled ==
  ASSUME NEW d \in Tables
  PROVE  TradesSettled(d, d, {})
<1>1. \A who, what, c : SumFor({}, who, what, c) = 0
  BY SumForNone
<1>2. \A c \in Countries : d.money[c] \in Nat
  BY DEF Tables
<1>3. MoneyIn(d) \in Int
  BY GoodsAreInt
<1> QED
  BY <1>1, <1>2, <1>3 DEF TradesSettled, UnitsMoved

\* check_trade() settles some lots, and changes no goods.
LEMMA TradesSettle ==
  ASSUME NEW d \in Tables, OneLotEach(d)
  PROVE  \E L \in SUBSET DOMAIN d.trade : TradesSettled(d, CheckTrade(d), L)
<1> DEFINE N == Len(d.trade)
<1>0. N \in Nat /\ DOMAIN d.trade = 1..N
  BY LenProperties DEF Tables
<1>1. PICK r \in [0..N -> Tables] :
            /\ r[0] = d /\ r[N] = CheckTrade(d)
            /\ \A i \in 0..N : SameSize(d, r[i])
            /\ \A i \in 1..N : r[i] = SettleTrade(r[i - 1], i)
  BY TradeRounds
<1> HIDE DEF N
<1> DEFINE Good(i) == /\ \A m \in i + 1..N : r[i].trade[m] = d.trade[m]
                      /\ \E L \in SUBSET (1..i) : TradesSettled(d, r[i], L)
           S == {i \in 0..N : Good(i)}
<1>2. 0 \in S
  <2>1. \A m \in 0 + 1..N : r[0].trade[m] = d.trade[m]
    BY <1>1
  <2>2. {} \in SUBSET (1..0) /\ TradesSettled(d, r[0], {})
    BY <1>1, NoTradeSettled
  <2> QED
    BY <1>0, <2>1, <2>2
<1>3. ASSUME NEW i \in 0..N, i \in S, i < N PROVE i + 1 \in S
  <2>1. i + 1 \in 1..N /\ i + 1 \in 0..N /\ (i + 1) - 1 = i /\ i \in Nat
    BY <1>0, <1>3
  <2>2. r[i] \in Tables /\ r[i + 1] \in Tables /\ r[i + 1] = SettleTrade(r[i], i + 1) /\ SameSize(d, r[i])
    BY <1>1, <2>1
  <2>3. i + 1 \in DOMAIN r[i].trade /\ DOMAIN r[i].trade = 1..N /\ i + 1 \in DOMAIN d.trade
    BY <1>0, <2>1, <2>2 DEF SameSize
  <2>4. SameSize(r[i], r[i + 1]) /\ TradeTurn(r[i], i + 1, r[i + 1])
    BY <2>2, <2>3, SettleTradeKeeps
  <2>5. PICK L \in SUBSET (1..i) : TradesSettled(d, r[i], L)
    BY <1>3
  <2>6. \A m \in i + 1..N : r[i].trade[m] = d.trade[m]
    BY <1>3
  <2>7. r[i].trade[i + 1] = d.trade[i + 1]
    <3>1. i + 1 \in i + 1..N
      BY <1>0, <2>1
    <3> QED
      BY <2>6, <3>1
  <2>8. L \in SUBSET DOMAIN d.trade /\ i + 1 \notin L
    <3>1. \A m \in 1..i : m \in 1..N /\ m # i + 1
      BY <1>0, <2>1
    <3> QED
      BY <1>0, <3>1
  <2>9. \E K \in SUBSET (L \cup {i + 1}) : TradesSettled(d, r[i + 1], K)
    <3>1. i + 1 \in DOMAIN d.trade \ L
      BY <2>3, <2>8
    <3> DEFINE a == r[i]  e == r[i + 1]  n == i + 1
    <3>2. TradeSettled(d, a, n, e, L)
      BY <2>2, <2>4, <2>5, <2>7, <2>8, <3>1 DEF TradeSettled
    <3> HIDE DEF S, a, e, n
    <3>3. \E K \in SUBSET (L \cup {n}) : TradesSettled(d, e, K)
      BY <3>2, TradeSettles
    <3> QED
      BY <3>3 DEF e, n
  <2>10. L \cup {i + 1} \subseteq 1..i + 1
    <3>1. \A m \in 1..i : m \in 1..i + 1
      BY <2>1
    <3>2. i + 1 \in 1..i + 1
      BY <2>1
    <3> QED
      BY <3>1, <3>2
  <2>11. \A m \in (i + 1) + 1..N : r[i + 1].trade[m] = d.trade[m]
    <3> TAKE m \in (i + 1) + 1..N
    <3>1. m \in i + 1..N /\ m # i + 1 /\ m \in 1..N
      BY <1>0, <2>1
    <3>2. r[i + 1].trade[m] = r[i].trade[m]
      BY <2>3, <2>4, <3>1 DEF TradeTurn
    <3> QED
      BY <2>6, <3>1, <3>2
  <2>12. \E K \in SUBSET (1..i + 1) : TradesSettled(d, r[i + 1], K)
    BY <2>9, <2>10
  <2> QED
    BY <2>1, <2>11, <2>12
<1>4. N \in S
  <2> HIDE DEF S
  <2>1. 0..N \subseteq S
    BY <1>0, <1>2, <1>3, NatsBySteps
  <2> QED
    BY <1>0, <2>1
<1> QED
  BY <1>0, <1>1, <1>4

\* What adds up for a country is a whole number.
LEMMA SumForIsInt ==
  ASSUME NEW L, IsFiniteSet(L), NEW who, NEW what, NEW c, \A n \in L : what[n] \in Int
  PROVE  SumFor(L, who, what, c) \in Int
<1> DEFINE S == {n \in L : who[n] = c}
           f == [n \in S |-> what[n]]
<1>1. IsFiniteSet(S)
  BY FS_Subset
<1>2. DOMAIN f = S /\ \A n \in S : f[n] \in Int
  OBVIOUS
<1>3. SumFor(L, who, what, c) = SumFunction(f)
  BY DEF SumFor
<1> HIDE DEF f, S
<1>4. SumFunctionOnSet(f, S) \in Int
  BY <1>1, <1>2, SumLessOne
<1> QED
  BY <1>2, <1>3, <1>4 DEF SumFunction

\* The sums a settlement is stated with are these.
LEMMA SumsAre ==
  ASSUME NEW t, NEW L \in SUBSET DOMAIN t, NEW c
  PROVE  /\ SumFunction([n \in {n \in L : t[n].own = c} |-> Gain(t[n])]) = SumFor(L, OwnersOf(t), GainsOf(t), c)
         /\ SumFunction([n \in {n \in L : t[n].bidder = c} |-> Cost(t[n])]) = SumFor(L, BiddersOf(t), CostsOf(t), c)
         /\ SumFunction([n \in {n \in L : t[n].dest = c} |-> t[n].amount]) = SumFor(L, DestsOf(t), AmountsOf(t), c)
         /\ SumFunction([n \in {n \in L : t[n].own = c} |-> TradeGain(t[n])]) = SumFor(L, OwnersOf(t), TradeGainsOf(t), c)
         /\ SumFunction([n \in {n \in L : t[n].bidder = c} |-> t[n].price]) = SumFor(L, BiddersOf(t), PricesOf(t), c)
<1>1. /\ {n \in L : t[n].own = c} = {n \in L : OwnersOf(t)[n] = c}
      /\ {n \in L : t[n].bidder = c} = {n \in L : BiddersOf(t)[n] = c}
      /\ {n \in L : t[n].dest = c} = {n \in L : DestsOf(t)[n] = c}
  BY DEF OwnersOf, BiddersOf, DestsOf
<1>2. \A n \in L : /\ GainsOf(t)[n] = Gain(t[n]) /\ CostsOf(t)[n] = Cost(t[n])
                   /\ AmountsOf(t)[n] = t[n].amount /\ TradeGainsOf(t)[n] = TradeGain(t[n])
                   /\ PricesOf(t)[n] = t[n].price
  BY DEF GainsOf, CostsOf, AmountsOf, TradeGainsOf, PricesOf
<1>3. [n \in {n \in L : t[n].own = c} |-> Gain(t[n])] = [n \in {n \in L : OwnersOf(t)[n] = c} |-> GainsOf(t)[n]]
  BY <1>1, <1>2
<1>4. [n \in {n \in L : t[n].bidder = c} |-> Cost(t[n])] = [n \in {n \in L : BiddersOf(t)[n] = c} |-> CostsOf(t)[n]]
  BY <1>1, <1>2
<1>5. [n \in {n \in L : t[n].dest = c} |-> t[n].amount] = [n \in {n \in L : DestsOf(t)[n] = c} |-> AmountsOf(t)[n]]
  BY <1>1, <1>2
<1>6. [n \in {n \in L : t[n].own = c} |-> TradeGain(t[n])] = [n \in {n \in L : OwnersOf(t)[n] = c} |-> TradeGainsOf(t)[n]]
  BY <1>1, <1>2
<1>7. [n \in {n \in L : t[n].bidder = c} |-> t[n].price] = [n \in {n \in L : BiddersOf(t)[n] = c} |-> PricesOf(t)[n]]
  BY <1>1, <1>2
<1> QED
  BY <1>3, <1>4, <1>5, <1>6, <1>7 DEF SumFor

\* The market thread settles what is due, and each sale moves what it says.
LEMMA CheckSettles ==
  ASSUME MarketInv, Check
  PROVE  Settles
<1> DEFINE d == CheckMarket(db)
<1>1. db \in Tables
  BY DEF MarketInv, TypeOK
<1>2. d \in Tables /\ SameSize(db, d) /\ d.trade = db.trade /\ d.unit = db.unit
  BY <1>1, CheckMarketKeeps
<1>3. PICK L \in SUBSET DOMAIN db.comm : LotsSettled(db, d, L)
  BY <1>1, MarketSettles
<1>4. db' = CheckTrade(d)
  BY DEF Check
<1> HIDE DEF d
<1>5. OneLotEach(d)
  BY <1>2 DEF MarketInv, OneLotPerUnit, OneLotEach, LiveTrades
<1>6. PICK K \in SUBSET DOMAIN d.trade : TradesSettled(d, db', K)
  BY <1>2, <1>4, <1>5, TradesSettle
<1>7. db' \in Tables
  BY <1>2, <1>4, CheckTradeKeeps
<1>8. L \in SUBSET Gone(db.comm, db'.comm) /\ K \in SUBSET Gone(db.trade, db'.trade)
  BY <1>2, <1>3, <1>6 DEF LotsSettled, TradesSettled
<1>9. \A n \in Gone(db.comm, db'.comm) : ~Awaits(db.comm[n])
  <2>1. db'.comm = d.comm
    BY <1>6 DEF TradesSettled
  <2> QED
    BY <1>3, <2>1 DEF LotsSettled, Gone
<1>10. \A n \in Gone(db.trade, db'.trade) :
          ~Awaits(db.trade[n]) \/ db.unit[db.trade[n].unit] # db.trade[n].own
  BY <1>2, <1>6 DEF TradesSettled, Gone
<1>11. ASSUME NEW c \in Countries
       PROVE  db'.money[c] - db.money[c] =
                SumFunction([n \in {n \in L : db.comm[n].own = c} |-> Gain(db.comm[n])])
                - SumFunction([n \in {n \in L : db.comm[n].bidder = c} |-> Cost(db.comm[n])])
                + SumFunction([n \in {n \in K : db.trade[n].own = c} |-> TradeGain(db.trade[n])])
                - SumFunction([n \in {n \in K : db.trade[n].bidder = c} |-> db.trade[n].price])
  <2> DEFINE a1 == SumFor(L, OwnersOf(db.comm), GainsOf(db.comm), c)
             a2 == SumFor(L, BiddersOf(db.comm), CostsOf(db.comm), c)
             b1 == SumFor(K, OwnersOf(db.trade), TradeGainsOf(db.trade), c)
             b2 == SumFor(K, BiddersOf(db.trade), PricesOf(db.trade), c)
  <2>1. d.money[c] = db.money[c] + a1 - a2
    BY <1>3 DEF LotsSettled
  <2>2. db'.money[c] = d.money[c] + b1 - b2
    BY <1>2, <1>6 DEF TradesSettled
  <2>3. /\ SumFunction([n \in {n \in L : db.comm[n].own = c} |-> Gain(db.comm[n])]) = a1
        /\ SumFunction([n \in {n \in L : db.comm[n].bidder = c} |-> Cost(db.comm[n])]) = a2
    BY SumsAre
  <2>4. /\ SumFunction([n \in {n \in K : db.trade[n].own = c} |-> TradeGain(db.trade[n])]) = b1
        /\ SumFunction([n \in {n \in K : db.trade[n].bidder = c} |-> db.trade[n].price]) = b2
    <3>1. K \in SUBSET DOMAIN db.trade
      BY <1>2
    <3> QED
      BY <3>1, SumsAre
  <2>5. db.money[c] \in Int /\ d.money[c] \in Int /\ db'.money[c] \in Int
    BY <1>1, <1>2, <1>7 DEF Tables
  <2>6. a1 \in Int /\ a2 \in Int /\ b1 \in Int /\ b2 \in Int
    <3>1. \A m \in L : db.comm[m] \in Lot
      BY <1>1, <1>8, LotInTable DEF Gone
    <3>2. \A m \in K : db.trade[m] \in Trade
      BY <1>1, <1>8, LotInTable DEF Gone
    <3>3. \A m \in L : GainsOf(db.comm)[m] \in Int /\ CostsOf(db.comm)[m] \in Int
      BY <3>1, CostIsNat DEF GainsOf, CostsOf
    <3>4. \A m \in K : TradeGainsOf(db.trade)[m] \in Int /\ PricesOf(db.trade)[m] \in Int
      BY <1>2, <3>2, GainIsNat DEF TradeGainsOf, PricesOf
    <3>5. IsFiniteSet(L) /\ IsFiniteSet(K)
      <4>1. IsFiniteSet(DOMAIN db.comm) /\ IsFiniteSet(DOMAIN d.trade)
        BY <1>1, <1>2, BidsAreFinite DEF Tables
      <4> QED
        BY <4>1, FS_Subset
    <3> QED
      BY <3>3, <3>4, <3>5, SumForIsInt
  <2> HIDE DEF a1, a2, b1, b2
  <2>7. db'.money[c] - db.money[c] = a1 - a2 + b1 - b2
    BY <2>1, <2>2, <2>5, <2>6
  <2> QED
    BY <2>3, <2>4, <2>7
<1>12. ASSUME NEW s \in Countries
       PROVE  db'.sect[s].items - db.sect[s].items =
                SumFunction([n \in {n \in L : db.comm[n].dest = s} |-> db.comm[n].amount])
  <2> DEFINE a == SumFor(L, DestsOf(db.comm), AmountsOf(db.comm), s)
  <2>1. d.sect[s].items = db.sect[s].items + a
    BY <1>3 DEF LotsSettled
  <2>2. db'.sect[s].items = d.sect[s].items
    BY <1>6 DEF TradesSettled
  <2>3. SumFunction([n \in {n \in L : db.comm[n].dest = s} |-> db.comm[n].amount]) = a
    BY SumsAre
  <2>4. a \in Int
    <3>1. \A m \in L : db.comm[m] \in Lot
      BY <1>1, <1>8, LotInTable DEF Gone
    <3>2. \A m \in L : AmountsOf(db.comm)[m] \in Int
      BY <3>1, Constants DEF AmountsOf, Lot
    <3>3. IsFiniteSet(L)
      <4>1. IsFiniteSet(DOMAIN db.comm)
        BY <1>1, BidsAreFinite DEF Tables
      <4> QED
        BY <4>1, FS_Subset
    <3> QED
      BY <3>2, <3>3, SumForIsInt
  <2>5. db.sect[s].items \in Int
    <3>1. db.sect[s] \in Sector
      BY <1>1 DEF Tables
    <3> QED
      BY <3>1, Constants DEF Sector
  <2> HIDE DEF a
  <2> QED
    BY <2>1, <2>2, <2>3, <2>4, <2>5
<1>13. ASSUME NEW u \in Units
       PROVE  \/ \E n \in K : /\ db.trade[n].unit = u
                              /\ db.trade[n].own = db.unit[u]
                              /\ db'.unit[u] = db.trade[n].bidder
              \/ /\ \A n \in K : db.trade[n].unit # u
                 /\ db'.unit[u] = db.unit[u]
  BY <1>2, <1>6 DEF TradesSettled, UnitsMoved
<1>14. IsSettlement(L, K)
  BY <1>11, <1>12, <1>13 DEF IsSettlement
<1> QED
  BY <1>8, <1>9, <1>10, <1>14 DEF Settles

-----------------------------------------------------------------------------
(* The deals. *)

\* No goods and no money are made from d to e.
NoMore(d, e) == /\ GoodsIn(e) <= GoodsIn(d)
                /\ GoodsIn(e) < GoodsIn(d) => Gone(d.comm, e.comm) # {}
                /\ BuyTax >= 100 => MoneyIn(e) <= MoneyIn(d)

\* What BidStands says of a step.
BidsKept ==
  \A n \in DOMAIN db.comm :
     BidOut(db.comm[n]) =>
        LET lot == db.comm[n] IN
        \/ db'.comm[n] \in {lot, [lot EXCEPT !.due = TRUE]}
        \/ db'.comm[n].own = None /\ lot.due
        \/ db'.comm[n].own = lot.own /\ db'.comm[n].price > lot.price
        \/ Intervenes(n)

\* What a step of the market does, and one of the rest of the game.
DealStep == (outside' = outside => NoMore(db, db')) /\ BidsKept

\* Who has no right over others' lots resets only his own that nobody bid for.
ResetsOwn ==
  \A c \in Countries \ Deities :
     cmd[c].op = "reset" => cmd[c].copy.own = c /\ cmd[c].copy.bidder = c

\* Where goods are where they were, there are as many.
LEMMA AsMany ==
  ASSUME NEW d \in Tables, NEW e \in Tables,
         Stored(e) = Stored(d), Offered(e.comm) = Offered(d.comm), e.money = d.money
  PROVE  NoMore(d, e)
<1>1. GoodsIn(e) = GoodsIn(d) /\ GoodsIn(d) \in Int /\ MoneyIn(e) = MoneyIn(d) /\ MoneyIn(d) \in Int
  BY GoodsAreInt DEF MoneyIn
<1> QED
  BY <1>1 DEF NoMore

\* Where no lot is written, bids are kept.
LEMMA BidsLeft ==
  ASSUME db'.comm = db.comm
  PROVE  BidsKept
BY DEF BidsKept

\* No deal is touched where goods and money stay where they are.
LEMMA NoDeal ==
  ASSUME db \in Tables, db' \in Tables, db'.comm = db.comm, db'.money = db.money, db'.sect = db.sect
  PROVE  DealStep
<1>1. NoMore(db, db')
  BY AsMany DEF Stored
<1> QED
  BY <1>1, BidsLeft DEF DealStep

\* A lot changes its price, its bidder or its time, and no goods.
LEMMA LotRewritten ==
  ASSUME NEW d \in Tables, NEW e \in Tables, NEW n \in DOMAIN d.comm, NEW lot \in Lot,
         d.comm[n] \in Lot, lot.amount = d.comm[n].amount, e = PutLot(d, n, lot)
  PROVE  /\ Offered(e.comm) = Offered(d.comm) /\ Stored(e) = Stored(d) /\ e.money = d.money
         /\ DOMAIN e.comm = DOMAIN d.comm
         /\ e.comm[n] = lot /\ \A m \in DOMAIN d.comm \ {n} : e.comm[m] = d.comm[m]
<1>1. n \in 1..Len(d.comm) + 1
  BY LotIsChanged
<1>2. /\ n \in DOMAIN e.comm /\ e.comm[n] = lot /\ DOMAIN d.comm \ {n} = DOMAIN e.comm \ {n}
      /\ \A m \in DOMAIN d.comm \ {n} : d.comm[m] = e.comm[m]
      /\ e.money = d.money /\ e.sect = d.sect
  BY <1>1, LotIsPut
<1>3. d.comm \in CommTable /\ e.comm \in CommTable
  BY DEF Tables, CommTable
<1>4. Offered(d.comm) \in Int /\ Offered(e.comm) = Offered(d.comm) - OnLot(d.comm, n) + OnLot(e.comm, n)
      /\ OnLot(d.comm, n) \in Nat
  BY <1>2, <1>3, OfferedChange
<1>5. OnLot(e.comm, n) = OnLot(d.comm, n)
  BY <1>2, FreeOrNot DEF OnLot
<1>6. Offered(e.comm) = Offered(d.comm)
  BY <1>4, <1>5
<1>7. Stored(e) = Stored(d)
  BY <1>2 DEF Stored
<1>8. DOMAIN e.comm = DOMAIN d.comm
  BY <1>2
<1> QED
  BY <1>2, <1>6, <1>7, <1>8

\* A bid for goods is placed: it is higher, or the lot is due.
LEMMA BuyPlaceDeals ==
  ASSUME MarketInv, NEW c \in Countries, NEW s \in Countries, BuyPlace(c, s) PROVE DealStep
<1> DEFINE n == cmd[c].lot
           copy == cmd[c].copy
           bid == cmd[c].bid
           lot == [Outbid(copy, c, bid) EXCEPT !.dest = s]
           d == PutLot(db, n, lot)
<1>1. /\ db \in Tables /\ n \in DOMAIN db.comm /\ copy \in Lot /\ db.comm[n] = copy /\ bid \in Prices
  BY CopyIsLot DEF BuyPlace
<1>2. db' = CheckMarket([db EXCEPT !.comm[n] = lot]) /\ bid > copy.price
  BY DEF BuyPlace
<1> HIDE DEF n, copy, bid
<1>3. /\ lot \in Lot /\ lot.bidder = c /\ lot.price = bid /\ lot.amount = copy.amount /\ lot.own = copy.own
      /\ lot.due => copy.due
  BY <1>1 DEF Lot, Outbid
<1> HIDE DEF lot
<1>4. [db EXCEPT !.comm[n] = lot] = d /\ n \in 1..Len(db.comm) + 1
  BY <1>1, <1>3, LotIsChanged
<1>5. d \in Tables
  BY <1>1, <1>3, <1>4, LotIsPut
<1>6. /\ Offered(d.comm) = Offered(db.comm) /\ Stored(d) = Stored(db) /\ d.money = db.money
      /\ DOMAIN d.comm = DOMAIN db.comm
      /\ d.comm[n] = lot /\ \A m \in DOMAIN db.comm \ {n} : d.comm[m] = db.comm[m]
  BY <1>1, <1>3, <1>5, LotRewritten
<1> HIDE DEF d
<1>7. PICK L \in SUBSET DOMAIN d.comm : LotsSettled(d, db', L)
  BY <1>2, <1>4, <1>5, MarketSettles
<1>8. db' \in Tables
  BY <1>2, <1>4, <1>5, CheckMarketKeeps
<1>9. \A m \in DOMAIN d.comm : d.comm[m].own # None => db.comm[m].own # None
  BY <1>1, <1>3, <1>6
<1>10. NoMore(db, db')
  <2>1. GoodsIn(d) = GoodsIn(db) /\ GoodsIn(d) \in Int /\ GoodsIn(db') \in Int /\ MoneyIn(d) = MoneyIn(db)
    BY <1>1, <1>5, <1>6, <1>8, GoodsAreInt DEF MoneyIn
  <2>2. Gone(d.comm, db'.comm) \subseteq Gone(db.comm, db'.comm)
    BY <1>6, <1>9 DEF Gone
  <2> QED
    BY <2>1, <2>2, <1>7 DEF NoMore, LotsSettled
<1>11. ASSUME NEW m \in DOMAIN db.comm
       PROVE  \/ db'.comm[m] = db.comm[m]
              \/ db'.comm[m].own = None /\ db.comm[m].due
              \/ db'.comm[m].own = db.comm[m].own /\ db'.comm[m].price > db.comm[m].price
  <2>1. db'.comm[m] = d.comm[m] \/ (db'.comm[m] = Free /\ ~Awaits(d.comm[m]))
    BY <1>6, <1>7 DEF LotsSettled
  <2>2. Free.own = None
    BY FreeOrNot
  <2>3. CASE m = n
    BY <1>1, <1>2, <1>3, <1>6, <2>1, <2>2, <2>3 DEF Awaits
  <2>4. CASE m # n
    BY <1>6, <2>1, <2>2, <2>4 DEF Awaits
  <2> QED
    BY <2>3, <2>4
<1> QED
  BY <1>10, <1>11 DEF DealStep, BidsKept

\* Goods go from a sector to a lot that was free.
LEMMA SellPostDeals ==
  ASSUME MarketInv, MarketInv', NEW c \in Countries, NEW amount \in Amounts, NEW price \in Offers,
         SellPost(c, amount, price)
  PROVE  DealStep
<1> DEFINE n == FreeSlot(db.comm)
           lot == [own |-> c, amount |-> amount, price |-> price, bidder |-> c,
                   dest |-> c, from |-> cmd[c].sect, due |-> FALSE]
           x == cmd[c].sect
           copy == cmd[c].copy
           sects == [db.sect EXCEPT ![x] = [copy EXCEPT !.items = @ - amount]]
           els == PutAt(db.comm, n, lot)
<1>1. db \in Tables /\ db' \in Tables /\ cmd[c] \in Prompts
  BY DEF MarketInv, TypeOK
<1>2. x \in Countries /\ copy \in Sector /\ copy = db.sect[x] /\ amount \in Nat /\ amount <= copy.items
  BY <1>1, Constants DEF SellPost, SectOk, Prompts, Idle
<1>3. db' = [db EXCEPT !.sect[x] = [copy EXCEPT !.items = @ - amount], !.comm = els]
  BY DEF SellPost
<1>4. lot.own = c /\ lot.amount = amount /\ lot \in Lot
  <2>1. copy.items \in 0..ItemMax /\ ItemMax \in Nat /\ amount \in Nat \ {0} /\ price \in Prices
    BY <1>2, Constants DEF Sector
  <2>2. amount \in 1..ItemMax
    BY <1>2, <2>1
  <2> QED
    BY <1>2, <2>1, <2>2 DEF Lot
<1> HIDE DEF n, lot, x, copy
<1>5. db'.sect = sects /\ db'.comm = els /\ db'.money = db.money
  BY <1>1, <1>3 DEF Tables
<1>6. n \in 1..Len(db.comm) + 1 /\ (n \in DOMAIN db.comm => db.comm[n].own = None)
  BY <1>1, FreeSlotIs DEF Tables, n
<1> HIDE DEF els
<1>7. /\ n \in DOMAIN els /\ els[n] = lot
      /\ DOMAIN db.comm \ {n} = DOMAIN els \ {n} /\ \A m \in DOMAIN db.comm \ {n} : db.comm[m] = els[m]
  <2>1. lot \in Lot \cup {Free}
    BY <1>4
  <2> QED
    <3>1. LET e == PutLot(db, n, lot) IN
          /\ e.comm = els /\ n \in DOMAIN e.comm /\ e.comm[n] = lot
          /\ DOMAIN db.comm \ {n} = DOMAIN e.comm \ {n}
          /\ \A m \in DOMAIN db.comm \ {n} : db.comm[m] = e.comm[m]
      BY <1>1, <1>6, <2>1, LotIsPut DEF els
    <3> QED
      BY <3>1
<1>8. Offered(els) = Offered(db.comm) + amount /\ Offered(db.comm) \in Int
  <2>1. db.comm \in CommTable /\ els \in CommTable
    BY <1>1, <1>5 DEF Tables, CommTable
  <2>2. OnLot(db.comm, n) = 0 /\ OnLot(els, n) = amount
    BY <1>4, <1>6, <1>7, Constants DEF OnLot
  <2>3. Offered(db.comm) \in Int /\ Offered(els) = Offered(db.comm) - OnLot(db.comm, n) + OnLot(els, n)
    BY <1>7, <2>1, OfferedChange
  <2> QED
    BY <1>2, <2>2, <2>3
<1>9. Stored(db') = Stored(db) - amount /\ Stored(db) \in Int
  <2>1. db.sect \in [Countries -> Sector] /\ copy.items \in Nat
    BY <1>1, <1>2, Constants DEF Tables, Sector
  <2>2. /\ \A s \in Countries \ {x} : db.sect[s].items = db'.sect[s].items
        /\ db'.sect[x].items = copy.items - amount
    BY <1>2, <1>5, <2>1 DEF Sector
  <2>3. Stored(db) \in Int /\ Stored(db') = Stored(db) - db.sect[x].items + db'.sect[x].items
    BY <1>1, <1>2, <2>2, StoredChange
  <2> QED
    BY <1>2, <2>1, <2>2, <2>3
<1>10. NoMore(db, db')
  <2>1. GoodsIn(db') = GoodsIn(db) /\ GoodsIn(db) \in Int /\ MoneyIn(db') = MoneyIn(db) /\ MoneyIn(db) \in Int
    <3>1. GoodsIn(db) = Stored(db) + Offered(db.comm) /\ GoodsIn(db) \in Int /\ MoneyIn(db) \in Int
      BY <1>1, GoodsAreInt
    <3>2. GoodsIn(db') = Stored(db') + Offered(els)
      BY <1>1, <1>5, GoodsAreInt
    <3>3. MoneyIn(db') = MoneyIn(db)
      BY <1>5 DEF MoneyIn
    <3> QED
      BY <1>2, <1>8, <1>9, <3>1, <3>2, <3>3
  <2> QED
    BY <2>1 DEF NoMore
<1>11. BidsKept
  BY <1>5, <1>6, <1>7 DEF BidsKept, BidOut
<1> QED
  BY <1>10, <1>11 DEF DealStep

\* Who resets a lot that another bid for is a deity.
LEMMA MayReset ==
  ASSUME MarketInv, ResetsOwn, NEW c \in Countries, cmd[c].op = "reset", LotOk(c), cmd' = [cmd EXCEPT ![c] = Idle],
         \A m \in DOMAIN db.comm \ {cmd[c].lot} : db'.comm[m] = db.comm[m]
  PROVE  BidsKept
<1>1. cmd \in [Countries -> Prompts]
  BY DEF MarketInv, TypeOK
<1>2. CASE c \in Deities
  <2>1. Intervenes(cmd[c].lot)
    BY <1>1, <1>2 DEF Intervenes
  <2> QED
    BY <2>1 DEF BidsKept
<1>3. CASE c \notin Deities
  <2>1. ~BidOut(db.comm[cmd[c].lot])
    BY <1>3 DEF ResetsOwn, LotOk, BidOut
  <2> QED
    BY <2>1 DEF BidsKept
<1> QED
  BY <1>2, <1>3

LEMMA ResetPriceDeals ==
  ASSUME MarketInv, MarketInv', ResetsOwn, NEW c \in Countries, NEW price \in Prices, ResetPrice(c, price)
  PROVE  DealStep
<1> DEFINE n == cmd[c].lot
           lot == [cmd[c].copy EXCEPT !.price = price, !.due = FALSE]
<1>0. db' \in Tables
  BY DEF MarketInv, TypeOK
<1>1. /\ db \in Tables /\ n \in DOMAIN db.comm /\ cmd[c].copy \in Lot /\ db.comm[n] = cmd[c].copy
  BY CopyIsLot DEF ResetPrice
<1>2. lot \in Lot /\ lot.amount = cmd[c].copy.amount
  BY <1>1 DEF Lot
<1>3. db' = [db EXCEPT !.comm[n] = lot] /\ cmd[c].op = "reset" /\ LotOk(c) /\ cmd' = [cmd EXCEPT ![c] = Idle]
  BY DEF ResetPrice
<1> HIDE DEF lot
<1>4. db' = PutLot(db, n, lot)
  BY <1>1, <1>2, <1>3, LotIsChanged
<1>5. /\ Offered(db'.comm) = Offered(db.comm) /\ Stored(db') = Stored(db) /\ db'.money = db.money
      /\ \A m \in DOMAIN db.comm \ {n} : db'.comm[m] = db.comm[m]
  <2> HIDE DEF n
  <2> QED
    BY <1>0, <1>1, <1>2, <1>4, LotRewritten
<1>6. NoMore(db, db')
  BY <1>0, <1>1, <1>5, AsMany
<1>7. BidsKept
  BY <1>3, <1>5, MayReset
<1> QED
  BY <1>6, <1>7 DEF DealStep

\* A lot goes, and no more than was in it comes to a sector.
LEMMA LotGoes ==
  ASSUME NEW d \in Tables, NEW e \in Tables, NEW n \in DOMAIN d.comm, d.comm[n] \in Lot, SameSize(d, e),
         e.comm[n] = Free, \A m \in DOMAIN d.comm \ {n} : e.comm[m] = d.comm[m],
         Stored(e) <= Stored(d) + d.comm[n].amount, e.money = d.money
  PROVE  NoMore(d, e)
<1>1. Offered(e.comm) = Offered(d.comm) - d.comm[n].amount /\ d.comm[n].amount \in Nat
  BY LessOffered
<1>2. /\ GoodsIn(d) = Stored(d) + Offered(d.comm) /\ GoodsIn(e) = Stored(e) + Offered(e.comm)
      /\ Stored(d) \in Int /\ Stored(e) \in Int /\ Offered(d.comm) \in Int
      /\ MoneyIn(d) \in Int /\ MoneyIn(e) = MoneyIn(d)
  BY GoodsAreInt DEF MoneyIn
<1>3. n \in Gone(d.comm, e.comm)
  BY FreeOrNot DEF Gone
<1> QED
  BY <1>1, <1>2, <1>3 DEF NoMore

LEMMA WithdrawDeals ==
  ASSUME MarketInv, MarketInv', ResetsOwn, NEW c \in Countries, Withdraw(c) PROVE DealStep
<1> DEFINE n == cmd[c].lot
           x == cmd[c].copy.from
           m == db.sect[x].items + cmd[c].copy.amount
           k == IF m > ItemMax THEN ItemMax ELSE m
           d == [db EXCEPT !.sect[x].items = k]
<1>0. db' \in Tables
  BY DEF MarketInv, TypeOK
<1>1. /\ db \in Tables /\ n \in DOMAIN db.comm /\ cmd[c].copy \in Lot /\ db.comm[n] = cmd[c].copy
  BY CopyIsLot DEF Withdraw
<1>2. /\ x \in Countries /\ cmd[c].copy.amount \in Nat /\ ItemMax \in Nat /\ db.sect \in [Countries -> Sector]
      /\ db.sect[x].items \in Nat
  <2>1. x \in Countries /\ cmd[c].copy.amount \in Nat /\ ItemMax \in Nat /\ db.sect \in [Countries -> Sector]
    BY <1>1, Constants DEF Lot, Tables
  <2> QED
    BY <2>1 DEF Sector
<1>3. db' = FreeLot(d, n) /\ cmd[c].op = "reset" /\ LotOk(c) /\ cmd' = [cmd EXCEPT ![c] = Idle]
  BY DEF Withdraw
<1>4. k <= db.sect[x].items + cmd[c].copy.amount
  BY <1>2
<1> HIDE DEF n, x, k
<1>5. d.comm = db.comm /\ d.money = db.money /\ d.sect = [db.sect EXCEPT ![x].items = k]
      /\ DOMAIN d = {"money", "sect", "unit", "comm", "trade"} /\ d.trade = db.trade
  BY <1>1 DEF Tables
<1> HIDE DEF d
<1>6. /\ db'.comm = [db.comm EXCEPT ![n] = Free] /\ db'.money = db.money /\ db'.trade = db.trade
      /\ db'.sect = [db.sect EXCEPT ![x].items = k]
  BY <1>3, <1>5 DEF FreeLot
<1>7. /\ \A s \in Countries \ {x} : db.sect[s].items = db'.sect[s].items
      /\ db'.sect[x].items = k
  BY <1>2, <1>6 DEF Sector
<1>8. Stored(db') = Stored(db) - db.sect[x].items + db'.sect[x].items /\ Stored(db) \in Int /\ k \in Nat
  BY <1>0, <1>1, <1>2, <1>7, StoredChange
<1>9. Stored(db') <= Stored(db) + db.comm[n].amount
  BY <1>1, <1>2, <1>4, <1>7, <1>8
<1>10. /\ db'.comm[n] = Free /\ \A i \in DOMAIN db.comm \ {n} : db'.comm[i] = db.comm[i]
       /\ DOMAIN db'.comm = DOMAIN db.comm
  BY <1>1, <1>6
<1>11. SameSize(db, db')
  <2>1. /\ DOMAIN db.comm = 1..Len(db.comm) /\ Len(db.comm) \in Nat
        /\ DOMAIN db'.comm = 1..Len(db'.comm) /\ Len(db'.comm) \in Nat
    BY <1>0, <1>1, LotInTable
  <2>2. Len(db'.comm) = Len(db.comm)
    BY <1>10, <2>1
  <2> QED
    BY <1>6, <1>10, <2>2 DEF SameSize
<1>12. NoMore(db, db')
  BY <1>0, <1>1, <1>6, <1>9, <1>10, <1>11, LotGoes
<1>13. BidsKept
  BY <1>3, <1>10, MayReset DEF n
<1> QED
  BY <1>12, <1>13 DEF DealStep

LEMMA DestroyDeals ==
  ASSUME MarketInv, MarketInv', ResetsOwn, NEW c \in Countries, Destroy(c) PROVE DealStep
<1> DEFINE n == cmd[c].lot
<1>0. db' \in Tables
  BY DEF MarketInv, TypeOK
<1>1. /\ db \in Tables /\ n \in DOMAIN db.comm /\ cmd[c].copy \in Lot /\ db.comm[n] = cmd[c].copy
  BY CopyIsLot DEF Destroy
<1>2. db' = FreeLot(db, n) /\ cmd[c].op = "reset" /\ LotOk(c) /\ cmd' = [cmd EXCEPT ![c] = Idle]
  BY DEF Destroy
<1> HIDE DEF n
<1>3. /\ SameSize(db, db') /\ db'.money = db.money /\ db'.sect = db.sect /\ db'.comm[n] = Free
      /\ \A m \in DOMAIN db.comm \ {n} : db'.comm[m] = db.comm[m]
  BY <1>1, <1>2, LotIsFreed
<1>4. Stored(db') <= Stored(db) + db.comm[n].amount
  <2>1. Stored(db') = Stored(db) /\ Stored(db) \in Int
    BY <1>1, <1>3, GoodsAreInt DEF Stored
  <2>2. db.comm[n].amount \in Nat
    BY <1>1, Constants DEF Lot
  <2> QED
    BY <2>1, <2>2
<1>5. NoMore(db, db')
  BY <1>0, <1>1, <1>3, <1>4, LotGoes
<1>6. BidsKept
  BY <1>2, <1>3, MayReset DEF n
<1> QED
  BY <1>5, <1>6 DEF DealStep

LEMMA LotDueDeals ==
  ASSUME MarketInv, MarketInv', NEW n \in DOMAIN db.comm, LotDue(n) PROVE DealStep
<1> DEFINE lot == [db.comm[n] EXCEPT !.due = TRUE]
<1>1. db \in Tables /\ db' \in Tables
  BY DEF MarketInv, TypeOK
<1>2. db.comm[n] \in Lot
  BY <1>1, LotInTable DEF LotDue
<1>3. lot \in Lot /\ lot.amount = db.comm[n].amount
  BY <1>2 DEF Lot
<1>4. db' = [db EXCEPT !.comm[n] = lot]
  BY <1>1 DEF LotDue, Tables
<1> HIDE DEF lot
<1>5. db' = PutLot(db, n, lot)
  BY <1>1, <1>3, <1>4, LotIsChanged
<1>6. /\ Offered(db'.comm) = Offered(db.comm) /\ Stored(db') = Stored(db) /\ db'.money = db.money
      /\ db'.comm[n] = lot /\ \A m \in DOMAIN db.comm \ {n} : db'.comm[m] = db.comm[m]
  BY <1>1, <1>2, <1>3, <1>5, LotRewritten
<1>7. NoMore(db, db')
  BY <1>1, <1>6, AsMany
<1>8. BidsKept
  BY <1>6 DEF BidsKept, lot
<1> QED
  BY <1>7, <1>8 DEF DealStep

\* A bid for a unit is placed, and what is due on the block settled.
LEMMA TradeBidDeals ==
  ASSUME MarketInv, NEW c \in Countries, NEW bid \in Prices, TradeBid(c, bid) PROVE DealStep
<1> DEFINE n == cmd[c].lot
           copy == cmd[c].copy
           t == Outbid(copy, c, bid)
           d == PutTrade(db, n, t)
<1>1. /\ db \in Tables /\ n \in DOMAIN db.trade /\ copy \in Trade /\ db.trade[n] = copy
  <2>1. db \in Tables /\ cmd[c] \in Prompts
    BY DEF MarketInv, TypeOK
  <2>2. n \in DOMAIN db.trade /\ copy \in Trade
    BY <2>1 DEF TradeBid, Prompts, Idle
  <2> QED
    BY <2>1, <2>2 DEF TradeBid, TradeOk
<1>2. db' = CheckTrade([db EXCEPT !.trade[n] = t])
  BY DEF TradeBid
<1> HIDE DEF n, copy
<1>3. t \in Trade /\ t.own = copy.own /\ t.unit = copy.unit
  BY <1>1 DEF Trade, Outbid
<1> HIDE DEF t
<1>4. [db EXCEPT !.trade[n] = t] = d /\ n \in 1..Len(db.trade) + 1 /\ Len(PutAt(db.trade, n, t)) = Len(db.trade)
  BY <1>1, <1>3, TradeIsChanged
<1>5. /\ d \in Tables /\ d.trade = PutAt(db.trade, n, t) /\ d.money = db.money /\ d.comm = db.comm /\ d.sect = db.sect
      /\ n \in DOMAIN d.trade /\ d.trade[n] = t
      /\ DOMAIN db.trade \ {n} = DOMAIN d.trade \ {n} /\ \A m \in DOMAIN db.trade \ {n} : db.trade[m] = d.trade[m]
  BY <1>1, <1>3, <1>4, TradeIsPut
<1> HIDE DEF d
<1>6. \A m \in DOMAIN d.trade : d.trade[m].own # None =>
         m \in DOMAIN db.trade /\ db.trade[m].own # None /\ d.trade[m].unit = db.trade[m].unit
  BY <1>1, <1>3, <1>5
<1>7. OneLotEach(d)
  BY <1>6 DEF MarketInv, OneLotPerUnit, OneLotEach, LiveTrades
<1>8. PICK K \in SUBSET DOMAIN d.trade : TradesSettled(d, db', K)
  BY <1>2, <1>4, <1>5, <1>7, TradesSettle
<1>9. db' \in Tables
  BY <1>2, <1>4, <1>5, CheckTradeKeeps
<1>10. db'.comm = db.comm /\ db'.sect = db.sect /\ MoneyIn(db') <= MoneyIn(db)
  BY <1>5, <1>8 DEF TradesSettled, MoneyIn
<1>11. GoodsIn(db') = GoodsIn(db) /\ GoodsIn(db) \in Int
  BY <1>1, <1>9, <1>10, GoodsAreInt DEF Stored
<1> QED
  BY <1>10, <1>11, BidsLeft DEF DealStep, NoMore

\* The market thread sells what is due.
LEMMA CheckDeals ==
  ASSUME MarketInv, Check PROVE DealStep
<1> DEFINE d == CheckMarket(db)
<1>1. db \in Tables
  BY DEF MarketInv, TypeOK
<1>2. d \in Tables /\ SameSize(db, d) /\ d.trade = db.trade
  BY <1>1, CheckMarketKeeps
<1>3. PICK L \in SUBSET DOMAIN db.comm : LotsSettled(db, d, L)
  BY <1>1, MarketSettles
<1>4. db' = CheckTrade(d)
  BY DEF Check
<1> HIDE DEF d
<1>5. OneLotEach(d)
  BY <1>2 DEF MarketInv, OneLotPerUnit, OneLotEach, LiveTrades
<1>6. PICK K \in SUBSET DOMAIN d.trade : TradesSettled(d, db', K)
  BY <1>2, <1>4, <1>5, TradesSettle
<1>7. db' \in Tables
  BY <1>2, <1>4, CheckTradeKeeps
<1>8. db'.comm = d.comm /\ db'.sect = d.sect /\ MoneyIn(db') <= MoneyIn(d)
  BY <1>6 DEF TradesSettled
<1>9. GoodsIn(db') = GoodsIn(d) /\ GoodsIn(d) \in Int /\ GoodsIn(db) \in Int
      /\ MoneyIn(db) \in Int /\ MoneyIn(d) \in Int /\ MoneyIn(db') \in Int
  BY <1>1, <1>2, <1>7, <1>8, GoodsAreInt DEF Stored
<1>10. NoMore(db, db')
  BY <1>3, <1>8, <1>9 DEF NoMore, LotsSettled
<1>11. \A m \in DOMAIN db.comm : \/ db'.comm[m] = db.comm[m]
                                 \/ db'.comm[m].own = None /\ db.comm[m].due
  BY <1>3, <1>8, FreeOrNot DEF LotsSettled, Awaits
<1> QED
  BY <1>10, <1>11 DEF DealStep, BidsKept

\* The rest of the game writes no lot, and what it does is counted.
LEMMA RestDeals ==
  ASSUME MarketInv, MarketInv', Rest PROVE DealStep
<1>1. /\ db \in Tables /\ db' \in Tables
      /\ outside \in [events : Nat, spent : [Countries -> Nat]]
  BY DEF MarketInv, TypeOK
<1>2. db.sect \in [Countries -> Sector] /\ Struck \subseteq Countries
  BY <1>1, Constants DEF Tables
<1>3. CASE Happens
  <2>1. outside'.events = outside.events + 1 /\ outside.events \in Nat
    BY <1>1, <1>3 DEF Happens
  <2>2. outside' # outside
    BY <2>1
  <2>3. db'.comm = db.comm \/ \E s \in Struck : Restore(s)
    BY <1>1, <2>2 DEF Rest, Spend, Designate, Restore, Produce, Conquer, Sink, Capture, Tables
  <2>4. db'.comm = db.comm
    BY <1>1, <2>3 DEF Restore, Tables
  <2> QED
    BY <2>2, <2>4, BidsLeft DEF DealStep
<1>4. CASE \E c \in Struck, p \in Offers : Spend(c, p)
  <2>1. outside'.events = outside.events + 1 /\ outside.events \in Nat
    BY <1>1, <1>4 DEF Spend
  <2>2. outside' # outside
    BY <2>1
  <2>3. db'.comm = db.comm
    BY <1>1, <1>4 DEF Spend, Tables
  <2> QED
    BY <2>2, <2>3, BidsLeft DEF DealStep
<1>5. ASSUME NEW s \in Struck, Restore(s) PROVE DealStep
  <2>1. db'.comm = db.comm /\ db'.money = db.money
        /\ db'.sect = [db.sect EXCEPT ![s].kind = IF @ = "other" THEN "unfinished" ELSE "warehouse"]
    BY <1>1, <1>5 DEF Restore, Tables
  <2>2. \A x \in Countries : db'.sect[x].items = db.sect[x].items
    BY <1>2, <2>1 DEF Sector
  <2>3. Stored(db') = Stored(db)
    BY <2>2 DEF Stored
  <2>4. NoMore(db, db')
    BY <1>1, <2>1, <2>3, AsMany
  <2> QED
    BY <2>1, <2>4, BidsLeft DEF DealStep
<1>6. Happens \/ (\E c \in Struck, p \in Offers : Spend(c, p)) \/ (\E s \in Struck : Restore(s))
  BY DEF Rest, Designate, Produce, Conquer, Sink, Capture
<1> QED
  BY <1>3, <1>4, <1>5, <1>6

\* What a command remembers when it waits to reset a lot.
LEMMA ResetsStay ==
  ASSUME MarketInv, ResetsOwn, [Next]_vars
  PROVE  ResetsOwn'
<1>1. cmd \in [Countries -> Prompts]
  BY DEF MarketInv, TypeOK
<1>2. ASSUME cmd' = cmd PROVE ResetsOwn'
  BY <1>2 DEF ResetsOwn
<1>3. ASSUME NEW c \in Countries, NEW x, cmd' = [cmd EXCEPT ![c] = x],
             x.op = "reset" => c \in Deities \/ (x.copy.own = c /\ x.copy.bidder = c)
      PROVE  ResetsOwn'
  <2>1. \A b \in Countries : cmd'[b] = IF b = c THEN x ELSE cmd[b]
    BY <1>1, <1>3
  <2> QED
    BY <1>3, <2>1 DEF ResetsOwn
<1>4. Idle.op # "reset"
  BY DEF Idle
<1>5. ASSUME NEW c \in Countries, Goods(c) PROVE ResetsOwn'
  <2>1. ASSUME NEW n \in DOMAIN db.comm, BuyLook(c, n) PROVE ResetsOwn'
    <3> DEFINE x == [op |-> "price", lot |-> n, copy |-> db.comm[n]]
    <3>1. cmd' = [cmd EXCEPT ![c] = x] /\ x.op # "reset"
      BY <2>1 DEF BuyLook
    <3> HIDE DEF x
    <3> QED
      BY <1>3, <3>1
  <2>2. ASSUME NEW n \in DOMAIN db.comm, ResetLook(c, n) PROVE ResetsOwn'
    <3> DEFINE x == [op |-> "reset", lot |-> n, copy |-> db.comm[n]]
    <3>1. cmd' = [cmd EXCEPT ![c] = x] /\ x.copy = db.comm[n]
          /\ (c \in Deities \/ (db.comm[n].own = c /\ db.comm[n].bidder = c))
      BY <2>2 DEF ResetLook
    <3> HIDE DEF x
    <3> QED
      BY <1>3, <3>1
  <2>3. ASSUME NEW p \in Prices, BuyBid(c, p) PROVE ResetsOwn'
    <3> DEFINE x == [op |-> "dest", lot |-> cmd[c].lot, copy |-> cmd[c].copy, bid |-> p]
    <3>1. cmd' = [cmd EXCEPT ![c] = x] /\ x.op # "reset"
      BY <2>3 DEF BuyBid
    <3> HIDE DEF x
    <3> QED
      BY <1>3, <3>1
  <2>4. ASSUME NEW s \in Countries, SellLook(c, s) PROVE ResetsOwn'
    <3> DEFINE x == [op |-> "sell", sect |-> s, copy |-> db.sect[s]]
    <3>1. cmd' = [cmd EXCEPT ![c] = x] /\ x.op # "reset"
      BY <2>4 DEF SellLook
    <3> HIDE DEF x
    <3> QED
      BY <1>3, <3>1
  <2>5. ASSUME cmd' = [cmd EXCEPT ![c] = Idle] PROVE ResetsOwn'
    BY <1>3, <1>4, <2>5
  <2>6. \/ \E n \in DOMAIN db.comm : BuyLook(c, n) \/ ResetLook(c, n)
        \/ \E p \in Prices : BuyBid(c, p)
        \/ \E s \in Countries : SellLook(c, s)
        \/ cmd' = [cmd EXCEPT ![c] = Idle]
    BY <1>5 DEF Goods, ResetPrice, BuyPlace, SellPost, Withdraw, Destroy
  <2> QED
    BY <2>1, <2>2, <2>3, <2>4, <2>5, <2>6
<1>6. ASSUME NEW c \in Countries, Block(c) PROVE ResetsOwn'
  <2>1. ASSUME NEW u \in Units, SetLook(c, u) PROVE ResetsOwn'
    <3> DEFINE x == [op |-> "set", unit |-> u, unitown |-> db.unit[u]]
    <3>1. cmd' = [cmd EXCEPT ![c] = x] /\ x.op # "reset"
      BY <2>1 DEF SetLook
    <3> HIDE DEF x
    <3> QED
      BY <1>3, <3>1
  <2>2. ASSUME NEW n \in DOMAIN db.trade, TradeLook(c, n) PROVE ResetsOwn'
    <3> DEFINE x == [op |-> "trade", lot |-> n, copy |-> db.trade[n],
                     unitown |-> db.unit[db.trade[n].unit], can |-> CanSpend(db, c)]
    <3>1. cmd' = [cmd EXCEPT ![c] = x] /\ x.op # "reset"
      BY <2>2 DEF TradeLook
    <3> HIDE DEF x
    <3> QED
      BY <1>3, <3>1
  <2>3. ASSUME cmd' = [cmd EXCEPT ![c] = Idle] PROVE ResetsOwn'
    BY <1>3, <1>4, <2>3
  <2>4. \/ \E u \in Units : SetLook(c, u)
        \/ \E n \in DOMAIN db.trade : TradeLook(c, n)
        \/ cmd' = [cmd EXCEPT ![c] = Idle]
    BY <1>6 DEF Block, SetPrice, TradeBid, SetOff
  <2> QED
    BY <2>1, <2>2, <2>3, <2>4
<1>7. ASSUME NEW c \in Countries, GiveUp(c) PROVE ResetsOwn'
  BY <1>3, <1>4, <1>7 DEF GiveUp
<1>8. ASSUME Check \/ Time \/ Rest \/ UNCHANGED vars PROVE cmd' = cmd
  BY <1>8 DEF Check, Time, LotDue, TradeDue, Rest, Spend, Designate, Restore, Produce, Conquer, Sink, Capture,
     Happens, vars
<1> QED
  BY <1>2, <1>5, <1>6, <1>7, <1>8 DEF Next

\* Every step of the market keeps its deals.
LEMMA EveryDeal ==
  ASSUME MarketInv, MarketInv', ResetsOwn, [Next]_vars
  PROVE  DealStep
<1>1. db \in Tables /\ db' \in Tables
  BY DEF MarketInv, TypeOK
<1>2. ASSUME UNCHANGED db PROVE DealStep
  BY <1>1, <1>2, NoDeal
<1>3. ASSUME NEW els, db' = [db EXCEPT !.trade = els] PROVE DealStep
  <2>1. db'.comm = db.comm /\ db'.money = db.money /\ db'.sect = db.sect
    BY <1>1, <1>3 DEF Tables
  <2> QED
    BY <1>1, <2>1, NoDeal
<1>4. ASSUME NEW c \in Countries, Goods(c) PROVE DealStep
  <2>1. \/ UNCHANGED db
        \/ \E p \in Prices : ResetPrice(c, p)
        \/ \E s \in Countries : BuyPlace(c, s)
        \/ \E p \in Offers, a \in Amounts : SellPost(c, a, p)
        \/ Withdraw(c) \/ Destroy(c)
    BY <1>4 DEF Goods, BuyLook, ResetLook, BuyBid, SellLook
  <2> QED
    BY <1>2, <2>1, ResetPriceDeals, BuyPlaceDeals, SellPostDeals, WithdrawDeals, DestroyDeals
<1>5. ASSUME NEW c \in Countries, Block(c) PROVE DealStep
  <2>1. \/ UNCHANGED db
        \/ \E p \in Prices : TradeBid(c, p)
        \/ \E els : db' = [db EXCEPT !.trade = els]
    <3>1. ASSUME NEW p \in Offers, SetPrice(c, p) PROVE \E els : db' = [db EXCEPT !.trade = els]
      BY <1>1, <3>1 DEF SetPrice, Tables
    <3>2. ASSUME SetOff(c) PROVE \E els : db' = [db EXCEPT !.trade = els]
      BY <1>1, <3>2 DEF SetOff, Tables
    <3>3. \/ UNCHANGED db
          \/ \E p \in Prices : TradeBid(c, p)
          \/ \E p \in Offers : SetPrice(c, p)
          \/ SetOff(c)
      BY <1>5 DEF Block, SetLook, TradeLook
    <3> QED
      BY <3>1, <3>2, <3>3
  <2> QED
    BY <1>2, <1>3, <2>1, TradeBidDeals
<1>6. ASSUME NEW c \in Countries, GiveUp(c) PROVE DealStep
  BY <1>2, <1>6 DEF GiveUp
<1>7. CASE Check
  BY <1>7, CheckDeals
<1>8. CASE Time
  <2>1. ASSUME NEW n \in DOMAIN db.trade, TradeDue(n) PROVE \E els : db' = [db EXCEPT !.trade = els]
    BY <1>1, <2>1 DEF TradeDue, Tables
  <2> QED
    BY <1>3, <1>8, <2>1, LotDueDeals DEF Time
<1>9. CASE Rest
  BY <1>9, RestDeals
<1>10. CASE UNCHANGED vars
  BY <1>2, <1>10 DEF vars
<1> QED
  BY <1>4, <1>5, <1>6, <1>7, <1>8, <1>9, <1>10 DEF Next

\* Whatever the taxes, the market thread moves money, goods and units just as
\* the sales it makes say, and a bid for goods stands until a higher one or the
\* end of its time.
THEOREM SalesAndBidsStand == Spec => Settlement /\ BidStands
<1>1. Init => ResetsOwn
  BY DEF Init, ResetsOwn, Idle
<1>2. MarketInv /\ ResetsOwn /\ [Next]_vars => ResetsOwn'
  BY ResetsStay
<1>3. MarketInv /\ MarketInv' /\ ResetsOwn /\ [Next]_vars => [BidsKept]_vars
  BY EveryDeal DEF DealStep
<1>4. MarketInv => [Check => Settles]_vars
  BY CheckSettles
<1>5. [][BidsKept]_vars <=> BidStands
  BY DEF BidStands, BidsKept
<1> QED
  BY <1>1, <1>2, <1>3, <1>4, <1>5, MarketInvariance, PTL DEF Spec, Settlement

\* If the buyer of goods pays at least their price, then deals stand, are
\* settled as their sales say, and nothing comes from nothing: neither goods
\* nor money.
THEOREM DealsAreKept == BuyTax >= 100 => (Spec => DealsStand)
<1> SUFFICES ASSUME BuyTax >= 100 PROVE Spec => DealsStand
  OBVIOUS
<1> DEFINE Nothing == outside' = outside => /\ MoneyIn(db') <= MoneyIn(db)
                                            /\ GoodsIn(db') <= GoodsIn(db)
                                            /\ GoodsIn(db') < GoodsIn(db) => Gone(db.comm, db'.comm) # {}
<1>1. Init => ResetsOwn
  BY DEF Init, ResetsOwn, Idle
<1>2. MarketInv /\ ResetsOwn /\ [Next]_vars => ResetsOwn'
  BY ResetsStay
<1>3. MarketInv /\ MarketInv' /\ ResetsOwn /\ [Next]_vars => [Nothing]_vars
  BY EveryDeal DEF DealStep, NoMore
<1>4. Spec => [][Nothing]_vars
  BY <1>1, <1>2, <1>3, MarketInvariance, PTL DEF Spec
<1>5. Spec => NothingForNothing
  BY <1>4 DEF NothingForNothing
<1> QED
  BY <1>5, SalesAndBidsStand, PTL DEF DealsStand

=============================================================================
