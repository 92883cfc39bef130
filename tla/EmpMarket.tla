----------------------------- MODULE EmpMarket -----------------------------
(***************************************************************************)
(* The market: commodity lots (buy, sell, reset) and units on the trading  *)
(* block (trade, set), and the settlement of what is due by check_market() *)
(* and check_trade(), which run in a thread of their own every five        *)
(* minutes and at the beginning of most of these commands.                 *)
(*                                                                         *)
(* A command gives way only at its prompts: what it read before one may    *)
(* have changed after it.  Everything between two prompts is one step.     *)
(* cmd[c] says at which prompt c's command stands and what it remembers.   *)
(* A command may end at any prompt, because the player gives up, a check   *)
(* fails or the update aborts it: that is GiveUp.                          *)
(*                                                                         *)
(* The bidding time of a lot is either over (due) or not.  Prices and      *)
(* taxes are whole numbers, so that roundavg() has nothing to round.       *)
(* There is one commodity, and every country starts with one warehouse,    *)
(* which has the country's name.                                           *)
(***************************************************************************)
EXTENDS Integers, SequencesExt

CONSTANTS Countries,   \* the countries that play
          Deities,     \* those whose players are deities
          Sellers,     \* bound: those who offer anything
          Bidders,     \* bound: those who bid for anything
          None,        \* no country: the owner of a free lot or a sunk unit
          Units,       \* unit ids
          BuyTax,      \* per cent of the price the buyer of goods pays
          TradeTax,    \* per cent of the price the seller of a unit gets
          ItemMax,     \* ITEM_MAX, what a sector can hold
          Prices,      \* the prices and bids the players name
          Offers,      \* bound: the prices sellers ask
          Amounts,     \* bound: how much they sell at once
          Money0,      \* a country's money in the beginning
          Items0,      \* what is in a warehouse in the beginning
          MaxLots,     \* bound: length of the commodity table
          MaxTrades,   \* bound: length of the trade table
          MaxBusy,     \* bound: how many players are at a prompt at once
          Struck,      \* bound: whose money and warehouse the rest of the game changes
          MaxEvents    \* bound: how often it does

ASSUME MarketAssumption ==
    /\ Deities \subseteq Countries /\ Sellers \subseteq Countries /\ Bidders \subseteq Countries
    /\ Struck \subseteq Countries
    /\ None \notin Countries
    /\ IsFiniteSet(Countries) /\ Sellers # {}
    /\ BuyTax \in Nat /\ TradeTax \in 0..100 /\ ItemMax \in Nat
    /\ Money0 \in Nat /\ Items0 \in 0..ItemMax /\ MaxLots \in Nat /\ MaxTrades \in Nat
    /\ Prices \subseteq Nat \ {0} /\ Offers \subseteq Prices /\ Amounts \subseteq Nat \ {0}
    /\ \A p \in Prices : (p * BuyTax) % 100 = 0 /\ (p * TradeTax) % 100 = 0

VARIABLES db,      \* the tables: nations, sectors, units and the two markets
          cmd,     \* the command each country's player is at
          outside  \* what happened outside the market
vars == <<db, cmd, outside>>

Free == [own |-> None]  \* a lot nobody owns
Idle == [op |-> "none"]

LiveLots(d)   == {n \in DOMAIN d.comm : d.comm[n].own # None}
LiveTrades(d) == {n \in DOMAIN d.trade : d.trade[n].own # None}
\* the lots of a table that c has bid for
Bids(lots, c) ==
    {n \in DOMAIN lots : lots[n].own \notin {None, c} /\ lots[n].bidder = c}

\* what the winner of a lot pays, what its seller gets
Cost(lot) == (lot.price * lot.amount * BuyTax) \div 100
Gain(lot) == lot.price * lot.amount
\* what the seller of a unit gets
TradeGain(t) == (t.price * TradeTax) \div 100

\* the bids c has out, as c_buy() and c_trade() add them up
Tally(d, c) == SumFunction([n \in Bids(d.trade, c) |-> TradeGain(d.trade[n])])
               + SumFunction([n \in Bids(d.comm, c) |-> Cost(d.comm[n])])

CanSpendAll(d, c) == d.money[c]  \* Mutant: forget the other bids
CanSpend(d, c) == d.money[c] - Tally(d, c)

MayStart(c) == /\ cmd[c] = Idle
               /\ Cardinality({b \in Countries : cmd[b] # Idle}) < MaxBusy

Event == outside.events < MaxEvents

---------------------------------------------------------------------------
(* Settlement.                                                             *)

Full(d, lot) == d.sect[lot.dest].items + lot.amount > ItemMax

Awaits(lot) == lot.bidder = lot.own \/ ~lot.due  \* nothing to settle yet
FreeLot(d, n) == [d EXCEPT !.comm[n] = Free]

FallsThrough(d, lot) == \/ d.money[lot.bidder] < Cost(lot)
                        \/ d.sect[lot.dest].kind = "other"
                        \/ Full(d, lot)

\* One turn of the loop of check_market().  The lot goes, sold or not.
SettleLot(d, n) ==
    LET lot == d.comm[n] IN
    IF lot.own = None \/ Awaits(lot) THEN d
    ELSE IF FallsThrough(d, lot) THEN FreeLot(d, n)
    ELSE FreeLot([d EXCEPT !.sect[lot.dest].items = @ + lot.amount,
                           !.money[lot.bidder] = @ - Cost(lot),
                           !.money[lot.own] = @ + Gain(lot)], n)

CheckMarket(d) == FoldLeftDomain(SettleLot, d, d.comm)

\* One turn of the loop of check_trade().
SettleTrade(d, n) ==
    LET t == d.trade[n]
        off == [d EXCEPT !.trade[n] = Free]
    IN  IF t.own = None THEN d
        ELSE IF d.unit[t.unit] # t.own THEN off
        ELSE IF Awaits(t) THEN d
        ELSE IF d.money[t.bidder] < t.price THEN off
        ELSE [off EXCEPT !.money[t.bidder] = @ - t.price,
                         !.money[t.own] = @ + TradeGain(t),
                         !.unit[t.unit] = t.bidder]

CheckTrade(d) == FoldLeftDomain(SettleTrade, d, d.trade)

---------------------------------------------------------------------------
(* Buying goods: c_buy().                                                  *)

\* It reads the lot, then asks for the price.
BuyLook(c, n) ==
    /\ c \in Bidders /\ MayStart(c)
    /\ db.comm[n].own \notin {None, c}
    /\ cmd' = [cmd EXCEPT ![c] = [op |-> "price", lot |-> n, copy |-> db.comm[n]]]
    /\ UNCHANGED <<db, outside>>

\* check_comm_ok(): the copy agrees with the lot in the table
LotOk(c) == cmd[c].copy = db.comm[cmd[c].lot]

\* The price is named; it asks for the destination.
BuyBid(c, bid) ==
    LET lot == [cmd[c].copy EXCEPT !.price = bid] IN
    /\ cmd[c].op = "price"
    /\ LotOk(c)
    /\ Cost(lot) <= CanSpend(db, c)
    /\ cmd' = [cmd EXCEPT ![c] = [op |-> "dest", lot |-> cmd[c].lot,
                                  copy |-> cmd[c].copy, bid |-> bid]]
    /\ UNCHANGED <<db, outside>>

\* a bid, and five more minutes for the others if it is a new bidder's
Outbid(lot, c, bid) ==
    [lot EXCEPT !.price = bid, !.bidder = c, !.due = @ /\ lot.bidder = c]

\* The destination is named: the bid is placed, and the market settled.
BuyPlace(c, s) ==
    /\ cmd[c].op = "dest"
    /\ LotOk(c)
    /\ LET lot == cmd[c].copy
           bid == cmd[c].bid
       IN  /\ db.sect[s].kind = "warehouse" /\ db.sect[s].own = c
           /\ db.sect[s].items + lot.amount <= ItemMax
           /\ bid * lot.amount <= db.money[c]
           /\ bid > lot.price
           /\ db' = CheckMarket([db EXCEPT !.comm[cmd[c].lot] =
                                   [Outbid(lot, c, bid) EXCEPT !.dest = s]])
    /\ cmd' = [cmd EXCEPT ![c] = Idle]
    /\ UNCHANGED outside

---------------------------------------------------------------------------
(* Selling goods: c_sell().                                                *)

\* It reads the sector, then asks for quantity and price.
SellLook(c, s) ==
    /\ c \in Sellers /\ MayStart(c)
    /\ db.sect[s].kind = "warehouse" /\ db.sect[s].own = c
    /\ cmd' = [cmd EXCEPT ![c] = [op |-> "sell", sect |-> s, copy |-> db.sect[s]]]
    /\ UNCHANGED <<db, outside>>

\* the first free lot, or one more
FreeSlot(table) ==
    IF \E n \in DOMAIN table : table[n].own = None
    THEN CHOOSE n \in DOMAIN table :
            /\ table[n].own = None
            /\ \A m \in 1..n-1 : table[m].own # None
    ELSE Len(table) + 1
PutAt(table, n, r) == IF n > Len(table) THEN Append(table, r)
                      ELSE [table EXCEPT ![n] = r]

\* check_sect_ok(): the copy agrees with the sector
SectOk(c) == cmd[c].copy = db.sect[cmd[c].sect]

\* The goods leave the sector as it was read, and a lot is made of them.
SellPost(c, amount, price) ==
    /\ cmd[c].op = "sell"
    /\ SectOk(c)
    /\ amount <= cmd[c].copy.items
    /\ LET n == FreeSlot(db.comm)
           lot == [own |-> c, amount |-> amount, price |-> price, bidder |-> c,
                   dest |-> c, from |-> cmd[c].sect, due |-> FALSE]
       IN  /\ n <= MaxLots
           /\ db' = [db EXCEPT
                       !.sect[cmd[c].sect] = [cmd[c].copy EXCEPT !.items = @ - amount],
                       !.comm = PutAt(@, n, lot)]
    /\ cmd' = [cmd EXCEPT ![c] = Idle]
    /\ UNCHANGED outside

---------------------------------------------------------------------------
(* Withdrawing a lot or lowering its price: c_reset().                     *)

\* Mutant: withdraw in spite of a bid
ResetLookAny(c, n) ==
    /\ MayStart(c)
    /\ db.comm[n].own # None
    /\ IF c \in Deities
       THEN Event /\ outside' = [outside EXCEPT !.events = @ + 1]
       ELSE db.comm[n].own = c /\ UNCHANGED outside
    /\ cmd' = [cmd EXCEPT ![c] = [op |-> "reset", lot |-> n, copy |-> db.comm[n]]]
    /\ UNCHANGED db

\* A deity may touch any lot; how often is bounded.
ResetLook(c, n) ==
    /\ MayStart(c)
    /\ db.comm[n].own # None
    /\ IF c \in Deities
       THEN Event /\ outside' = [outside EXCEPT !.events = @ + 1]
       ELSE db.comm[n].own = c /\ db.comm[n].bidder = c /\ UNCHANGED outside
    /\ cmd' = [cmd EXCEPT ![c] = [op |-> "reset", lot |-> n, copy |-> db.comm[n]]]
    /\ UNCHANGED db

ResetPrice(c, price) ==
    /\ cmd[c].op = "reset"
    /\ LotOk(c)
    /\ price < cmd[c].copy.price
    /\ db' = [db EXCEPT !.comm[cmd[c].lot] =
                [cmd[c].copy EXCEPT !.price = price, !.due = FALSE]]
    /\ cmd' = [cmd EXCEPT ![c] = Idle]
    /\ UNCHANGED outside

\* The goods go back to where they came from, as many as fit.
Withdraw(c) ==
    LET s == cmd[c].copy.from
        m == db.sect[s].items + cmd[c].copy.amount
    IN  /\ cmd[c].op = "reset" /\ c \notin Deities
        /\ LotOk(c)
        /\ db.sect[s].own = c /\ db.sect[s].kind = "warehouse"
        /\ db' = FreeLot([db EXCEPT !.sect[s].items = IF m > ItemMax THEN ItemMax ELSE m],
                         cmd[c].lot)
        /\ cmd' = [cmd EXCEPT ![c] = Idle]
        /\ UNCHANGED outside

\* A deity may destroy the goods.
Destroy(c) ==
    /\ cmd[c].op = "reset" /\ c \in Deities
    /\ LotOk(c)
    /\ db' = FreeLot(db, cmd[c].lot)
    /\ cmd' = [cmd EXCEPT ![c] = Idle]
    /\ UNCHANGED outside

---------------------------------------------------------------------------
(* Putting a unit on the trading block: c_set().                           *)

SetLook(c, u) ==
    /\ c \in Sellers /\ MayStart(c)
    /\ db.unit[u] # None
    /\ db.unit[u] = c \/ c \in Deities
    /\ cmd' = [cmd EXCEPT ![c] = [op |-> "set", unit |-> u, unitown |-> db.unit[u]]]
    /\ UNCHANGED <<db, outside>>

LotsFor(u) == {n \in LiveTrades(db) : db.trade[n].unit = u}
LotFor(u) == CHOOSE n \in LotsFor(u) : \A m \in LotsFor(u) : n <= m

\* the unit's own lot, else a free one
TradeSlot(u) == IF LotsFor(u) # {} THEN LotFor(u)
                ELSE FreeSlot(db.trade)

SetPrice(c, price) ==
    LET u == cmd[c].unit
        n == TradeSlot(u)
    IN  /\ cmd[c].op = "set"
        /\ db.unit[u] = cmd[c].unitown  \* check_obj_ok()
        /\ n <= MaxTrades
        /\ db' = [db EXCEPT !.trade = PutAt(@, n,
                    [own |-> c, unit |-> u, price |-> price, bidder |-> c, due |-> FALSE])]
        /\ cmd' = [cmd EXCEPT ![c] = Idle]
        /\ UNCHANGED outside

\* A price of zero takes it off the block.
SetOff(c) ==
    LET u == cmd[c].unit IN
    /\ cmd[c].op = "set"
    /\ db.unit[u] = cmd[c].unitown
    /\ LotsFor(u) # {}
    /\ db' = [db EXCEPT !.trade[TradeSlot(u)] = Free]
    /\ cmd' = [cmd EXCEPT ![c] = Idle]
    /\ UNCHANGED outside

---------------------------------------------------------------------------
(* Bidding for a unit: c_trade().                                          *)

\* It reads the lot and the unit, works out what the player can spend, and
\* then asks for the destination and the price.
TradeLook(c, n) ==
    LET t == db.trade[n] IN
    /\ c \in Bidders /\ MayStart(c)
    /\ t.own \notin {None, c}
    /\ t.price <= db.money[c]
    /\ cmd' = [cmd EXCEPT ![c] = [op |-> "trade", lot |-> n, copy |-> t,
                                  unitown |-> db.unit[t.unit], can |-> CanSpend(db, c)]]
    /\ UNCHANGED <<db, outside>>

\* trade_check_ok(): lot and unit are as they were read
TradeOk(c) == /\ cmd[c].copy = db.trade[cmd[c].lot]
              /\ cmd[c].unitown = db.unit[cmd[c].copy.unit]

TradeBid(c, bid) ==
    /\ cmd[c].op = "trade"
    /\ TradeOk(c)
    /\ bid <= cmd[c].can
    /\ bid > cmd[c].copy.price
    /\ db' = CheckTrade([db EXCEPT !.trade[cmd[c].lot] = Outbid(cmd[c].copy, c, bid)])
    /\ cmd' = [cmd EXCEPT ![c] = Idle]
    /\ UNCHANGED outside

GiveUp(c) ==
    /\ cmd[c] # Idle
    /\ cmd' = [cmd EXCEPT ![c] = Idle]
    /\ UNCHANGED <<db, outside>>

---------------------------------------------------------------------------
(* The market thread, time, and the rest of the game.                      *)

\* market_update(); sell, reset, set and trade begin with the same calls.
Check ==
    /\ db' = CheckTrade(CheckMarket(db))
    /\ UNCHANGED <<cmd, outside>>

\* the bidding time of a lot is over
LotDue(n) ==
    /\ db.comm[n].own # None /\ ~db.comm[n].due
    /\ db' = [db EXCEPT !.comm[n].due = TRUE]
    /\ UNCHANGED <<cmd, outside>>

TradeDue(n) ==
    /\ db.trade[n].own # None /\ ~db.trade[n].due
    /\ db' = [db EXCEPT !.trade[n].due = TRUE]
    /\ UNCHANGED <<cmd, outside>>

\* a country spends money on something else
Spend(c, sum) ==
    /\ Event /\ cmd[c] = Idle
    /\ sum <= db.money[c]
    /\ db' = [db EXCEPT !.money[c] = @ - sum]
    /\ outside' = [events |-> outside.events + 1, spent |-> [outside.spent EXCEPT ![c] = @ + sum]]
    /\ UNCHANGED cmd

Happens == /\ Event
           /\ outside' = [outside EXCEPT !.events = @ + 1]
           /\ UNCHANGED cmd

\* a sector is conquered, makes goods, is made something else, or a warehouse again
Conquer(s, c) ==
    /\ Happens /\ cmd[c] = Idle
    /\ db.sect[s].own # c
    /\ db' = [db EXCEPT !.sect[s].own = c]
Designate(s) ==
    /\ Happens
    /\ db.sect[s].kind = "warehouse"
    /\ db' = [db EXCEPT !.sect[s].kind = "other"]
Produce(s) ==
    /\ Happens
    /\ db.sect[s].items < ItemMax
    /\ db' = [db EXCEPT !.sect[s].items = @ + 1]
Restore(s) ==
    /\ db.sect[s].kind # "warehouse"
    /\ db' = [db EXCEPT !.sect[s].kind = IF @ = "other" THEN "unfinished" ELSE "warehouse"]
    /\ UNCHANGED <<cmd, outside>>

\* a unit is sunk, or taken: trdswitchown() gives its lot to the taker
Sink(u) ==
    /\ Happens
    /\ db.unit[u] # None
    /\ db' = [db EXCEPT !.unit[u] = None]
SwitchOwn(t, c) ==
    [t EXCEPT !.own = c, !.bidder = IF @ = t.own THEN c ELSE @]
Capture(u, c) ==
    /\ Happens /\ cmd[c] = Idle
    /\ db.unit[u] \notin {None, c}
    /\ db' = [db EXCEPT !.unit[u] = c,
                        !.trade = IF LotsFor(u) = {} THEN @
                                  ELSE [@ EXCEPT ![LotFor(u)] = SwitchOwn(db.trade[LotFor(u)], c)]]

---------------------------------------------------------------------------
Init ==
    /\ db = [money |-> [c \in Countries |-> Money0],
             sect  |-> [s \in Countries |-> [own |-> s, kind |-> "warehouse", items |-> Items0]],
             unit  |-> [u \in Units |-> CHOOSE c \in Sellers : TRUE],
             comm  |-> <<>>, trade |-> <<>>]
    /\ cmd = [c \in Countries |-> Idle]
    /\ outside = [events |-> 0, spent |-> [c \in Countries |-> 0]]

\* bound: no bid that the last test of c_buy() would refuse
Raises(c, p) == cmd[c].op = "price" /\ p > cmd[c].copy.price

Goods(c) ==
    \/ \E n \in DOMAIN db.comm : BuyLook(c, n) \/ ResetLook(c, n)
    \/ \E p \in Prices : (Raises(c, p) /\ BuyBid(c, p)) \/ ResetPrice(c, p)
    \/ \E s \in Countries : BuyPlace(c, s) \/ SellLook(c, s)
    \/ \E p \in Offers, a \in Amounts : SellPost(c, a, p)
    \/ Withdraw(c) \/ Destroy(c)

Block(c) ==
    \/ \E u \in Units : SetLook(c, u)
    \/ \E p \in Offers : SetPrice(c, p)
    \/ \E p \in Prices : TradeBid(c, p)
    \/ SetOff(c)
    \/ \E n \in DOMAIN db.trade : TradeLook(c, n)

Time == \/ \E n \in DOMAIN db.comm : LotDue(n)
        \/ \E n \in DOMAIN db.trade : TradeDue(n)

Rest == \/ \E c \in Struck, p \in Offers : Spend(c, p)
        \/ \E s \in Struck : Designate(s) \/ Restore(s) \/ Produce(s)
        \/ \E s \in Struck, c \in Bidders : Conquer(s, c)
        \/ \E u \in Units : Sink(u)
        \/ \E u \in Units, c \in Bidders : Capture(u, c)

Next == \/ \E c \in Countries : Goods(c) \/ Block(c) \/ GiveUp(c)
        \/ Check \/ Time \/ Rest

Spec == Init /\ [][Next]_vars

---------------------------------------------------------------------------
Sector == [own : Countries, kind : {"warehouse", "unfinished", "other"}, items : 0..ItemMax]
Trade == [own : Countries, unit : Units, price : Prices, bidder : Countries, due : BOOLEAN]
Lot == [own : Countries, amount : 1..ItemMax, price : Prices, bidder : Countries,
        dest : Countries, from : Countries, due : BOOLEAN]
Owner == Countries \cup {None}
Tables == [money : [Countries -> Nat], sect : [Countries -> Sector], unit : [Units -> Owner],
           comm : Seq(Lot \cup {Free}), trade : Seq(Trade \cup {Free})]
\* where commands wait, and what they remember
Prompts ==
    {Idle} \cup [op : {"price", "reset"}, lot : DOMAIN db.comm, copy : Lot]
           \cup [op : {"dest"}, lot : DOMAIN db.comm, copy : Lot, bid : Prices]
           \cup [op : {"sell"}, sect : Countries, copy : Sector]
           \cup [op : {"set"}, unit : Units, unitown : Countries]
           \cup [op : {"trade"}, lot : DOMAIN db.trade, copy : Trade, unitown : Owner, can : Int]

\* The state of the market is well formed.
TypeOK ==
    /\ db \in Tables /\ Len(db.comm) <= MaxLots /\ Len(db.trade) <= MaxTrades
    /\ cmd \in [Countries -> Prompts]
    /\ outside \in [events : Nat, spent : [Countries -> Nat]]

\* what c owes if all its bids win
Owed(d, c) == SumFunction([n \in Bids(d.comm, c) |-> Cost(d.comm[n])])
              + SumFunction([n \in Bids(d.trade, c) |-> d.trade[n].price])

\* A country that spends its money on nothing else can pay for all it has
\* bid for, however its bids and other countries' bids, sales and
\* settlements interleave: "check to see if all of the bids that this player
\* has out plus this new bid would make him go broke" (buy.c:112).
Solvent == \A c \in Countries : Owed(db, c) <= db.money[c] + outside.spent[c]

\* No unit is on the trading block twice (set.c:101-111).
OneLotPerUnit ==
    \A n, m \in LiveTrades(db) : db.trade[n].unit = db.trade[m].unit => n = m

\* The books of the market are in order: every bid can be paid, and a unit is
\* sold once.
BooksInOrder == TypeOK /\ Solvent /\ OneLotPerUnit

GoodsIn(d) == SumFunction([s \in Countries |-> d.sect[s].items])
              + SumFunction([n \in LiveLots(d) |-> d.comm[n].amount])
MoneyIn(d) == SumFunction(d.money)

Gone(t, u) == {n \in DOMAIN t : t[n].own # None /\ u[n].own = None}

\* Selling, bidding, withdrawing and settling make neither goods nor money,
\* and lose goods only with a lot, whatever comes between the prompts of the
\* commands.
NothingForNothing ==
    [][outside' = outside =>
         /\ MoneyIn(db') <= MoneyIn(db)
         /\ GoodsIn(db') <= GoodsIn(db)
         /\ GoodsIn(db') < GoodsIn(db) => Gone(db.comm, db'.comm) # {}]_vars

\* A settlement is the sum of some sales: the lots that go are due, have a
\* bid or lost their unit, every sale takes its lot away, and money, goods
\* and units move just as these sales say.
IsSettlement(lots, trades) ==
    /\ \A c \in Countries :
          db'.money[c] - db.money[c] =
              SumFunction([n \in {n \in lots : db.comm[n].own = c} |-> Gain(db.comm[n])])
              - SumFunction([n \in {n \in lots : db.comm[n].bidder = c} |-> Cost(db.comm[n])])
              + SumFunction([n \in {n \in trades : db.trade[n].own = c} |-> TradeGain(db.trade[n])])
              - SumFunction([n \in {n \in trades : db.trade[n].bidder = c} |-> db.trade[n].price])
    /\ \A s \in Countries :
          db'.sect[s].items - db.sect[s].items =
              SumFunction([n \in {n \in lots : db.comm[n].dest = s} |-> db.comm[n].amount])
    /\ \A u \in Units : \/ \E n \in trades : /\ db.trade[n].unit = u
                                            /\ db.trade[n].own = db.unit[u]
                                            /\ db'.unit[u] = db.trade[n].bidder
                        \/ /\ \A n \in trades : db.trade[n].unit # u
                           /\ db'.unit[u] = db.unit[u]
Settles ==
    /\ \A n \in Gone(db.comm, db'.comm) : ~Awaits(db.comm[n])
    /\ \A n \in Gone(db.trade, db'.trade) :
          ~Awaits(db.trade[n]) \/ db.unit[db.trade[n].unit] # db.trade[n].own
    /\ \E lots \in SUBSET Gone(db.comm, db'.comm), trades \in SUBSET Gone(db.trade, db'.trade) :
          IsSettlement(lots, trades)
Settlement == [][Check => Settles]_vars

\* "Sale #%d fell through.  Goods remain on the market." (buy.c:220):
\* a settlement, whether it sells anything or not, loses no goods.
GoodsRemain == [][Check => GoodsIn(db') = GoodsIn(db)]_vars

BidOut(lot) == lot.own # None /\ lot.bidder # lot.own

\* Once a country has bid for goods, nobody but a deity can lower the price
\* or take the lot away before its time: it goes to a higher bid or is
\* settled, even if the seller was about to withdraw it.
Intervenes(n) == \E g \in Deities : /\ cmd[g].op = "reset" /\ cmd[g].lot = n
                                    /\ cmd'[g] = Idle
BidStands ==
    [][\A n \in DOMAIN db.comm :
         BidOut(db.comm[n]) =>
            LET lot == db.comm[n] IN
            \/ db'.comm[n] \in {lot, [lot EXCEPT !.due = TRUE]}
            \/ db'.comm[n].own = None /\ lot.due
            \/ db'.comm[n].own = lot.own /\ db'.comm[n].price > lot.price
            \/ Intervenes(n)]_vars

\* Deals stand, are settled as their sales say, and nothing comes from nothing.
DealsStand == NothingForNothing /\ Settlement /\ BidStands
=============================================================================
