--------------------------- MODULE EmpWorldProofs ---------------------------
(***************************************************************************)
(* What the small models that EmpWorld puts side by side promise: loans,   *)
(* moving and exploring, supply, the shutdown's countdown and the LWP      *)
(* package's read-write lock; before it the contract that every package's  *)
(* lock should keep.                                                       *)
(*                                                                         *)
(* The contract of EmpRWLock is consistent: for every set of threads it    *)
(* keeps writers alone and lets no reader overtake a waiting writer.       *)
(*                                                                         *)
(* The lock of lib/lwp/rwlock.c does not keep it: a writer can share it    *)
(* (see the README), but for any finite set of threads one of its          *)
(* assertions fires before that happens.  And before one fires nobody is   *)
(* left asleep on the lock with no one to wake him.                        *)
(***************************************************************************)
EXTENDS EmpSupply, EmpLoans, EmpMove, EmpSchedule, EmpRWLock, LwpRWLock, EmpLemmas

-----------------------------------------------------------------------------
(* Loans.                                                                  *)

Party == Countries \cup {nobody}
Loan == [status : {"free", "proposed", "signed"}, loner : Party, lonee : Party,
         due : Nat, past : BOOLEAN]
Desk == [cmd : {"none", "consider", "repay", "collect"}, num : 0..Slots, seen : Loan]

(***************************************************************************)
(* A loan that is not free has its parties, and what a player is asked     *)
(* about is a loan he has a part in: the copy of a loan that is paid or    *)
(* collected is a signed one, with him as its debtor or its creditor.      *)
(***************************************************************************)
Parties(l) == l.status # "free" => l.loner \in Countries /\ l.lonee \in Countries

AskedAbout(c) ==
    /\ desk[c].cmd # "none" =>
         /\ desk[c].num \in 1..Slots
         /\ desk[c].seen.loner \in Countries /\ desk[c].seen.lonee \in Countries
    /\ desk[c].cmd = "repay" => desk[c].seen.status = "signed" /\ desk[c].seen.lonee = c
    /\ desk[c].cmd = "collect" => desk[c].seen.status = "signed" /\ desk[c].seen.loner = c

LoansInv ==
    /\ loan \in [1..Slots -> Loan]
    /\ money \in [Countries -> Int]
    /\ desk \in [Countries -> Desk]
    /\ \A n \in 1..Slots : Parties(loan[n])
    /\ \A c \in Countries : AskedAbout(c)

\* The three promises of LoansInOrder about one step.
SolventStep ==
    \A c \in Countries : money'[c] < money[c] /\ sacked' = sacked => money'[c] >= 0
StandStep ==
    \A n \in 1..Slots : loan[n].status = "signed" /\ loan'[n].status # "signed" =>
        \E c \in Countries :
            /\ desk[c].num = n /\ desk'[c] = Idle
            /\ \/ desk[c].cmd = "repay" /\ c = loan[n].lonee
               \/ desk[c].cmd = "collect" /\ c = loan[n].loner
OwnerStep ==
    \A c \in Countries : desk[c].cmd = "repay" /\ desk'[c] = Idle /\ money'[c] < money[c] =>
        LET owner == loan[desk[c].num].loner IN money'[owner] > money[owner]
Promised == SolventStep /\ StandStep /\ OwnerStep

\* No loan, and nothing a player is asked.
LEMMA FreeIs == /\ Free \in Loan /\ Free.status = "free"
                /\ (Slots \in Nat => Idle \in Desk) /\ Idle.cmd = "none"
BY DEF Free, Loan, Party, Idle, Desk, nobody

\* A step that leaves money alone, and signed loans signed, keeps what is promised.
LEMMA QuietStep ==
  ASSUME LoansInv, money' = money,
         \A n \in 1..Slots : loan[n].status = "signed" => loan'[n].status = "signed"
  PROVE  Promised
BY DEF LoansInv, Promised, SolventStep, StandStep, OwnerStep

\* Whoever is asked about a loan keeps what was shown to him.
LEMMA AskingKeeps ==
  ASSUME LoansAssumption, LoansInv, NEW c \in Countries, NEW n \in 1..Slots,
         loan[n].status # "free",
         NEW cmd \in {"consider", "repay", "collect"},
         cmd = "repay" => loan[n].status = "signed" /\ loan[n].lonee = c,
         cmd = "collect" => loan[n].status = "signed" /\ loan[n].loner = c,
         Asks(c, cmd, n, loan[n]), UNCHANGED <<loan, money>>
  PROVE  LoansInv' /\ Promised
<1> DEFINE d == [cmd |-> cmd, num |-> n, seen |-> loan[n]]
<1>1. loan[n] \in Loan /\ loan[n].loner \in Countries /\ loan[n].lonee \in Countries
  BY DEF LoansInv, Parties
<1>2. n \in 0..Slots
  BY DEF LoansAssumption
<1>3. d \in Desk
  BY <1>1, <1>2 DEF Desk
<1>4. d.cmd = cmd /\ d.num = n /\ d.seen = loan[n]
  OBVIOUS
<1>5. desk' = [desk EXCEPT ![c] = d]
  BY DEF Asks
<1> HIDE DEF d
<1>6. desk' \in [Countries -> Desk] /\ desk'[c] = d /\ \A e \in Countries : e # c => desk'[e] = desk[e]
  BY <1>3, <1>5 DEF LoansInv
<1>7. \A e \in Countries : AskedAbout(e)'
  <2> TAKE e \in Countries
  <2>1. CASE e = c
    BY <2>1, <1>1, <1>4, <1>6 DEF AskedAbout
  <2>2. CASE e # c
    BY <2>2, <1>6 DEF AskedAbout, LoansInv
  <2> QED
    BY <2>1, <2>2
<1>8. LoansInv'
  BY <1>6, <1>7 DEF LoansInv, Parties
<1> QED
  BY <1>8, QuietStep

\* A player has done with what he was asked.
LEMMA EndingKeeps ==
  ASSUME LoansAssumption, LoansInv, NEW c \in Countries, Ends(c)
  PROVE  /\ desk' \in [Countries -> Desk]
         /\ \A e \in Countries : AskedAbout(e)'
         /\ desk'[c] = Idle
         /\ \A e \in Countries : e # c => desk'[e] = desk[e]
<1>1. desk' \in [Countries -> Desk] /\ desk'[c] = Idle /\ \A e \in Countries : e # c => desk'[e] = desk[e]
  BY FreeIs DEF Ends, LoansInv, LoansAssumption
<1>2. \A e \in Countries : AskedAbout(e)'
  <2> TAKE e \in Countries
  <2>1. CASE e = c
    BY <2>1, <1>1, FreeIs DEF AskedAbout
  <2>2. CASE e # c
    BY <2>2, <1>1 DEF AskedAbout, LoansInv
  <2> QED
    BY <2>1, <2>2
<1> QED
  BY <1>1, <1>2

\* An offer takes a slot that is free.
LEMMA OfferKeeps ==
  ASSUME LoansAssumption, LoansInv, NEW c \in Countries, NEW to \in Countries,
         NEW amt \in 1..MaxAmount, Offer(c, to, amt)
  PROVE  LoansInv' /\ Promised
<1> DEFINE l == [status |-> "proposed", loner |-> c, lonee |-> to, due |-> amt, past |-> FALSE]
           m == Min(Status("free"))
<1>1. Status("free") \in SUBSET Nat /\ Status("free") # {}
  BY DEF Offer, Status
<1>2. m \in Status("free")
  BY <1>1, MinOfSome
<1>3. m \in 1..Slots /\ loan[m].status = "free"
  BY <1>2 DEF Status
<1>4. l \in Loan /\ Parties(l) /\ l.status = "proposed"
  BY DEF Loan, Party, LoansAssumption, Parties
<1>5. loan' = [loan EXCEPT ![m] = l]
  BY DEF Offer
<1> HIDE DEF l, m
<1>6. loan' \in [1..Slots -> Loan] /\ loan'[m] = l /\ \A n \in 1..Slots : n # m => loan'[n] = loan[n]
  BY <1>3, <1>4, <1>5 DEF LoansInv
<1>7. \A n \in 1..Slots : Parties(loan'[n])
  BY <1>4, <1>6 DEF LoansInv
<1>8. money' = money /\ desk' = desk
  BY DEF Offer
<1>9. LoansInv'
  BY <1>6, <1>7, <1>8 DEF LoansInv, AskedAbout
<1>10. \A n \in 1..Slots : loan[n].status = "signed" => loan'[n].status = "signed"
  BY <1>3, <1>6
<1> QED
  BY <1>8, <1>9, <1>10, QuietStep

\* A loan's slot is freed: it had no signed loan, or whoever paid or
\* collected is done with it.
LEMMA FreeingKeeps ==
  ASSUME LoansInv, NEW n \in 1..Slots, loan' = [loan EXCEPT ![n] = Free]
  PROVE  /\ loan' \in [1..Slots -> Loan] /\ \A k \in 1..Slots : Parties(loan'[k])
         /\ \A k \in 1..Slots : k # n => loan'[k] = loan[k]
<1>1. loan' \in [1..Slots -> Loan] /\ loan'[n] = Free /\ \A k \in 1..Slots : k # n => loan'[k] = loan[k]
  BY FreeIs DEF LoansInv
<1> QED
  BY <1>1, FreeIs DEF LoansInv, Parties

\* An offer is considered, or has expired.
LEMMA ConsiderKeeps ==
  ASSUME LoansAssumption, LoansInv, NEW c \in Countries, NEW n \in 1..Slots, Consider(c, n)
  PROVE  LoansInv' /\ Promised
<1>1. CASE loan[n].past
  <2>1. loan' = [loan EXCEPT ![n] = Free] /\ money' = money /\ desk' = desk /\ loan[n].status = "proposed"
    BY <1>1 DEF Consider
  <2>2. LoansInv'
    BY <2>1, FreeingKeeps DEF LoansInv, AskedAbout
  <2>3. \A k \in 1..Slots : loan[k].status = "signed" => loan'[k].status = "signed"
    BY <2>1, FreeingKeeps
  <2> QED
    BY <2>1, <2>2, <2>3, QuietStep
<1>2. CASE ~loan[n].past
  BY <1>2, AskingKeeps DEF Consider
<1> QED
  BY <1>1, <1>2

\* An offer that is not signed is declined or retracted.
LEMMA DeclineKeeps ==
  ASSUME LoansAssumption, LoansInv, NEW c \in Countries, Decline(c)
  PROVE  LoansInv' /\ Promised
<1> DEFINE n == desk[c].num
<1>1. n \in 1..Slots
  BY DEF Decline, LoansInv, AskedAbout
<1>2. loan' = [loan EXCEPT ![n] = Free] /\ money' = money /\ Ends(c) /\ loan[n].status # "signed"
  BY DEF Decline
<1> HIDE DEF n
<1>3. LoansInv'
  BY <1>1, <1>2, FreeingKeeps, EndingKeeps DEF LoansInv
<1>4. \A k \in 1..Slots : loan[k].status = "signed" => loan'[k].status = "signed"
  BY <1>1, <1>2, FreeingKeeps
<1> QED
  BY <1>2, <1>3, <1>4, QuietStep

\* A player is done without any effect.
LEMMA LeaveDeskKeeps ==
  ASSUME LoansAssumption, LoansInv, NEW c \in Countries, LeaveDesk(c)
  PROVE  LoansInv' /\ Promised
<1>1. LoansInv'
  BY EndingKeeps DEF LoansInv, LeaveDesk
<1> QED
  BY <1>1, QuietStep DEF LeaveDesk

\* A lender or a payer pays what he has.
LEMMA PayIs ==
  ASSUME LoansInv, NEW from \in Countries, NEW to \in Countries, NEW n \in Nat, n > 0,
         money[from] >= n, Pay(from, to, n)
  PROVE  /\ money' \in [Countries -> Int]
         /\ SolventStep
         /\ \A c \in Countries : money'[c] < money[c] => money'[to] > money[to]
<1>1. /\ money \in [Countries -> Int]
      /\ money' = [c \in Countries |-> money[c] - (IF c = from THEN n ELSE 0) + (IF c = to THEN n ELSE 0)]
  BY DEF LoansInv, Pay
<1>2. money' \in [Countries -> Int]
  BY <1>1
<1>3. \A c \in Countries : money'[c] < money[c] => c = from /\ c # to
  BY <1>1
<1>4. money'[from] >= 0
  BY <1>1
<1>5. from # to => money'[to] = money[to] + n
  BY <1>1
<1>6. money[to] \in Int
  BY <1>1
<1> QED
  BY <1>2, <1>3, <1>4, <1>5, <1>6 DEF SolventStep

\* The slot of one loan changes and keeps its parties.
LEMMA ChangingKeeps ==
  ASSUME LoansInv, NEW n \in 1..Slots, NEW l \in Loan, Parties(l), loan' = [loan EXCEPT ![n] = l]
  PROVE  /\ loan' \in [1..Slots -> Loan] /\ \A k \in 1..Slots : Parties(loan'[k])
         /\ loan'[n] = l /\ \A k \in 1..Slots : k # n => loan'[k] = loan[k]
<1>1. loan' \in [1..Slots -> Loan] /\ loan'[n] = l /\ \A k \in 1..Slots : k # n => loan'[k] = loan[k]
  BY DEF LoansInv
<1> QED
  BY <1>1 DEF LoansInv

\* The lender of the loan that was shown lends what he has.
LEMMA AcceptKeeps ==
  ASSUME LoansAssumption, LoansInv, NEW c \in Countries, Accept(c)
  PROVE  LoansInv' /\ Promised
<1> DEFINE n == desk[c].num
           lender == desk[c].seen.loner
           sum == IF money[lender] < loan[n].due THEN money[lender] - Reserve ELSE loan[n].due
           l == [loan[n] EXCEPT !.status = "signed", !.due = sum, !.past = FALSE]
<1>1. n \in 1..Slots /\ lender \in Countries /\ loan[n].status = "proposed" /\ desk[c].cmd = "consider"
  BY DEF Accept, MayAccept, LoansInv, AskedAbout
<1>2. loan[n] \in Loan /\ Parties(loan[n]) /\ loan[n].due \in Nat
  BY <1>1 DEF LoansInv, Loan
<1>3. money[lender] \in Int
  BY <1>1 DEF LoansInv
<1>4. sum \in Nat /\ sum > 0 /\ money[lender] >= sum
  <2>1. sum > 0
    BY DEF Accept
  <2>2. sum \in Int /\ money[lender] >= sum
    <3>1. Reserve \in Nat /\ loan[n].due \in Int
      BY <1>2 DEF LoansAssumption
    <3> HIDE DEF n, lender
    <3> QED
      BY <1>3, <3>1, SMTT(30)
  <2> HIDE DEF sum
  <2> QED
    BY <2>1, <2>2
<1>5. Pay(lender, c, sum) /\ Ends(c) /\ loan' = [loan EXCEPT ![n] = l]
  BY DEF Accept
<1>6. l \in Loan /\ l.status = "signed" /\ l.loner = loan[n].loner /\ l.lonee = loan[n].lonee
  BY <1>2, <1>4 DEF Loan
<1>7. Parties(l)
  BY <1>1, <1>2, <1>6 DEF Parties
<1> HIDE DEF n, lender, sum, l
<1>8. LoansInv'
  BY <1>1, <1>3, <1>4, <1>5, <1>6, <1>7, PayIs, EndingKeeps, ChangingKeeps DEF LoansInv
<1>9. SolventStep
  BY <1>1, <1>3, <1>4, <1>5, PayIs
<1>10. StandStep
  BY <1>1, <1>5, <1>6, <1>7, ChangingKeeps DEF StandStep
<1>11. OwnerStep
  BY <1>1, <1>5, EndingKeeps, FreeIs DEF OwnerStep
<1> QED
  BY <1>8, <1>9, <1>10, <1>11 DEF Promised

\* A payment for a loan that is as it was shown goes to its loner.
LEMMA PayBackKeeps ==
  ASSUME LoansAssumption, LoansInv, NEW c \in Countries,
         NEW payment \in 1..(MaxAmount + 1), PayBack(c, payment)
  PROVE  LoansInv' /\ Promised
<1> DEFINE n == desk[c].num
           l == desk[c].seen
           new == [l EXCEPT !.due = Owed(l) - payment]
<1>1. n \in 1..Slots /\ desk[c].cmd = "repay" /\ l = loan[n] /\ l.status = "signed" /\ l.lonee = c
  BY DEF PayBack, LoanOk, LoansInv, AskedAbout
<1>2. l \in Loan /\ Parties(l) /\ l.loner \in Countries /\ l.due \in Nat
  BY <1>1 DEF LoansInv, Loan, Parties
<1>3. payment \in Nat /\ payment > 0 /\ money[c] >= payment /\ money[c] \in Int
  BY DEF PayBack, LoansAssumption, LoansInv
<1>4. Owed(l) \in Nat /\ Owed(l) - payment >= 0
  BY <1>2 DEF Owed, PayBack
<1>5. Pay(c, l.loner, payment) /\ Ends(c)
  BY DEF PayBack
<1>6. loan' = [loan EXCEPT ![n] = Free] \/ loan' = [loan EXCEPT ![n] = new]
  BY DEF PayBack
<1>7. new \in Loan /\ new.status = "signed" /\ new.loner = l.loner /\ new.lonee = l.lonee
  BY <1>1, <1>2, <1>3, <1>4 DEF Loan
<1>8. Parties(new)
  BY <1>1, <1>2, <1>7 DEF Parties
<1> HIDE DEF n, l, new
<1>9. /\ loan' \in [1..Slots -> Loan] /\ \A k \in 1..Slots : Parties(loan'[k])
      /\ \A k \in 1..Slots : k # n => loan'[k] = loan[k]
  BY <1>1, <1>6, <1>7, <1>8, FreeingKeeps, ChangingKeeps
<1>10. LoansInv'
  BY <1>2, <1>3, <1>5, <1>9, PayIs, EndingKeeps DEF LoansInv
<1>11. SolventStep
  BY <1>2, <1>3, <1>5, PayIs
<1>12. n = desk[c].num
  BY DEF n
<1>13. StandStep
  BY <1>1, <1>5, <1>9, <1>12, EndingKeeps DEF StandStep
<1>14. OwnerStep
  <2> SUFFICES ASSUME NEW d \in Countries, desk[d].cmd = "repay", desk'[d] = Idle, money'[d] < money[d]
               PROVE  money'[loan[desk[d].num].loner] > money[loan[desk[d].num].loner]
    BY DEF OwnerStep
  <2>1. d = c
    BY <1>5, EndingKeeps, FreeIs
  <2>2. money'[l.loner] > money[l.loner]
    BY <1>2, <1>3, <1>5, PayIs
  <2> QED
    BY <1>1, <1>12, <2>1, <2>2
<1> QED
  BY <1>10, <1>11, <1>13, <1>14 DEF Promised

\* A sector is seized for a loan that is as it was shown.
LEMMA SeizeKeeps ==
  ASSUME LoansAssumption, LoansInv, NEW c \in Countries,
         NEW worth \in 1..(MaxAmount + 1), Seize(c, worth)
  PROVE  LoansInv' /\ Promised
<1> DEFINE n == desk[c].num
           l == desk[c].seen
           new == [l EXCEPT !.due = Owed(l) - worth]
<1>1. n \in 1..Slots /\ desk[c].cmd = "collect" /\ l = loan[n] /\ l.status = "signed" /\ l.loner = c
  BY DEF Seize, LoanOk, LoansInv, AskedAbout
<1>2. l \in Loan /\ Parties(l) /\ l.due \in Nat /\ Owed(l) \in Nat
  BY <1>1 DEF LoansInv, Loan, Owed
<1>3. money' = money /\ Ends(c)
  BY DEF Seize
<1>4. loan' = [loan EXCEPT ![n] = Free] \/ (worth < Owed(l) /\ loan' = [loan EXCEPT ![n] = new])
  <2>1. ~(worth >= Owed(l)) => worth < Owed(l)
    BY <1>2 DEF LoansAssumption
  <2>2. loan' = [loan EXCEPT ![n] = IF worth >= Owed(l) THEN Free ELSE new]
    BY DEF Seize
  <2> QED
    BY <2>1, <2>2
<1>5. worth < Owed(l) => Owed(l) - worth \in Nat
  BY <1>2 DEF LoansAssumption
<1>6. worth < Owed(l) => new \in Loan /\ new.status = "signed" /\ new.loner = l.loner /\ new.lonee = l.lonee
  BY <1>1, <1>2, <1>5 DEF Loan
<1>7. worth < Owed(l) => Parties(new)
  BY <1>1, <1>2, <1>6 DEF Parties
<1>8. n = desk[c].num
  OBVIOUS
<1> HIDE DEF n, l, new
<1>9. /\ loan' \in [1..Slots -> Loan] /\ \A k \in 1..Slots : Parties(loan'[k])
      /\ \A k \in 1..Slots : k # n => loan'[k] = loan[k]
  BY <1>1, <1>4, <1>6, <1>7, FreeingKeeps, ChangingKeeps
<1>10. LoansInv'
  BY <1>3, <1>9, EndingKeeps DEF LoansInv
<1>11. StandStep
  BY <1>1, <1>3, <1>8, <1>9, EndingKeeps DEF StandStep
<1>12. SolventStep /\ OwnerStep
  BY <1>3 DEF SolventStep, OwnerStep, LoansInv
<1> QED
  BY <1>10, <1>11, <1>12 DEF Promised

\* A country buys an overdue loan for what is owed, which it has.
LEMMA SharkKeeps ==
  ASSUME LoansAssumption, LoansInv, NEW c \in Countries, NEW n \in 1..Slots, Shark(c, n)
  PROVE  LoansInv' /\ Promised
<1> DEFINE l == [loan[n] EXCEPT !.loner = c]
<1>1. loan[n] \in Loan /\ Parties(loan[n]) /\ loan[n].status = "signed" /\ loan[n].loner \in Countries
  BY DEF Shark, LoansInv, Parties
<1>2. loan[n].past /\ loan[n].due \in Nat
  BY <1>1 DEF Shark, Loan
<1>3. Owed(loan[n]) \in Nat /\ Owed(loan[n]) > 0
  BY <1>2 DEF Owed
<1>4. money[c] >= Owed(loan[n])
  BY <1>3 DEF Shark, LoansAssumption, LoansInv
<1>5. Pay(c, loan[n].loner, Owed(loan[n])) /\ loan' = [loan EXCEPT ![n] = l] /\ desk' = desk
  BY DEF Shark
<1>6. l \in Loan /\ l.status = "signed" /\ l.lonee = loan[n].lonee /\ l.loner = c
  BY <1>1 DEF Loan, Party
<1>7. Parties(l)
  BY <1>1, <1>6 DEF Parties
<1> HIDE DEF l
<1>8. LoansInv'
  BY <1>1, <1>3, <1>4, <1>5, <1>6, <1>7, PayIs, ChangingKeeps DEF LoansInv, AskedAbout
<1>9. SolventStep
  BY <1>1, <1>3, <1>4, <1>5, PayIs
<1>10. StandStep
  BY <1>1, <1>5, <1>6, <1>7, ChangingKeeps DEF StandStep
<1>11. OwnerStep
  BY <1>5, FreeIs DEF OwnerStep
<1> QED
  BY <1>8, <1>9, <1>10, <1>11 DEF Promised

\* Who conquers a capital gets money, and the loans of the country that had it.
LEMMA CapitalFallsKeeps ==
  ASSUME LoansAssumption, LoansInv, NEW c \in Countries, NEW from \in Countries, CapitalFalls(c, from)
  PROVE  LoansInv' /\ Promised
<1> DEFINE Taken(n) == loan[n].status = "signed" /\ loan[n].loner = from
<1>1. desk' = desk /\ sacked' # sacked
  BY DEF CapitalFalls
<1>2. loan' = [n \in 1..Slots |-> IF Taken(n) THEN [loan[n] EXCEPT !.loner = c] ELSE loan[n]]
  BY DEF CapitalFalls
<1>3. \A n \in 1..Slots : Taken(n) =>
         /\ loan'[n] = [loan[n] EXCEPT !.loner = c] /\ loan[n] \in Loan
         /\ loan[n].lonee \in Countries /\ loan[n].status = "signed"
  BY <1>2 DEF LoansInv, Parties
<1>4. \A n \in 1..Slots : Taken(n) => loan'[n] \in Loan /\ loan'[n].status = "signed" /\ Parties(loan'[n])
  <2> SUFFICES ASSUME NEW n \in 1..Slots, Taken(n)
               PROVE  loan'[n] \in Loan /\ loan'[n].status = "signed" /\ Parties(loan'[n])
    OBVIOUS
  <2>1. /\ loan'[n] = [loan[n] EXCEPT !.loner = c] /\ loan[n] \in Loan
        /\ loan[n].lonee \in Countries /\ loan[n].status = "signed"
    BY <1>3
  <2>2. loan'[n] \in Loan
    BY <2>1 DEF Loan, Party
  <2>3. loan'[n].status = "signed" /\ loan'[n].loner = c /\ loan'[n].lonee \in Countries
    BY <2>1 DEF Loan
  <2> QED
    BY <2>2, <2>3 DEF Parties
<1>5. \A n \in 1..Slots : ~Taken(n) => loan'[n] = loan[n]
  BY <1>2
<1>6. loan' \in [1..Slots -> Loan] /\ \A n \in 1..Slots : Parties(loan'[n])
  <2>1. \A n \in 1..Slots : loan'[n] \in Loan /\ Parties(loan'[n])
    BY <1>4, <1>5 DEF LoansInv
  <2>2. loan' = [n \in 1..Slots |-> loan'[n]]
    BY <1>2
  <2> HIDE DEF Taken
  <2> QED
    BY <2>1, <2>2
<1>7. money' \in [Countries -> Int]
  <2> DEFINE half == money[from] \div 2
             lost == IF half < Sack THEN Sack ELSE half
  <2>1. half \in Int
    BY DEF LoansInv
  <2>2. lost \in Int
    BY <2>1 DEF LoansAssumption
  <2>3. PICK gain \in {0} \cup 0..half : money' = [money EXCEPT ![from] = @ - lost, ![c] = @ + gain]
    BY DEF CapitalFalls
  <2>4. gain \in Int
    BY <2>1
  <2> HIDE DEF half, lost
  <2> QED
    BY <2>2, <2>3, <2>4 DEF LoansInv
<1> HIDE DEF Taken
<1>8. LoansInv'
  BY <1>1, <1>6, <1>7 DEF LoansInv, AskedAbout
<1>9. SolventStep /\ OwnerStep
  BY <1>1, FreeIs DEF SolventStep, OwnerStep
<1>10. StandStep
  BY <1>4, <1>5 DEF StandStep
<1> QED
  BY <1>8, <1>9, <1>10 DEF Promised

\* The date of an offer or a loan passes.
LEMMA FallsDueKeeps ==
  ASSUME LoansAssumption, LoansInv, NEW n \in 1..Slots, FallsDue(n)
  PROVE  LoansInv' /\ Promised
<1> DEFINE l == [loan[n] EXCEPT !.past = TRUE]
<1>1. loan[n] \in Loan /\ Parties(loan[n])
  BY DEF LoansInv
<1>2. loan' = [loan EXCEPT ![n] = l] /\ money' = money /\ desk' = desk
  BY DEF FallsDue
<1>3. l \in Loan /\ l.status = loan[n].status /\ l.lonee = loan[n].lonee /\ l.loner = loan[n].loner
  BY <1>1 DEF Loan
<1>4. Parties(l)
  BY <1>1, <1>3 DEF Parties
<1> HIDE DEF l
<1>5. LoansInv'
  BY <1>2, <1>3, <1>4, ChangingKeeps DEF LoansInv, AskedAbout
<1>6. \A k \in 1..Slots : loan[k].status = "signed" => loan'[k].status = "signed"
  BY <1>2, <1>3, <1>4, ChangingKeeps
<1> QED
  BY <1>2, <1>5, <1>6, QuietStep

\* Every step keeps the invariant, and does what is promised.
LEMMA LoansStep == LoansAssumption /\ LoansInv /\ [LoansNext]_loanVars => LoansInv' /\ Promised
<1> SUFFICES ASSUME LoansAssumption, LoansInv, [LoansNext]_loanVars PROVE LoansInv' /\ Promised
  OBVIOUS
<1>1. ASSUME NEW c \in Countries, NEW d \in Countries, NEW amt \in 1..MaxAmount, Offer(c, d, amt)
      PROVE  LoansInv' /\ Promised
  BY <1>1, OfferKeeps
<1>2. ASSUME NEW c \in Countries, NEW n \in 1..Slots, Consider(c, n) PROVE LoansInv' /\ Promised
  BY <1>2, ConsiderKeeps
<1>3. ASSUME NEW c \in Countries, NEW n \in 1..Slots, Repay(c, n) PROVE LoansInv' /\ Promised
  BY <1>3, AskingKeeps DEF Repay
<1>4. ASSUME NEW c \in Countries, NEW n \in 1..Slots, Collect(c, n) PROVE LoansInv' /\ Promised
  BY <1>4, AskingKeeps DEF Collect
<1>5. ASSUME NEW c \in Countries, NEW n \in 1..Slots, Shark(c, n) PROVE LoansInv' /\ Promised
  BY <1>5, SharkKeeps
<1>6. ASSUME NEW c \in Countries, Accept(c) \/ Decline(c) \/ LeaveDesk(c) PROVE LoansInv' /\ Promised
  BY <1>6, AcceptKeeps, DeclineKeeps, LeaveDeskKeeps
<1>7. ASSUME NEW c \in Countries, NEW amt \in 1..(MaxAmount + 1), PayBack(c, amt) \/ Seize(c, amt)
      PROVE  LoansInv' /\ Promised
  BY <1>7, PayBackKeeps, SeizeKeeps
<1>8. ASSUME NEW n \in 1..Slots, FallsDue(n) PROVE LoansInv' /\ Promised
  BY <1>8, FallsDueKeeps
<1>9. ASSUME NEW c \in Countries, NEW d \in Countries, CapitalFalls(c, d) PROVE LoansInv' /\ Promised
  BY <1>9, CapitalFallsKeeps
<1>10. CASE UNCHANGED loanVars
  <2>1. loan' = loan /\ money' = money /\ desk' = desk
    BY <1>10 DEF loanVars
  <2>2. LoansInv'
    BY <2>1 DEF LoansInv, AskedAbout
  <2> QED
    BY <2>1, <2>2, QuietStep
<1> QED
  BY <1>1, <1>2, <1>3, <1>4, <1>5, <1>6, <1>7, <1>8, <1>9, <1>10 DEF LoansNext, Command

\* There are no loans in the beginning.
LEMMA LoansStart == LoansAssumption /\ LoansInit => LoansInv
<1> SUFFICES ASSUME LoansAssumption, LoansInit PROVE LoansInv
  OBVIOUS
<1>1. \A c \in Countries : AskedAbout(c)
  BY FreeIs DEF LoansInit, AskedAbout
<1> QED
  BY <1>1, FreeIs DEF LoansInit, LoansInv, LoansAssumption, Parties

(***************************************************************************)
(* However players' answers, offers, sales, due dates and falling capitals *)
(* follow one another, nobody signs for, pays or buys with money he has    *)
(* not; a signed loan ends with its debtor's payment or its creditor's     *)
(* seizure only; and a payment reaches who holds the loan then.            *)
(***************************************************************************)
THEOREM LoansAreKept == LoansSpec => LoansInOrder
<1>1. LoansInv /\ [LoansNext]_loanVars => LoansInv' /\ Promised
  BY LoansStep, LoansAssumption
<1>2. LoansInit => LoansInv
  BY LoansStart, LoansAssumption
<1>3. LoansSpec => [][Promised]_loanVars
  BY <1>1, <1>2, PTL DEF LoansSpec
<1>4. Promised => SolventStep /\ StandStep /\ OwnerStep
  BY DEF Promised
<1>5. LoansSpec => [][SolventStep]_loanVars /\ [][StandStep]_loanVars /\ [][OwnerStep]_loanVars
  BY <1>3, <1>4, PTL
<1>6. /\ LoansSolvent <=> [][SolventStep]_loanVars
      /\ SignedLoansStand <=> [][StandStep]_loanVars
      /\ PaymentsReachTheOwner <=> [][OwnerStep]_loanVars
  BY DEF LoansSolvent, SignedLoansStand, PaymentsReachTheOwner, SolventStep, StandStep, OwnerStep
<1> QED
  BY <1>5, <1>6 DEF LoansInOrder, LoansStand

-----------------------------------------------------------------------------
(* Moving and exploring.                                                   *)

(***************************************************************************)
(* Nothing is on the way but between taking and arriving.  The start       *)
(* sector has its flag just as long, and is there: a foe may take it, but  *)
(* not the emptiness.  When the command begins, and when it first read it, *)
(* it is the player's.  What a player keeps without people or goods he     *)
(* keeps for the flag.                                                     *)
(***************************************************************************)
MoveTypeOK ==
    /\ own \in [Sectors -> {"me", "foe", "none"}] /\ item \in [Sectors -> Int]
    /\ folk \in [Sectors -> BOOLEAN] /\ flag \in [Sectors -> BOOLEAN]
    /\ mvAt \in Sectors \cup {"begin", "asked", "done"} /\ mvCmd \in {"move", "explore"}
    /\ hand \in Nat /\ cost \in Int /\ events \in Nat
    /\ mvKind \in {"people", "goods"}

Kept(s) == own[s] = "me" => folk[s] \/ item[s] > 0 \/ flag[s]

MoveInv ==
    /\ MoveTypeOK
    /\ mvAt \notin Sectors => hand = 0
    /\ mvAt = "begin" => own["start"] = "me"
    /\ mvAt \notin {"begin", "done"} => seen.own = "me"
    /\ mvAt \in Sectors => flag["start"] /\ own["start"] # "none"
    /\ mvCmd = "move" => \A s \in Sectors : /\ flag[s] => s = "start" /\ mvAt \in Sectors
                                            /\ Kept(s)

MovePromised == mvCmd = "move" /\ Commanded => Total' <= Total

\* The invariant says what is to be true in every state.
LEMMA MoveInvSuffices == MoveInv => StartKeptWhileMoving
BY DEF MoveInv, StartKeptWhileMoving, MoveTypeOK, Sectors, Kept

\* Writing a sector when the command is not at work in it.
LEMMA PutKeeps ==
  ASSUME MoveInv, NEW s \in Sectors, NEW o \in {"me", "foe"}, NEW i \in Int, NEW f \in BOOLEAN,
         Put(s, o, i, f, flag[s])
  PROVE  /\ own' \in [Sectors -> {"me", "foe", "none"}] /\ item' \in [Sectors -> Int]
         /\ folk' \in [Sectors -> BOOLEAN] /\ flag' = flag
         /\ flag["start"] /\ own["start"] # "none" => own'["start"] # "none"
         /\ mvCmd = "move" /\ own[s] # "none" => \A x \in Sectors : Kept(x)'
<1>1. /\ own \in [Sectors -> {"me", "foe", "none"}] /\ item \in [Sectors -> Int]
      /\ folk \in [Sectors -> BOOLEAN] /\ flag \in [Sectors -> BOOLEAN]
      /\ mvCmd = "move" => \A x \in Sectors : Kept(x)
  BY DEF MoveInv, MoveTypeOK
<1>2. own' = [own EXCEPT ![s] = IF Reverts(s, i, f, flag[s]) THEN "none" ELSE o]
  BY DEF Put
<1>3. item' = [item EXCEPT ![s] = i] /\ folk' = [folk EXCEPT ![s] = f]
  BY DEF Put
<1>4. flag' = flag
  BY <1>1 DEF Put
<1>5. own' \in [Sectors -> {"me", "foe", "none"}] /\ item' \in [Sectors -> Int] /\ folk' \in [Sectors -> BOOLEAN]
  BY <1>1, <1>2, <1>3
<1>6. flag["start"] /\ own["start"] # "none" => own'["start"] # "none"
  BY <1>1, <1>2 DEF Reverts, Sectors
<1>7. ASSUME mvCmd = "move", own[s] # "none", NEW x \in Sectors PROVE Kept(x)'
  <2>1. CASE x = s
    BY <2>1, <1>1, <1>2, <1>3, <1>4, <1>7 DEF Kept, Reverts
  <2>2. CASE x # s
    BY <2>2, <1>1, <1>2, <1>3, <1>4, <1>7 DEF Kept
  <2> QED
    BY <2>1, <2>2
<1> QED
  BY <1>4, <1>5, <1>6, <1>7

\* What others do to the sectors meanwhile.
LEMMA OthersKeep ==
  ASSUME MoveAssumption, MoveInv, NEW s \in Sectors,
         Captured(s) \/ Bombed(s) \/ Filled(s) \/ MobilityDrawn
  PROVE  MoveInv' /\ MovePromised
<1>1. Happens
  BY DEF Captured, Bombed, Filled, MobilityDrawn
<1>2. /\ mvCmd' = mvCmd /\ mvKind' = mvKind /\ mvAt' = mvAt /\ seen' = seen /\ hand' = hand /\ cost' = cost
      /\ events' = events + 1 /\ events \in Nat /\ mvAt \in Sectors \cup {"asked"}
  BY <1>1 DEF Happens, Waiting, MoveInv, MoveTypeOK
<1>3. MovePromised
  BY <1>2 DEF MovePromised, Commanded
<1>4. /\ own' \in [Sectors -> {"me", "foe", "none"}] /\ item' \in [Sectors -> Int]
      /\ folk' \in [Sectors -> BOOLEAN] /\ flag' = flag
      /\ flag["start"] /\ own["start"] # "none" => own'["start"] # "none"
      /\ mvCmd = "move" => \A x \in Sectors : Kept(x)'
  <2>1. CASE Captured(s)
    <3>1. item[s] \in Int
      BY DEF MoveInv, MoveTypeOK
    <3>2. own'[s] # "me"
      BY <2>1 DEF Captured, Put, MoveInv, MoveTypeOK
    <3>3. \A x \in Sectors : x # s => own'[x] = own[x] /\ item'[x] = item[x] /\ folk'[x] = folk[x] /\ flag'[x] = flag[x]
      BY <2>1 DEF Captured, Put, MoveInv, MoveTypeOK
    <3>4. mvCmd = "move" => \A x \in Sectors : Kept(x)'
      BY <3>2, <3>3 DEF Kept, MoveInv
    <3>5. Put(s, "foe", item[s], TRUE, flag[s])
      BY <2>1 DEF Captured
    <3> QED
      BY <3>1, <3>4, <3>5, PutKeeps
  <2>2. CASE Bombed(s)
    <3>1. item[s] \in Int /\ folk[s] \in BOOLEAN /\ own[s] \in {"me", "foe"}
      BY <2>2 DEF Bombed, MoveInv, MoveTypeOK
    <3>2. PICK i \in 0..item[s], f \in {folk[s], FALSE} : Put(s, own[s], i, f, flag[s])
      BY <2>2 DEF Bombed
    <3>3. i \in Int
      BY <3>1, SMT
    <3>4. f \in BOOLEAN
      BY <3>1, Zenon
    <3>5. own[s] # "none"
      BY <3>1
    <3> QED
      BY <3>1, <3>2, <3>3, <3>4, <3>5, PutKeeps
  <2>3. CASE Filled(s)
    <3>1. ItemMax \in Int
      BY DEF MoveAssumption
    <3>2. folk[s] \in BOOLEAN /\ own[s] = "me"
      BY <2>3 DEF Filled, MoveInv, MoveTypeOK
    <3>3. Put(s, own[s], ItemMax, folk[s], flag[s])
      BY <2>3 DEF Filled
    <3> QED
      BY <3>1, <3>2, <3>3, PutKeeps
  <2>4. CASE MobilityDrawn
    BY <2>4 DEF MobilityDrawn, MoveInv, MoveTypeOK, Kept
  <2> QED
    BY <2>1, <2>2, <2>3, <2>4
<1>5. MoveInv'
  BY <1>2, <1>4 DEF MoveInv, MoveTypeOK, Sectors
<1> QED
  BY <1>3, <1>5

\* The command reads the start sector, and may give up.
LEMMA AskKeeps == MoveInv /\ (Ask \/ GiveUp) => MoveInv' /\ MovePromised
<1> SUFFICES ASSUME MoveInv, Ask \/ GiveUp PROVE MoveInv' /\ MovePromised
  OBVIOUS
<1>1. /\ own' = own /\ item' = item /\ folk' = folk /\ flag' = flag /\ hand' = hand /\ cost' = cost
      /\ events' = events /\ mvCmd' = mvCmd /\ mvKind' = mvKind
      /\ mvAt \in {"begin", "asked"} /\ mvAt' \in {"asked", "done"}
  BY DEF Ask, GiveUp, sectorVars
<1>2. mvAt' = "asked" => seen' = StartNow /\ mvAt = "begin"
  BY DEF Ask, GiveUp
<1>3. mvAt' = "asked" => seen'.own = "me"
  BY <1>2 DEF StartNow, MoveInv
<1>4. MoveInv'
  BY <1>1, <1>3 DEF MoveInv, MoveTypeOK, Sectors, Kept
<1>5. Total' = Total
  BY <1>1 DEF Total
<1>6. Total \in Int
  BY DEF Total, MoveInv, MoveTypeOK, Sectors
<1> QED
  BY <1>4, <1>5, <1>6 DEF MovePromised

\* The goods leave the start sector, which is flagged.
LEMMA TakeKeeps ==
  ASSUME MoveAssumption, MoveInv, NEW n \in 1..ItemMax, Take(n)
  PROVE  MoveInv' /\ MovePromised
<1>1. own["start"] = "me" /\ mvAt = "asked" /\ hand = 0 /\ hand' = n /\ n \in Nat
  BY DEF Take, StartNow, MoveInv, MoveTypeOK, Sectors, MoveAssumption
<1>2. /\ mvCmd' = mvCmd /\ mvKind' = mvKind /\ mvAt' = "start" /\ seen' = seen /\ cost' = cost /\ events' = events
  BY DEF Take
<1>3. Put("start", own["start"], item["start"] - n, folk["start"], TRUE)
  BY DEF Take
<1>4. own' = own
  BY <1>1, <1>3 DEF Put, Reverts, MoveInv, MoveTypeOK
<1>5. /\ item' = [item EXCEPT !["start"] = item["start"] - n]
      /\ folk' = folk /\ flag' = [flag EXCEPT !["start"] = TRUE]
  BY <1>3 DEF Put, MoveInv, MoveTypeOK
<1>6. item \in [Sectors -> Int] /\ item' \in [Sectors -> Int] /\ flag' \in [Sectors -> BOOLEAN]
  BY <1>1, <1>5 DEF MoveInv, MoveTypeOK, Sectors
<1>7. Total' = Total
  BY <1>1, <1>5, <1>6 DEF Total, Sectors
<1>8. \A x \in Sectors : x # "start" => item'[x] = item[x] /\ flag'[x] = flag[x]
  BY <1>5 DEF MoveInv, MoveTypeOK
<1>9. flag'["start"]
  BY <1>5 DEF MoveInv, MoveTypeOK, Sectors
<1>10. mvCmd = "move" => \A x \in Sectors : (flag'[x] => x = "start") /\ Kept(x)'
  BY <1>4, <1>5, <1>8, <1>9 DEF MoveInv, Kept
<1>11. MoveInv'
  BY <1>1, <1>2, <1>4, <1>5, <1>6, <1>9, <1>10 DEF MoveInv, MoveTypeOK, Sectors
<1>12. Total \in Int
  BY <1>1, <1>6 DEF Total, Sectors
<1> QED
  BY <1>7, <1>11, <1>12 DEF MovePromised

\* The goods go on.
LEMMA StepKeeps ==
  ASSUME MoveInv, NEW s \in Sectors, Step(s)
  PROVE  MoveInv' /\ MovePromised
<1>1. /\ own' = own /\ item' = item /\ folk' = folk /\ flag' = flag /\ hand' = hand /\ cost' \in Int
      /\ events' = events /\ mvCmd' = mvCmd /\ mvKind' = mvKind /\ seen' = seen
      /\ mvAt \in Sectors /\ mvAt' = s
  BY DEF Step, sectorVars, MoveInv, MoveTypeOK
<1>2. MoveInv'
  BY <1>1 DEF MoveInv, MoveTypeOK, Sectors, Kept
<1>3. Total' = Total /\ Total \in Int
  BY <1>1 DEF Total, MoveInv, MoveTypeOK, Sectors
<1> QED
  BY <1>2, <1>3 DEF MovePromised

(***************************************************************************)
(* The command ends: at most what was on the way comes to a sector, whose  *)
(* owner is the same for a move, and the start sector's flag goes.         *)
(***************************************************************************)
LEMMA ArrivingKeeps ==
  ASSUME MoveInv, mvAt \in Sectors, NEW n \in Int, n <= hand, NEW s \in Sectors, NEW o \in {"me", "foe", "none"},
         NEW fl \in [Sectors -> BOOLEAN], NEW m, Deliver(n, s, o, fl, m), Arrived,
         mvCmd = "move" => o = own[s] /\ fl = Unflagged
  PROVE  MoveInv' /\ MovePromised
<1>1. /\ own \in [Sectors -> {"me", "foe", "none"}] /\ item \in [Sectors -> Int]
      /\ folk \in [Sectors -> BOOLEAN] /\ flag \in [Sectors -> BOOLEAN] /\ hand \in Nat
  BY DEF MoveInv, MoveTypeOK
<1>2. /\ mvAt' = "done" /\ hand' = 0 /\ mvCmd' = mvCmd /\ mvKind' = mvKind /\ cost' = cost /\ events' = events
  BY DEF Arrived
<1>3. item' = [item EXCEPT ![s] = item[s] + n] /\ flag' = fl /\ folk' = folk
  BY DEF Deliver
<1>4. item' \in [Sectors -> Int] /\ item'[s] = item[s] + n /\ \A x \in Sectors : x # s => item'[x] = item[x]
  BY <1>1, <1>3
<1>5. \A x \in Sectors :
         own'[x] = IF x \notin {s, "start"} THEN own[x]
                   ELSE IF Reverts(x, item'[x], folk[x], fl[x]) THEN "none"
                   ELSE IF x = s THEN o ELSE own[x]
  BY <1>4 DEF Deliver
<1>6. own' \in [Sectors -> {"me", "foe", "none"}]
  <2>1. \A x \in Sectors : own'[x] \in {"me", "foe", "none"}
    BY <1>1, <1>5
  <2>2. own' = [x \in Sectors |-> own'[x]]
    BY DEF Deliver
  <2> QED
    BY <2>1, <2>2
<1>7. ASSUME mvCmd = "move", NEW x \in Sectors PROVE ~flag'[x] /\ Kept(x)'
  <2>1. fl = [flag EXCEPT !["start"] = FALSE] /\ o = own[s]
    BY <1>7 DEF Unflagged
  <2>2. ~flag'[x]
    BY <2>1, <1>1, <1>3, <1>7 DEF MoveInv
  <2>3. CASE x \in {s, "start"}
    BY <2>1, <2>2, <2>3, <1>1, <1>3, <1>5 DEF Kept, Reverts
  <2>4. CASE x \notin {s, "start"}
    <3>1. own'[x] = own[x] /\ item'[x] = item[x] /\ folk'[x] = folk[x] /\ ~flag[x]
      BY <2>4, <1>3, <1>4, <1>5, <1>7 DEF MoveInv
    <3>2. Kept(x)
      BY <1>7 DEF MoveInv
    <3> QED
      BY <2>2, <3>1, <3>2 DEF Kept
  <2> QED
    BY <2>2, <2>3, <2>4
<1>8. MoveInv'
  BY <1>2, <1>3, <1>4, <1>6, <1>7 DEF MoveInv, MoveTypeOK, Sectors
<1>9. MovePromised
  BY <1>1, <1>2, <1>4 DEF MovePromised, Total, Sectors
<1> QED
  BY <1>8, <1>9

\* The last step of a move: to where it has come, back, to a neighbor, or lost.
LEMMA MoveEndKeeps ==
  ASSUME MoveAssumption, MoveInv, NEW n \in 0..ItemMax, NEW refused \in BOOLEAN, NEW d \in {"dest", "side"},
         MoveLost(n) \/ MoveDelivers(n, refused) \/ MoveDestroys(n, refused) \/ MoveDumps(n, refused, d)
  PROVE  MoveInv' /\ MovePromised
<1>1. mvAt \in Sectors /\ mvCmd = "move" /\ Arrived /\ n \in Nat /\ n <= hand /\ hand \in Nat
  BY DEF MoveLost, MoveDelivers, MoveDestroys, MoveDumps, Arriving, MoveInv, MoveTypeOK, MoveAssumption
<1>2. "start" \in Sectors /\ d \in Sectors /\ Home(n, refused) \in Sectors
  BY <1>1 DEF Sectors, Home
<1>3. \A s \in Sectors : own[s] \in {"me", "foe", "none"} /\ Room(s) \in Int
  BY DEF MoveInv, MoveTypeOK, Room, MoveAssumption
<1>4. \A s \in Sectors : Capped(n, s) \in Int /\ Capped(n, s) <= hand
  BY <1>1, <1>3 DEF Capped
<1>5. Unflagged \in [Sectors -> BOOLEAN]
  BY DEF Unflagged, MoveInv, MoveTypeOK
<1>6. \E k \in Int, s \in Sectors : k <= hand /\ \E m : Deliver(k, s, own[s], Unflagged, m)
  <2>1. CASE MoveLost(n) \/ MoveDestroys(n, refused)
    BY <2>1, <1>1, <1>2 DEF MoveLost, MoveDestroys
  <2>2. CASE MoveDelivers(n, refused)
    BY <2>2, <1>2, <1>4 DEF MoveDelivers
  <2>3. CASE MoveDumps(n, refused, d)
    BY <2>3, <1>2, <1>4 DEF MoveDumps
  <2> QED
    BY <2>1, <2>2, <2>3
<1>7. PICK k \in Int, s \in Sectors : k <= hand /\ \E m : Deliver(k, s, own[s], Unflagged, m)
  BY <1>6
<1>8. PICK m : Deliver(k, s, own[s], Unflagged, m)
  BY <1>7
<1> QED
  BY <1>1, <1>3, <1>5, <1>7, <1>8, ArrivingKeeps

\* The last step of exploring, which may take the sector it has come to.
LEMMA ExploreEndKeeps ==
  ASSUME MoveAssumption, MoveInv, NEW n \in 0..ItemMax, NEW refused \in BOOLEAN,
         ExploreLost(n) \/ ExploreStranded(n) \/ ExploreSettles(n, refused)
  PROVE  MoveInv' /\ MovePromised
<1>1. mvAt \in Sectors /\ mvCmd = "explore" /\ Arrived
  BY DEF ExploreLost, ExploreStranded, ExploreSettles, Arriving
<1>2. /\ own \in [Sectors -> {"me", "foe", "none"}] /\ item \in [Sectors -> Int]
      /\ folk \in [Sectors -> BOOLEAN] /\ flag \in [Sectors -> BOOLEAN]
  BY DEF MoveInv, MoveTypeOK
<1>3. "start" \in Sectors
  BY DEF Sectors
<1>4. \A s \in Sectors : Room(s) \in Int /\ Capped(n, s) \in Int /\ item[s] - item["start"] \in Int
  BY <1>2, <1>3 DEF Room, Capped, MoveAssumption
<1>5. Unflagged \in [Sectors -> BOOLEAN] /\ [flag EXCEPT ![mvAt] = FALSE] \in [Sectors -> BOOLEAN]
  BY <1>2 DEF Unflagged
<1>6. PICK k \in Int, s \in Sectors, o \in {"me", "foe", "none"}, fl \in [Sectors -> BOOLEAN] :
         \E m : Deliver(k, s, o, fl, m)
  <2>1. CASE ExploreLost(n)
    <3> DEFINE fl == [flag EXCEPT ![mvAt] = FALSE]
    <3>1. Deliver(0, mvAt, own[mvAt], fl, Charged)
      BY <2>1 DEF ExploreLost
    <3>2. fl \in [Sectors -> BOOLEAN] /\ own[mvAt] \in {"me", "foe", "none"}
      BY <1>1, <1>2, <1>5
    <3> HIDE DEF fl
    <3> QED
      BY <3>1, <3>2, <1>1
  <2>2. CASE ExploreStranded(n)
    BY <2>2, <1>1, <1>2, <1>3, <1>5 DEF ExploreStranded
  <2>3. CASE ExploreSettles(n, refused)
    <3> DEFINE back == own[mvAt] = "foe" \/ (own[mvAt] = "me" /\ refused)
               t == IF back THEN "start" ELSE mvAt
               some == IF cost = -1 /\ ~back THEN seen.mob ELSE Charged
    <3>1. t \in Sectors
      BY <1>1, <1>3
    <3>2. \/ Deliver(item[t] - item["start"], "start", own["start"], Unflagged, Charged)
          \/ Deliver(Capped(n, t), t, "me", Unflagged, some)
      BY <2>3 DEF ExploreSettles
    <3> HIDE DEF t, some
    <3> QED
      BY <3>1, <3>2, <1>2, <1>3, <1>4, <1>5
  <2> QED
    BY <2>1, <2>2, <2>3
<1>7. /\ own' \in [Sectors -> {"me", "foe", "none"}] /\ item' \in [Sectors -> Int]
      /\ folk' = folk /\ flag' = fl
  <2>0. PICK m : Deliver(k, s, o, fl, m)
    BY <1>6
  <2>1. item' = [item EXCEPT ![s] = item[s] + k] /\ flag' = fl /\ folk' = folk
    BY <2>0 DEF Deliver
  <2>2. \A x \in Sectors : own'[x] \in {"none", o, own[x]}
    BY <2>0 DEF Deliver
  <2>3. own' = [x \in Sectors |-> own'[x]]
    BY <2>0 DEF Deliver
  <2>4. \A x \in Sectors : own'[x] \in {"me", "foe", "none"}
    BY <2>2, <1>2
  <2> QED
    BY <2>1, <2>3, <2>4, <1>2
<1>8. /\ mvAt' = "done" /\ hand' = 0 /\ mvCmd' = mvCmd /\ mvKind' = mvKind /\ cost' = cost /\ events' = events
  BY <1>1 DEF Arrived
<1>9. MoveInv'
  BY <1>1, <1>2, <1>7, <1>8 DEF MoveInv, MoveTypeOK, Sectors
<1> QED
  BY <1>1, <1>9 DEF MovePromised

\* Every step keeps the invariant, and does what is promised.
LEMMA MoveStep == MoveAssumption /\ MoveInv /\ [MoveNext]_moveVars => MoveInv' /\ MovePromised
<1> SUFFICES ASSUME MoveAssumption, MoveInv, [MoveNext]_moveVars PROVE MoveInv' /\ MovePromised
  OBVIOUS
<1>1. ASSUME NEW s \in Sectors, Captured(s) \/ Bombed(s) \/ Filled(s) PROVE MoveInv' /\ MovePromised
  BY <1>1, OthersKeep
<1>2. ASSUME MobilityDrawn PROVE MoveInv' /\ MovePromised
  BY <1>2, OthersKeep DEF Sectors
<1>3. ASSUME NEW s \in Sectors, Step(s) PROVE MoveInv' /\ MovePromised
  BY <1>3, StepKeeps
<1>4. ASSUME Ask \/ GiveUp PROVE MoveInv' /\ MovePromised
  BY <1>4, AskKeeps
<1>5. ASSUME NEW n \in 1..ItemMax, Take(n) PROVE MoveInv' /\ MovePromised
  BY <1>5, TakeKeeps
<1>6. ASSUME NEW n \in 0..ItemMax, MoveLost(n) PROVE MoveInv' /\ MovePromised
  BY <1>6, MoveEndKeeps
<1>7. ASSUME NEW n \in 0..ItemMax, ExploreLost(n) \/ ExploreStranded(n) PROVE MoveInv' /\ MovePromised
  BY <1>7, ExploreEndKeeps
<1>8. ASSUME NEW n \in 0..ItemMax, NEW refused \in BOOLEAN,
             MoveDelivers(n, refused) \/ MoveDestroys(n, refused)
      PROVE  MoveInv' /\ MovePromised
  BY <1>8, MoveEndKeeps
<1>9. ASSUME NEW n \in 0..ItemMax, NEW refused \in BOOLEAN, NEW s \in {"dest", "side"},
             MoveDumps(n, refused, s)
      PROVE  MoveInv' /\ MovePromised
  BY <1>9, MoveEndKeeps
<1>10. ASSUME NEW n \in 0..ItemMax, NEW refused \in BOOLEAN, ExploreSettles(n, refused)
       PROVE  MoveInv' /\ MovePromised
  BY <1>10, ExploreEndKeeps
<1>11. CASE UNCHANGED moveVars
  <2>1. MoveInv'
    BY <1>11 DEF moveVars, MoveInv, MoveTypeOK, Kept
  <2>2. Total' = Total /\ Total \in Int
    BY <1>11 DEF moveVars, Total, MoveInv, MoveTypeOK, Sectors
  <2> QED
    BY <2>1, <2>2 DEF MovePromised
<1>12. {FALSE, mvKind = "people"} \subseteq BOOLEAN
  OBVIOUS
<1> QED
  BY <1>1, <1>2, <1>3, <1>4, <1>5, <1>6, <1>7, <1>8, <1>9, <1>10, <1>11, <1>12 DEF MoveNext

\* The command begins with a sector of the player's own, and nothing flagged.
LEMMA MoveStart == MoveAssumption /\ MoveInit => MoveInv
<1> SUFFICES ASSUME MoveAssumption, MoveInit PROVE MoveInv
  OBVIOUS
<1>1. own \in [Sectors -> {"me", "foe", "none"}] /\ item \in [Sectors -> Int]
  BY DEF MoveInit, MoveAssumption
<1>2. folk \in [Sectors -> BOOLEAN] /\ flag \in [Sectors -> BOOLEAN]
  BY DEF MoveInit
<1>3. MoveTypeOK
  BY <1>1, <1>2 DEF MoveInit, MoveTypeOK, MoveAssumption
<1>4. \A s \in Sectors : ~flag[s] /\ (own[s] = "me" => folk[s])
  BY DEF MoveInit
<1> QED
  BY <1>3, <1>4 DEF MoveInit, MoveInv, Kept, Sectors

(***************************************************************************)
(* Whatever becomes of the sectors while goods are on their way, a move    *)
(* makes no goods from nothing; the start sector is not lost to the        *)
(* emptiness the goods leave; and when the move has ended no flag is left, *)
(* and no sector is kept where nothing is.                                 *)
(***************************************************************************)
THEOREM MovesAreKept == MoveSpec => MovesInOrder
<1>1. MoveInv /\ [MoveNext]_moveVars => MoveInv' /\ MovePromised
  BY MoveStep, MoveAssumption
<1>2. MoveInit => MoveInv
  BY MoveStart, MoveAssumption
<1>3. MoveSpec => []MoveInv /\ [][MovePromised]_moveVars
  BY <1>1, <1>2, PTL DEF MoveSpec
<1>4. MoveSpec => []StartKeptWhileMoving
  BY <1>3, MoveInvSuffices, PTL
<1>5. MoveCreatesNothing <=> [][MovePromised]_moveVars
  BY DEF MoveCreatesNothing, MovePromised
<1> QED
  BY <1>3, <1>4, <1>5 DEF MovesInOrder

-----------------------------------------------------------------------------
(* Supply.                                                                 *)

Looking == supAt \in 0..(Len(Sources) + 1)

SupplyTypeOK ==
    /\ supAt \in 0..(Len(Sources) + 1) \cup {Unasked, Answered, Finished}
    /\ supReal \in BOOLEAN /\ could \in BOOLEAN /\ supplied \in BOOLEAN
    /\ supWanted \in Int /\ hold \in Int /\ supTarget \in Int
    /\ stock \in [Places -> Int] /\ keep \in [Places -> Int] /\ mobil \in [Carriers -> Nat]

\* What the sink can get at place p.
Offers(p) == IF p = 0 THEN Spare(0) ELSE CanMove(p)

(***************************************************************************)
(* An account of a search that gives up: rest[p] is wanted when place p's  *)
(* turn comes, and after each of the places from i to j something still is *)
(* although no less was taken off than the place offers.                   *)
(***************************************************************************)
Accounts == [0..(Len(Sources) + 1) -> Int]
LeavesWanting(rest, i, j) ==
    \A p \in i..j : /\ rest[p + 1] > 0 /\ rest[p + 1] <= rest[p]
                    /\ Offers(p) <= rest[p] - rest[p + 1]

(***************************************************************************)
(* The call that only asks keeps such an account as far as it got, and     *)
(* when it says no the account is complete.  Drawing supplies then finds   *)
(* no more in any place that is left than the account has, so it says no   *)
(* as well: the carriers' mobility only shrinks.  And what is not wanted   *)
(* any more the sink has, unless its own sector was drawn down.            *)
(***************************************************************************)
SupplyInv ==
    /\ SupplyTypeOK
    /\ Looking => supWanted > 0
    /\ Looking /\ ~supReal =>
         \E rest \in Accounts : /\ rest[0] = supTarget - hold /\ rest[supAt] = supWanted
                                /\ LeavesWanting(rest, 0, supAt - 1)
    /\ supAt = Answered /\ ~supReal /\ ~could =>
         \E rest \in Accounts : /\ rest[0] = supTarget - hold
                                /\ LeavesWanting(rest, 0, Len(Sources))
    /\ Looking /\ supReal => stock[0] = keep[0] \/ hold + supWanted = supTarget
    /\ Looking /\ supReal /\ ~could =>
         \E rest \in Accounts : /\ rest[supAt] > 0 /\ rest[supAt] <= supWanted
                                /\ LeavesWanting(rest, supAt, Len(Sources))
    /\ supAt \in {Answered, Finished} /\ supReal /\ supplied =>
         could /\ (stock[0] # keep[0] => hold >= supTarget)
    /\ supAt = Finished => supReal

SourcesStep == \A p \in Places : stock'[p] < stock[p] => stock'[p] >= keep[p]

\* More by the same cost is no less.
LEMMA DivGrows ==
  ASSUME NEW a \in Nat, NEW b \in Nat, a <= b, NEW c \in Nat, c > 0
  PROVE  a \div c <= b \div c
<1> DEFINE x == a \div c
           y == b \div c
<1>1. x \in Int /\ y \in Int /\ c * x <= a /\ a < c * (x + 1) /\ c * y <= b /\ b < c * (y + 1)
  BY SMT
<1> HIDE DEF x, y
<1>2. SUFFICES ASSUME x >= y + 1 PROVE FALSE
  BY <1>1 DEF x, y
<1>3. c * x >= c * (y + 1)
  BY <1>1, <1>2, SMT
<1> QED
  BY <1>1, <1>3, SMT

\* A source of the list.
LEMMA SourceIs ==
  ASSUME SupplyAssumption, NEW p \in 1..Len(Sources)
  PROVE  /\ Sources[p].kind \in {"depot", "ship", "land"}
         /\ Sources[p].carrier \in Carriers /\ Sources[p].cost \in Nat
         /\ Len(Sources) \in Nat /\ p \in Places /\ p # 0
<1> DEFINE S == [kind : {"depot", "ship", "land"}, carrier : Carriers, cost : Nat]
<1>1. Sources \in Seq(S)
  BY DEF SupplyAssumption
<1> HIDE DEF S
<1>2. Sources[p] \in S /\ Len(Sources) \in Nat
  BY <1>1
<1> QED
  BY <1>2 DEF S, Places

\* What can be moved is no more than can be spared.
LEMMA CanMoveIs ==
  ASSUME SupplyAssumption, SupplyTypeOK, NEW p \in 1..Len(Sources)
  PROVE  CanMove(p) \in Int /\ CanMove(p) <= Spare(p) /\ Spare(p) \in Int
<1>1. Spare(p) \in Int
  BY SourceIs DEF SupplyTypeOK, Spare
<1>2. mobil[Sources[p].carrier] \in Nat /\ Sources[p].cost \in Nat
  BY SourceIs DEF SupplyTypeOK
<1> DEFINE moves == (2 * mobil[Sources[p].carrier]) \div Sources[p].cost
<1>3. Sources[p].cost # 0 => moves \in Int
  <2>1. \A a \in Nat, b \in Nat : b # 0 => (2 * a) \div b \in Int
    BY SMT
  <2> QED
    BY <1>2, <2>1
<1>4. CanMove(p) = IF Sources[p].cost = 0 \/ moves > Spare(p) THEN Spare(p) ELSE moves
  BY DEF CanMove
<1> HIDE DEF moves
<1> QED
  BY <1>1, <1>2, <1>3, <1>4

\* What can be moved shrinks with the mobility.
LEMMA CanMoveShrinks ==
  ASSUME SupplyAssumption, SupplyTypeOK, NEW p \in 1..Len(Sources),
         mobil' \in [Carriers -> Nat], \A c \in Carriers : mobil'[c] <= mobil[c],
         stock'[p] = stock[p], keep' = keep
  PROVE  CanMove(p)' \in Int /\ CanMove(p)' <= CanMove(p)
<1> DEFINE c == Sources[p].carrier
           t == Sources[p].cost
           old == (2 * mobil[c]) \div t
           new == (2 * mobil'[c]) \div t
<1>1. c \in Carriers /\ t \in Nat
  BY SourceIs
<1>2. mobil[c] \in Nat /\ mobil'[c] \in Nat /\ mobil'[c] <= mobil[c]
  BY <1>1 DEF SupplyTypeOK
<1>3. 2 * mobil[c] \in Nat /\ 2 * mobil'[c] \in Nat /\ 2 * mobil'[c] <= 2 * mobil[c]
  <2>1. \A a, b \in Nat : a <= b => 2 * b \in Nat /\ 2 * a \in Nat /\ 2 * a <= 2 * b
    OBVIOUS
  <2> HIDE DEF c, t, old, new
  <2> QED
    BY <1>2, <2>1
<1>4. ASSUME t # 0 PROVE new <= old /\ new \in Int /\ old \in Int
  <2>1. t > 0
    BY <1>1, <1>4
  <2> HIDE DEF t, c
  <2>2. \A a \in Nat, b \in Nat : b > 0 => a \div b \in Int
    BY SMT
  <2> QED
    BY <1>1, <1>3, <2>1, <2>2, DivGrows
<1>5. Spare(p) \in Int /\ Spare(p)' = Spare(p)
  BY SourceIs DEF SupplyTypeOK, Spare
<1>6. /\ CanMove(p) = IF t = 0 \/ old > Spare(p) THEN Spare(p) ELSE old
      /\ CanMove(p)' = IF t = 0 \/ new > Spare(p)' THEN Spare(p)' ELSE new
  BY DEF CanMove
<1> HIDE DEF old, new, t, c
<1> QED
  BY <1>1, <1>4, <1>5, <1>6

\* Moving goods costs mobility, if anything is moved.
LEMMA ChargeIs ==
  ASSUME SupplyAssumption, SupplyTypeOK, NEW p \in 1..Len(Sources), NEW n \in Nat, Charge(p, n)
  PROVE  mobil' \in [Carriers -> Nat] /\ \A c \in Carriers : mobil'[c] <= mobil[c]
<1>1. CASE supReal
  <2> DEFINE t == Sources[p].cost
             k == Sources[p].carrier
  <2>1. PICK fee \in {(n * t) \div 2, (n * t + 1) \div 2} :
           mobil' = [mobil EXCEPT ![k] = IF fee > mobil[k] THEN 0 ELSE mobil[k] - fee]
    BY <1>1 DEF Charge
  <2>2. n * t \in Nat
    BY SourceIs, SMT
  <2> HIDE DEF t
  <2>3. fee \in Nat
    BY <2>2, SMT
  <2>4. k \in Carriers /\ mobil \in [Carriers -> Nat]
    BY SourceIs DEF SupplyTypeOK
  <2> HIDE DEF k
  <2> QED
    BY <2>1, <2>3, <2>4
<1>2. CASE ~supReal
  BY <1>2 DEF Charge, SupplyTypeOK
<1> QED
  BY <1>1, <1>2

\* What a place gives leaves it, if anything is moved.
LEMMA GiveIs ==
  ASSUME SupplyTypeOK, NEW p \in Places, NEW n \in Int, NEW gets \in Int, Give(p, n, gets)
  PROVE  /\ stock' \in [Places -> Int] /\ hold' \in Int
         /\ \A q \in Places : q # p => stock'[q] = stock[q]
         /\ supReal => stock'[p] = stock[p] - n /\ hold' = hold + gets
         /\ ~supReal => stock' = stock /\ hold' = hold
BY DEF Give, SupplyTypeOK

\* An account stands while the places it is about only lose mobility.
LEMMA AccountStands ==
  ASSUME SupplyAssumption, SupplyTypeOK, NEW rest \in Accounts,
         NEW i \in 0..(Len(Sources) + 1), NEW j \in Int, j <= Len(Sources),
         LeavesWanting(rest, i, j), keep' = keep, \A p \in i..j : stock'[p] = stock[p],
         mobil' \in [Carriers -> Nat], \A c \in Carriers : mobil'[c] <= mobil[c]
  PROVE  LeavesWanting(rest, i, j)'
<1>1. Len(Sources) \in Nat
  BY DEF SupplyAssumption
<1> SUFFICES ASSUME NEW p \in i..j
             PROVE  /\ rest[p + 1] > 0 /\ rest[p + 1] <= rest[p]
                    /\ Offers(p)' <= rest[p] - rest[p + 1]
  BY DEF LeavesWanting
<1>2. rest[p + 1] > 0 /\ rest[p + 1] <= rest[p] /\ Offers(p) <= rest[p] - rest[p + 1]
  BY DEF LeavesWanting
<1>3. rest[p] \in Int /\ rest[p + 1] \in Int
  BY <1>1 DEF Accounts
<1>4. CASE p = 0
  BY <1>2, <1>4 DEF Offers, Spare
<1>5. CASE p # 0
  <2>1. p \in 1..Len(Sources)
    BY <1>1, <1>5
  <2>2. CanMove(p) \in Int /\ CanMove(p)' \in Int /\ CanMove(p)' <= CanMove(p)
    BY <2>1, CanMoveIs, CanMoveShrinks
  <2>3. Offers(p) = CanMove(p) /\ Offers(p)' = CanMove(p)'
    BY <1>5 DEF Offers
  <2> QED
    BY <1>2, <1>3, <2>2, <2>3
<1> QED
  BY <1>4, <1>5

\* What a place offers is a number, and where it is.
LEMMA PlaceIs ==
  ASSUME SupplyAssumption, SupplyTypeOK, NEW p \in 0..Len(Sources)
  PROVE  /\ Offers(p) \in Int /\ p \in Places /\ 0 \in Places /\ Len(Sources) \in Nat
         /\ p # 0 => p \in 1..Len(Sources) /\ Offers(p) = CanMove(p)
<1>1. Len(Sources) \in Nat
  BY DEF SupplyAssumption
<1>2. p \in Places /\ 0 \in Places
  BY <1>1 DEF Places
<1>3. CASE p = 0
  BY <1>1, <1>2, <1>3 DEF Offers, Spare, SupplyTypeOK
<1>4. CASE p # 0
  <2>1. p \in 1..Len(Sources)
    BY <1>1, <1>4
  <2> QED
    BY <1>1, <1>2, <1>4, <2>1, CanMoveIs DEF Offers
<1> QED
  BY <1>3, <1>4

(***************************************************************************)
(* The search goes on with what the place could not give: less than was    *)
(* wanted, and all that it offers.                                         *)
(***************************************************************************)
LEMMA LooksOn ==
  ASSUME SupplyAssumption, SupplyInv, supAt \in 0..Len(Sources), GoOn,
         NEW d \in Int, d = (IF Offers(supAt) > 0 THEN Offers(supAt) ELSE 0),
         supWanted' = supWanted - d, supWanted' > 0,
         supReal' = supReal, supTarget' = supTarget, keep' = keep,
         stock' \in [Places -> Int], hold' \in Int,
         mobil' \in [Carriers -> Nat], \A c \in Carriers : mobil'[c] <= mobil[c],
         \A q \in Places : q # supAt => stock'[q] = stock[q],
         ~supReal => stock' = stock /\ hold' = hold,
         supReal => stock'[0] = keep[0] \/ hold' + supWanted' = supTarget
  PROVE  SupplyInv'
<1>1. SupplyTypeOK /\ Looking /\ Len(Sources) \in Nat
  BY DEF SupplyInv, Looking, SupplyAssumption
<1>2. supAt' = supAt + 1 /\ could' = could /\ supplied' = supplied
  BY DEF GoOn
<1>3. SupplyTypeOK' /\ Looking'
  BY <1>1, <1>2 DEF SupplyTypeOK, Looking
<1>4. Offers(supAt) \in Int /\ supWanted \in Int
  BY <1>1, PlaceIs DEF SupplyTypeOK
<1>5. PICK k \in 0..Len(Sources) : k = supAt
  OBVIOUS
<1>6. /\ k \in 0..(Len(Sources) + 1) /\ k + 1 \in 0..(Len(Sources) + 1) /\ 0 \in 0..(Len(Sources) + 1)
      /\ k \in Nat /\ k <= Len(Sources) /\ (k + 1) - 1 = k
  BY <1>1
<1>7. supAt' = k + 1
  BY <1>2, <1>5
<1>8. ASSUME ~supReal
      PROVE  \E rest \in Accounts : /\ rest[0] = supTarget' - hold' /\ rest[k + 1] = supWanted'
                                    /\ LeavesWanting(rest, 0, k)'
  <2>1. PICK old \in Accounts : /\ old[0] = supTarget - hold /\ old[k] = supWanted
                                /\ LeavesWanting(old, 0, k - 1)
    BY <1>1, <1>5, <1>8 DEF SupplyInv
  <2>2. PICK rest \in Accounts : rest[k + 1] = supWanted' /\ \A q \in 0..k : rest[q] = old[q]
    <3> DEFINE new == [old EXCEPT ![k + 1] = supWanted']
    <3>1. new \in Accounts /\ new[k + 1] = supWanted' /\ \A q \in 0..k : new[q] = old[q]
      BY <1>1, <1>4, <1>6 DEF Accounts
    <3> HIDE DEF new
    <3> QED
      BY <3>1
  <2>3. LeavesWanting(rest, 0, k)
    <3> SUFFICES ASSUME NEW p \in 0..k
                 PROVE  /\ rest[p + 1] > 0 /\ rest[p + 1] <= rest[p]
                        /\ Offers(p) <= rest[p] - rest[p + 1]
      BY DEF LeavesWanting
    <3>1. CASE p = k
      BY <3>1, <2>1, <2>2, <1>1, <1>4, <1>5, <1>6
    <3>2. CASE p # k
      <4>1. p \in 0..k - 1 /\ p + 1 \in 0..k
        BY <3>2, <1>6
      <4> QED
        BY <4>1, <2>1, <2>2 DEF LeavesWanting
    <3> QED
      BY <3>1, <3>2
  <2>4. \A p \in 0..k : stock'[p] = stock[p]
    BY <1>8
  <2>5. LeavesWanting(rest, 0, k)'
    BY <1>1, <1>6, <2>2, <2>3, <2>4, AccountStands
  <2>6. rest[0] = supTarget' - hold'
    BY <1>6, <1>8, <2>1, <2>2
  <2> QED
    BY <2>2, <2>5, <2>6
<1>9. ASSUME supReal, ~could
      PROVE  \E rest \in Accounts : /\ rest[k + 1] > 0 /\ rest[k + 1] <= supWanted'
                                    /\ LeavesWanting(rest, k + 1, Len(Sources))'
  <2>1. PICK rest \in Accounts : /\ rest[k] > 0 /\ rest[k] <= supWanted
                                 /\ LeavesWanting(rest, k, Len(Sources))
    BY <1>1, <1>5, <1>9 DEF SupplyInv
  <2>2. rest[k + 1] > 0 /\ rest[k + 1] <= rest[k] /\ Offers(k) <= rest[k] - rest[k + 1]
    BY <2>1, <1>1 DEF LeavesWanting
  <2>3. rest[k] \in Int /\ rest[k + 1] \in Int
    BY <1>6 DEF Accounts
  <2>4. rest[k + 1] <= supWanted'
    BY <2>1, <2>2, <2>3, <1>4, <1>5
  <2>5. LeavesWanting(rest, k + 1, Len(Sources))
    BY <2>1, <1>1 DEF LeavesWanting
  <2>6. \A p \in (k + 1)..Len(Sources) : p \in Places /\ p # k
    BY <1>1 DEF Places
  <2>7. \A p \in (k + 1)..Len(Sources) : stock'[p] = stock[p]
    BY <1>5, <2>6
  <2>8. Len(Sources) \in Int /\ Len(Sources) <= Len(Sources)
    BY <1>1
  <2>9. LeavesWanting(rest, k + 1, Len(Sources))'
    BY <1>1, <1>6, <2>5, <2>7, <2>8, AccountStands
  <2> QED
    BY <2>2, <2>4, <2>9
<1>10. supAt' # Answered /\ supAt' # Finished
  BY <1>6, <1>7 DEF Answered, Finished
<1>11. /\ Looking' /\ ~supReal' =>
             \E rest \in Accounts : /\ rest[0] = supTarget' - hold' /\ rest[supAt'] = supWanted'
                                    /\ LeavesWanting(rest, 0, supAt - 1)'
       /\ Looking' /\ supReal' /\ ~could' =>
             \E rest \in Accounts : /\ rest[supAt'] > 0 /\ rest[supAt'] <= supWanted'
                                    /\ LeavesWanting(rest, supAt, Len(Sources))'
  BY <1>2, <1>6, <1>7, <1>8, <1>9 DEF LeavesWanting
<1> QED
  BY <1>2, <1>3, <1>10, <1>11 DEF SupplyInv

(***************************************************************************)
(* The search ends with a place that offers what is wanted: had the call   *)
(* that only asks given up, an account would say that it does not.         *)
(***************************************************************************)
LEMMA FindsEnough ==
  ASSUME SupplyAssumption, SupplyInv, supAt \in 0..Len(Sources), Answer(TRUE),
         Offers(supAt) >= supWanted,
         supReal' = supReal, supWanted' = supWanted, supTarget' = supTarget, keep' = keep,
         stock' \in [Places -> Int], hold' \in Int, mobil' \in [Carriers -> Nat],
         supReal => (stock'[0] # keep[0] => hold' >= supTarget)
  PROVE  SupplyInv'
<1>1. SupplyTypeOK /\ Looking /\ Len(Sources) \in Nat
  BY DEF SupplyInv, Looking, SupplyAssumption
<1>2. supAt' = Answered
  BY DEF Answer
<1>3. SupplyTypeOK'
  BY <1>1, <1>2 DEF Answer, SupplyTypeOK
<1>4. Answered # Finished /\ ~Looking'
  BY <1>1, <1>2 DEF Answered, Finished, Looking
<1>5. ASSUME supReal PROVE could
  <2>1. SUFFICES ASSUME ~could PROVE FALSE
    OBVIOUS
  <2>2. PICK rest \in Accounts : /\ rest[supAt] > 0 /\ rest[supAt] <= supWanted
                                 /\ LeavesWanting(rest, supAt, Len(Sources))
    BY <1>1, <1>5, <2>1 DEF SupplyInv
  <2>3. rest[supAt + 1] > 0 /\ Offers(supAt) <= rest[supAt] - rest[supAt + 1]
    BY <2>2, <1>1 DEF LeavesWanting
  <2>4. rest[supAt] \in Int /\ rest[supAt + 1] \in Int
    <3>1. supAt \in 0..(Len(Sources) + 1) /\ supAt + 1 \in 0..(Len(Sources) + 1)
      BY <1>1
    <3> QED
      BY <3>1 DEF Accounts
  <2>5. Offers(supAt) \in Int /\ supWanted \in Int
    BY <1>1, PlaceIs DEF SupplyTypeOK
  <2> QED
    BY <2>2, <2>3, <2>4, <2>5
<1>6. CASE supReal
  BY <1>2, <1>3, <1>4, <1>5, <1>6 DEF SupplyInv, Answer
<1>7. CASE ~supReal
  BY <1>2, <1>3, <1>4, <1>7 DEF SupplyInv, Answer
<1> QED
  BY <1>6, <1>7

\* A place gives no more than it can spare, or nothing.
LEMMA SourcesKeep ==
  ASSUME SupplyTypeOK, NEW p \in Places, \A q \in Places : q # p => stock'[q] = stock[q],
         stock'[p] >= keep[p] \/ stock'[p] = stock[p]
  PROVE  SourcesStep
<1> SUFFICES ASSUME NEW q \in Places, stock'[q] < stock[q] PROVE stock'[q] >= keep[q]
  BY DEF SourcesStep
<1>1. stock[q] \in Int
  BY DEF SupplyTypeOK
<1> QED
  BY <1>1

\* A call finds the sink has enough, or begins to look.
LEMMA CallKeeps ==
  ASSUME SupplyAssumption, SupplyInv, CouldBeSupplied \/ DrawSupplies
  PROVE  SupplyInv' /\ SourcesStep
<1>1. SupplyTypeOK /\ Len(Sources) \in Nat
  BY DEF SupplyInv, SupplyAssumption
<1>2. /\ hold' = hold /\ stock' = stock /\ keep' = keep /\ mobil' = mobil /\ supTarget' = supTarget
      /\ supWanted' = supTarget - hold /\ supReal' \in BOOLEAN /\ could' \in BOOLEAN /\ supplied' \in BOOLEAN
      /\ supAt' = IF supTarget <= hold THEN Answered ELSE 0
  <2>1. (supTarget <= hold) \in BOOLEAN
    BY <1>1, SMT DEF SupplyTypeOK
  <2>2. could \in BOOLEAN /\ supplied \in BOOLEAN
    BY <1>1 DEF SupplyTypeOK
  <2>3. PICK really \in BOOLEAN : Call(really)
    BY DEF CouldBeSupplied, DrawSupplies
  <2>4. supReal' \in BOOLEAN /\ could' \in BOOLEAN /\ supplied' \in BOOLEAN
    BY <2>1, <2>2, <2>3, Zenon DEF Call
  <2> QED
    BY <2>3, <2>4 DEF Call
<1>3. SupplyTypeOK'
  BY <1>1, <1>2 DEF SupplyTypeOK
<1>4. SourcesStep
  BY <1>1, <1>2 DEF SourcesStep, SupplyTypeOK
<1>5. Answered # Finished /\ 0 # Answered /\ 0 # Finished /\ Answered \notin 0..(Len(Sources) + 1)
  BY <1>1 DEF Answered, Finished
<1>6. 0 \in 0..(Len(Sources) + 1) /\ supTarget \in Int /\ hold \in Int /\ 0 \in 0..Len(Sources)
  BY <1>1 DEF SupplyTypeOK
<1>7. CASE CouldBeSupplied
  <2>1. ~supReal' /\ could' = (supTarget <= hold)
    BY <1>7 DEF CouldBeSupplied, Call
  <2>2. CASE supTarget <= hold
    BY <1>2, <1>3, <1>4, <1>5, <2>1, <2>2 DEF SupplyInv, Looking
  <2>3. CASE ~(supTarget <= hold)
    <3>1. supAt' = 0 /\ supWanted' > 0
      BY <1>2, <1>6, <2>3
    <3>2. PICK rest \in Accounts : rest[0] = supWanted'
      <4> DEFINE all == [p \in 0..(Len(Sources) + 1) |-> supTarget - hold]
      <4>1. all \in Accounts /\ all[0] = supWanted'
        BY <1>2, <1>6 DEF Accounts
      <4> HIDE DEF all
      <4> QED
        BY <4>1
    <3>3. LeavesWanting(rest, 0, 0 - 1)'
      BY DEF LeavesWanting
    <3> QED
      BY <1>2, <1>3, <1>4, <1>5, <2>1, <3>1, <3>2, <3>3 DEF SupplyInv, LeavesWanting
  <2> QED
    BY <2>2, <2>3
<1>8. CASE DrawSupplies
  <2>1. supReal' /\ supplied' = (supTarget <= hold) /\ could' = could /\ supAt = Answered /\ ~supReal
    BY <1>8 DEF DrawSupplies, Call
  <2>2. ASSUME ~could
        PROVE  \E rest \in Accounts : /\ rest[0] = supTarget - hold /\ rest[0] > 0
                                      /\ LeavesWanting(rest, 0, Len(Sources))
    <3>1. PICK rest \in Accounts : rest[0] = supTarget - hold /\ LeavesWanting(rest, 0, Len(Sources))
      BY <2>1, <2>2 DEF SupplyInv
    <3>2. rest[0 + 1] > 0 /\ rest[0 + 1] <= rest[0]
      BY <3>1, <1>6 DEF LeavesWanting
    <3>3. rest[0] \in Int /\ rest[0 + 1] \in Int
      BY <1>1, <1>6 DEF Accounts
    <3> QED
      BY <3>1, <3>2, <3>3
  <2>3. CASE supTarget <= hold
    <3>1. could
      BY <1>6, <2>2, <2>3
    <3> QED
      BY <1>2, <1>3, <1>4, <1>5, <1>6, <2>1, <2>3, <3>1 DEF SupplyInv, Looking
  <2>4. CASE ~(supTarget <= hold)
    <3>1. supAt' = 0 /\ supWanted' > 0 /\ hold' + supWanted' = supTarget'
      BY <1>2, <1>6, <2>4
    <3>2. ASSUME ~could'
          PROVE  \E rest \in Accounts : /\ rest[0] > 0 /\ rest[0] <= supWanted'
                                        /\ LeavesWanting(rest, 0, Len(Sources))'
      <4>1. PICK rest \in Accounts : /\ rest[0] = supTarget - hold /\ rest[0] > 0
                                     /\ LeavesWanting(rest, 0, Len(Sources))
        BY <2>1, <2>2, <3>2
      <4>2. rest[0] <= supWanted'
        BY <4>1, <1>2, <1>6
      <4>3. LeavesWanting(rest, 0, Len(Sources))'
        BY <4>1, <1>2 DEF LeavesWanting, Offers, Spare, CanMove
      <4> QED
        BY <4>1, <4>2, <4>3
    <3> QED
      BY <1>2, <1>3, <1>4, <1>5, <2>1, <3>1, <3>2 DEF SupplyInv, LeavesWanting
  <2> QED
    BY <2>3, <2>4
<1> QED
  BY <1>7, <1>8

\* The sector the sink is in.
LEMMA OwnSectorKeeps ==
  ASSUME SupplyAssumption, SupplyInv, OwnSector
  PROVE  SupplyInv' /\ SourcesStep
<1>1. SupplyTypeOK /\ Len(Sources) \in Nat /\ supAt = 0
  BY DEF SupplyInv, SupplyAssumption, OwnSector
<1> DEFINE spare == stock[0] - keep[0]
<1>2. 0 \in Places /\ Offers(0) = spare /\ 0 \in 0..Len(Sources) /\ Looking
  BY <1>1 DEF Places, Offers, Spare, Looking
<1>3. /\ supWanted \in Int /\ supWanted > 0 /\ stock[0] \in Int /\ keep[0] \in Int /\ hold \in Int
      /\ spare \in Int /\ supTarget \in Int
  BY <1>1, <1>2 DEF SupplyInv, SupplyTypeOK
<1>4. supReal' = supReal /\ keep' = keep /\ mobil' = mobil /\ supTarget' = supTarget
  BY DEF OwnSector
<1>5. supReal => stock[0] = keep[0] \/ hold + supWanted = supTarget
  BY <1>2 DEF SupplyInv
<1>6. mobil' \in [Carriers -> Nat] /\ \A c \in Carriers : mobil'[c] <= mobil[c]
  BY <1>1, <1>4 DEF SupplyTypeOK
<1>7. CASE spare >= supWanted /\ Give(0, supWanted, supWanted) /\ Answer(TRUE) /\ supWanted' = supWanted
  <2>1. /\ stock' \in [Places -> Int] /\ hold' \in Int
        /\ \A q \in Places : q # 0 => stock'[q] = stock[q]
        /\ supReal => stock'[0] = stock[0] - supWanted /\ hold' = hold + supWanted
        /\ ~supReal => stock' = stock
    BY <1>1, <1>2, <1>3, <1>7, GiveIs
  <2>2. SourcesStep
    <3>1. stock'[0] >= keep[0] \/ stock'[0] = stock[0]
      BY <1>1, <1>3, <1>7, <2>1
    <3> QED
      BY <3>1, <1>1, <1>2, <2>1, SourcesKeep
  <2>3. supReal => hold' >= supTarget
    BY <1>3, <1>5, <1>7, <2>1
  <2>4. SupplyInv'
    BY <1>1, <1>2, <1>4, <1>6, <1>7, <2>1, <2>3, FindsEnough
  <2> QED
    BY <2>2, <2>4
<1>8. CASE /\ spare < supWanted
           /\ supWanted' = supWanted - (IF spare > 0 THEN spare ELSE 0)
           /\ IF spare > 0 THEN Give(0, spare, 0) ELSE UNCHANGED <<stock, hold>>
           /\ GoOn
  <2> DEFINE d == IF spare > 0 THEN spare ELSE 0
  <2>1. d \in Int /\ d = (IF Offers(supAt) > 0 THEN Offers(supAt) ELSE 0)
    BY <1>1, <1>2, <1>3
  <2>2. supWanted' = supWanted - d /\ supWanted' > 0
    BY <1>3, <1>8
  <2>3. /\ stock' \in [Places -> Int] /\ hold' \in Int
        /\ \A q \in Places : q # 0 => stock'[q] = stock[q]
        /\ ~supReal => stock' = stock /\ hold' = hold
        /\ supReal => IF spare > 0 THEN stock'[0] = keep[0] ELSE stock' = stock /\ hold' = hold
        /\ supReal => hold' = hold
    <3>1. CASE spare > 0
      BY <1>1, <1>2, <1>3, <1>8, <3>1, GiveIs
    <3>2. CASE ~(spare > 0)
      BY <1>1, <1>8, <3>2 DEF SupplyTypeOK
    <3> QED
      BY <3>1, <3>2
  <2>4. SourcesStep
    <3>1. stock'[0] >= keep[0] \/ stock'[0] = stock[0]
      BY <1>1, <1>3, <2>3
    <3> QED
      BY <3>1, <1>1, <1>2, <2>3, SourcesKeep
  <2>5. supReal => stock'[0] = keep[0] \/ hold' + supWanted' = supTarget
    BY <1>3, <1>5, <2>2, <2>3
  <2> HIDE DEF d
  <2>6. SupplyInv'
    BY <1>1, <1>2, <1>4, <1>6, <1>8, <2>1, <2>2, <2>3, <2>5, LooksOn
  <2> QED
    BY <2>4, <2>6
<1> QED
  BY <1>7, <1>8 DEF OwnSector

\* A source has nothing to spare, or nothing that could be moved.
LEMMA NothingToSpareKeeps ==
  ASSUME SupplyAssumption, SupplyInv, NothingToSpare
  PROVE  SupplyInv' /\ SourcesStep
<1>1. SupplyTypeOK /\ supAt \in 1..Len(Sources) /\ supAt \in 0..Len(Sources) /\ Looking /\ GoOn
  BY DEF SupplyInv, SupplyAssumption, NothingToSpare, Depot, Ship, Looking
<1>2. CanMove(supAt) <= Spare(supAt) /\ CanMove(supAt) \in Int /\ Spare(supAt) \in Int
  BY <1>1, CanMoveIs
<1>3. Offers(supAt) <= 0 /\ Offers(supAt) \in Int
  BY <1>1, <1>2, PlaceIs DEF NothingToSpare
<1>4. /\ supReal' = supReal /\ supWanted' = supWanted /\ hold' = hold /\ stock' = stock /\ keep' = keep
      /\ mobil' = mobil /\ supTarget' = supTarget
  BY DEF NothingToSpare
<1>5. supWanted \in Int /\ supWanted > 0 /\ supWanted' = supWanted - 0
  BY <1>1, <1>4 DEF SupplyInv, SupplyTypeOK
<1>6. 0 = (IF Offers(supAt) > 0 THEN Offers(supAt) ELSE 0)
  BY <1>3
<1>7. /\ stock' \in [Places -> Int] /\ hold' \in Int /\ mobil' \in [Carriers -> Nat]
      /\ \A c \in Carriers : mobil'[c] <= mobil[c]
  BY <1>1, <1>4 DEF SupplyTypeOK
<1>8. supReal => stock'[0] = keep[0] \/ hold' + supWanted' = supTarget
  BY <1>1, <1>4 DEF SupplyInv
<1>9. SupplyInv'
  BY <1>1, <1>4, <1>5, <1>6, <1>7, <1>8, LooksOn
<1>10. SourcesStep
  BY <1>1, <1>4, PlaceIs, SourcesKeep
<1> QED
  BY <1>9, <1>10

\* A source gives what is left to want; a supply ship may give more.
LEMMA GivesTheRestKeeps ==
  ASSUME SupplyAssumption, SupplyInv, GivesTheRest
  PROVE  SupplyInv' /\ SourcesStep
<1>1. SupplyTypeOK /\ supAt \in 1..Len(Sources) /\ supAt \in 0..Len(Sources) /\ Looking /\ Answer(TRUE)
  <2>1. (Depot \/ Ship) /\ Answer(TRUE)
    BY DEF GivesTheRest
  <2>2. supAt \in 1..Len(Sources)
    BY <2>1 DEF Depot, Ship
  <2>3. SupplyTypeOK /\ supAt \in 0..Len(Sources) /\ Looking
    BY <2>2 DEF SupplyInv, SupplyAssumption, Looking
  <2> QED
    BY <2>1, <2>2, <2>3
<1> DEFINE gets == IF Ship THEN CanMove(supAt) ELSE supWanted
<1>2. CanMove(supAt) <= Spare(supAt) /\ CanMove(supAt) \in Int /\ Spare(supAt) = stock[supAt] - keep[supAt]
  BY <1>1, CanMoveIs DEF Spare
<1>3. /\ CanMove(supAt) >= supWanted /\ Give(supAt, supWanted, gets) /\ Charge(supAt, supWanted)
      /\ supReal' = supReal /\ supWanted' = supWanted /\ keep' = keep /\ supTarget' = supTarget
  BY DEF GivesTheRest
<1>4. supAt \in Places /\ 0 \in Places /\ supAt # 0 /\ Offers(supAt) >= supWanted
  BY <1>1, <1>3, PlaceIs, SourceIs
<1>5. supWanted \in Nat /\ supWanted \in Int /\ supWanted > 0 /\ hold \in Int /\ supTarget \in Int /\ stock[supAt] \in Int /\ keep[supAt] \in Int
  BY <1>1, <1>4 DEF SupplyInv, SupplyTypeOK
<1>6. gets \in Int /\ gets >= supWanted
  BY <1>2, <1>3, <1>5
<1> HIDE DEF gets
<1>7. /\ stock' \in [Places -> Int] /\ hold' \in Int
      /\ \A q \in Places : q # supAt => stock'[q] = stock[q]
      /\ supReal => stock'[supAt] = stock[supAt] - supWanted /\ hold' = hold + gets
      /\ ~supReal => stock' = stock
  BY <1>1, <1>3, <1>4, <1>5, <1>6, GiveIs
<1>8. mobil' \in [Carriers -> Nat]
  BY <1>1, <1>3, <1>5, ChargeIs
<1>9. supReal => (stock'[0] # keep[0] => hold' >= supTarget)
  <2>1. supReal => stock[0] = keep[0] \/ hold + supWanted = supTarget
    BY <1>1 DEF SupplyInv
  <2> QED
    BY <2>1, <1>4, <1>5, <1>6, <1>7
<1>10. SupplyInv'
  BY <1>1, <1>3, <1>4, <1>7, <1>8, <1>9, FindsEnough
<1>11. stock'[supAt] >= keep[supAt] \/ stock'[supAt] = stock[supAt]
  BY <1>2, <1>3, <1>5, <1>7
<1> QED
  BY <1>1, <1>4, <1>7, <1>10, <1>11, SourcesKeep

\* A source gives all it can, which is not enough.
LEMMA GivesSomeKeeps ==
  ASSUME SupplyAssumption, SupplyInv, GivesSome
  PROVE  SupplyInv' /\ SourcesStep
<1>1. SupplyTypeOK /\ supAt \in 1..Len(Sources) /\ supAt \in 0..Len(Sources) /\ Looking /\ GoOn
  BY DEF SupplyInv, SupplyAssumption, GivesSome, Depot, Ship, Looking
<1> DEFINE n == CanMove(supAt)
<1>2. n <= Spare(supAt) /\ n \in Int /\ Spare(supAt) = stock[supAt] - keep[supAt]
  BY <1>1, CanMoveIs DEF Spare
<1>3. /\ n \in 1..(supWanted - 1) /\ Give(supAt, n, n) /\ Charge(supAt, n)
      /\ supReal' = supReal /\ supWanted' = supWanted - n /\ keep' = keep /\ supTarget' = supTarget
  BY DEF GivesSome
<1>4. supAt \in Places /\ 0 \in Places /\ supAt # 0 /\ Offers(supAt) = n
  BY <1>1, PlaceIs, SourceIs
<1>5. supWanted \in Int /\ hold \in Int /\ supTarget \in Int /\ stock[supAt] \in Int /\ keep[supAt] \in Int
  BY <1>1, <1>4 DEF SupplyTypeOK
<1> HIDE DEF n
<1>6. n \in Nat /\ n > 0 /\ supWanted' > 0 /\ n = (IF Offers(supAt) > 0 THEN Offers(supAt) ELSE 0)
  BY <1>3, <1>4, <1>5
<1>7. /\ stock' \in [Places -> Int] /\ hold' \in Int
      /\ \A q \in Places : q # supAt => stock'[q] = stock[q]
      /\ supReal => stock'[supAt] = stock[supAt] - n /\ hold' = hold + n
      /\ ~supReal => stock' = stock /\ hold' = hold
  BY <1>1, <1>2, <1>3, <1>4, GiveIs
<1>8. mobil' \in [Carriers -> Nat] /\ \A c \in Carriers : mobil'[c] <= mobil[c]
  BY <1>1, <1>3, <1>6, ChargeIs
<1>9. supReal => stock'[0] = keep[0] \/ hold' + supWanted' = supTarget
  <2>1. supReal => stock[0] = keep[0] \/ hold + supWanted = supTarget
    BY <1>1 DEF SupplyInv
  <2> QED
    BY <2>1, <1>2, <1>3, <1>4, <1>5, <1>7
<1>10. SupplyInv'
  BY <1>1, <1>2, <1>3, <1>6, <1>7, <1>8, <1>9, LooksOn
<1>11. stock'[supAt] >= keep[supAt] \/ stock'[supAt] = stock[supAt]
  BY <1>2, <1>5, <1>7
<1> QED
  BY <1>1, <1>4, <1>7, <1>10, <1>11, SourcesKeep

\* All places were asked, and something is wanted still.
LEMMA NobodyLeftKeeps ==
  ASSUME SupplyAssumption, SupplyInv, NobodyLeft
  PROVE  SupplyInv' /\ SourcesStep
<1>1. SupplyTypeOK /\ Len(Sources) \in Nat /\ supAt = Len(Sources) + 1 /\ Looking
  BY DEF SupplyInv, SupplyAssumption, NobodyLeft, Looking
<1>2. /\ supAt' = Answered /\ supReal' = supReal /\ supWanted' = supWanted /\ hold' = hold /\ stock' = stock
      /\ keep' = keep /\ mobil' = mobil /\ supTarget' = supTarget
      /\ supReal => supplied' = FALSE /\ could' = could
      /\ ~supReal => could' = FALSE /\ supplied' = supplied
  BY DEF NobodyLeft, Answer
<1>3. SupplyTypeOK'
  BY <1>1, <1>2 DEF SupplyTypeOK
<1>4. Answered # Finished /\ Answered \notin 0..(Len(Sources) + 1)
  BY <1>1 DEF Answered, Finished
<1>5. ASSUME ~supReal
      PROVE  \E rest \in Accounts : rest[0] = supTarget - hold /\ LeavesWanting(rest, 0, Len(Sources))'
  <2>1. PICK rest \in Accounts : rest[0] = supTarget - hold /\ LeavesWanting(rest, 0, supAt - 1)
    BY <1>1, <1>5 DEF SupplyInv
  <2>2. supAt - 1 = Len(Sources)
    BY <1>1
  <2>3. LeavesWanting(rest, 0, Len(Sources))'
    BY <1>2, <2>1, <2>2 DEF LeavesWanting, Offers, Spare, CanMove
  <2> QED
    BY <2>1, <2>3
<1>6. SupplyInv'
  BY <1>2, <1>3, <1>4, <1>5 DEF SupplyInv, Looking
<1>7. SourcesStep
  BY <1>1, <1>2 DEF SourcesStep, SupplyTypeOK
<1> QED
  BY <1>6, <1>7

\* Who drew supplies has his answer; nothing changes hands.
LEMMA SuppliedKeeps ==
  SupplyAssumption /\ SupplyInv /\ (Supplied \/ UNCHANGED supplyVars) => SupplyInv' /\ SourcesStep
<1> SUFFICES ASSUME SupplyAssumption, SupplyInv, Supplied \/ UNCHANGED supplyVars
             PROVE  SupplyInv' /\ SourcesStep
  OBVIOUS
<1>1. SupplyTypeOK /\ Len(Sources) \in Nat
  BY DEF SupplyInv, SupplyAssumption
<1>2. stock' = stock /\ keep' = keep /\ mobil' = mobil
  BY DEF Supplied, supplyVars
<1>3. SourcesStep
  BY <1>1, <1>2 DEF SourcesStep, SupplyTypeOK
<1>4. CASE Supplied
  <2>1. /\ supAt' = Finished /\ supAt = Answered /\ supReal /\ supReal' = supReal /\ supplied' = supplied
        /\ could' = could /\ hold' = hold /\ supTarget' = supTarget /\ supWanted' = supWanted
    BY <1>4 DEF Supplied
  <2>2. Finished # Answered /\ Finished \notin 0..(Len(Sources) + 1)
    BY <1>1 DEF Answered, Finished
  <2>3. SupplyTypeOK'
    BY <1>1, <1>2, <2>1 DEF SupplyTypeOK
  <2>4. SupplyInv'
    BY <1>2, <2>1, <2>2, <2>3 DEF SupplyInv, Looking
  <2> QED
    BY <1>3, <2>4
<1>5. CASE UNCHANGED supplyVars
  <2>1. \A rest \in Accounts, i, j \in Int : LeavesWanting(rest, i, j)' = LeavesWanting(rest, i, j)
    BY <1>2 DEF LeavesWanting, Offers, Spare, CanMove
  <2>2. SupplyInv'
    BY <1>5 DEF supplyVars, SupplyInv, SupplyTypeOK, Looking, LeavesWanting, Offers, Spare, CanMove
  <2> QED
    BY <1>3, <2>2
<1> QED
  BY <1>4, <1>5

\* Every step keeps the invariant, and what the sources need.
LEMMA SupplyStep == SupplyAssumption /\ SupplyInv /\ [SupplyNext]_supplyVars => SupplyInv' /\ SourcesStep
BY CallKeeps, OwnSectorKeeps, NothingToSpareKeeps, GivesTheRestKeeps, GivesSomeKeeps, NobodyLeftKeeps,
   SuppliedKeeps DEF SupplyNext

\* Nothing was asked yet.
LEMMA SupplyStart == SupplyAssumption /\ SupplyInit => SupplyInv
<1> SUFFICES ASSUME SupplyAssumption, SupplyInit PROVE SupplyInv
  OBVIOUS
<1>1. Len(Sources) \in Nat
  BY DEF SupplyAssumption
<1>2. Unasked \notin 0..(Len(Sources) + 1) /\ Unasked # Answered /\ Unasked # Finished
  BY <1>1 DEF Unasked, Answered, Finished
<1>3. keep \in [Places -> Int]
  BY DEF SupplyInit
<1>4. stock \in [Places -> Int] /\ mobil \in [Carriers -> Nat] /\ hold \in Int /\ supTarget \in Int
  BY DEF SupplyInit, SupplyAssumption
<1>5. SupplyTypeOK
  <2>1. supAt = Unasked /\ supWanted \in Int
    BY DEF SupplyInit
  <2>2. supReal \in BOOLEAN /\ could \in BOOLEAN /\ supplied \in BOOLEAN
    BY Zenon DEF SupplyInit
  <2> QED
    BY <1>3, <1>4, <2>1, <2>2 DEF SupplyTypeOK
<1> QED
  BY <1>2, <1>5 DEF SupplyInit, SupplyInv, Looking

(***************************************************************************)
(* Whatever the sources have, whatever moving costs and however the fee is *)
(* rounded: no source gives what it needs itself, a sink that is supplied  *)
(* has what it wanted unless its own sector was drawn down, and nobody is  *)
(* supplied who was told before that he could not be.                      *)
(***************************************************************************)
THEOREM SuppliesAreAsTold == SupplySpec => SuppliesAsPromised
<1>1. SupplyInv /\ [SupplyNext]_supplyVars => SupplyInv' /\ SourcesStep
  BY SupplyStep, SupplyAssumption
<1>2. SupplyInit => SupplyInv
  BY SupplyStart, SupplyAssumption
<1>3. SupplyInv => SuppliedAsTold
  BY DEF SupplyInv, SuppliedAsTold
<1>4. SupplySpec => []SuppliedAsTold /\ [][SourcesStep]_supplyVars
  BY <1>1, <1>2, <1>3, PTL DEF SupplySpec
<1>5. SourcesKeepTheirNeeds <=> [][SourcesStep]_supplyVars
  BY DEF SourcesKeepTheirNeeds, SourcesStep
<1> QED
  BY <1>4, <1>5 DEF SuppliesAsPromised

-----------------------------------------------------------------------------
(* The shutdown's countdown.                                               *)

(***************************************************************************)
(* What is pending was asked for, and the thread has at least as far to    *)
(* count as there is time until then: from now when it is ready, from when *)
(* it wakes when it sleeps.  There is no thread when nothing is pending.   *)
(***************************************************************************)
CountdownInv ==
    /\ now \in Nat \ {0} /\ pending \in Nat /\ shutAt \in Int /\ request \in Int
    /\ shut \in {"none", "asleep", "ready"} /\ down \in BOOLEAN
    /\ pending > 0 => request # 0 /\ shut # "none"
    /\ pending > 0 /\ shut = "ready" => now + 2 * (pending - 1) >= request
    /\ pending > 0 /\ shut = "asleep" => shutAt + 2 * (pending - 1) >= request
    /\ ShutdownAsAsked

\* A deity asks for a shutdown, again perhaps.
LEMMA InitiateCounts ==
  ASSUME ScheduleAssumption, CountdownInv, NEW m \in Delays, ShutdownInitiate(m)
  PROVE  CountdownInv'
<1>1. m \in Nat
  BY DEF ScheduleAssumption
<1> QED
  BY <1>1 DEF CountdownInv, ShutdownInitiate, updateVars, ShutdownAsAsked

\* The thread takes its turn.
LEMMA TurnCounts ==
  ASSUME CountdownInv, ShutdownCounts
  PROVE  CountdownInv'
<1>1. now' = now /\ request' = request
  BY DEF ShutdownCounts
<1>2. CASE pending = 0
  BY <1>1, <1>2 DEF ShutdownCounts, CountdownInv, ShutdownAsAsked
<1>3. CASE pending # 0
  <2>1. /\ pending' = pending - 1 /\ shut' = "asleep" /\ shutAt' = now + 2 /\ down' = (pending = 1)
        /\ shut = "ready" \/ (shut = "asleep" /\ now >= shutAt)
    BY <1>3 DEF ShutdownCounts
  <2>2. pending \in Nat /\ pending > 0 /\ now \in Nat \ {0} /\ request \in Int /\ shutAt \in Int /\ request # 0
    BY <1>3 DEF CountdownInv
  <2>3. now + 2 * (pending - 1) >= request
    BY <2>1, <2>2 DEF CountdownInv
  <2>4. pending' > 0 => shutAt' + 2 * (pending' - 1) >= request'
    BY <1>1, <2>1, <2>2, <2>3
  <2>5. ShutdownAsAsked'
    <3>1. pending = 1 => now >= request
      BY <2>2, <2>3
    <3>2. down' => pending = 1
      BY <2>1
    <3> QED
      BY <1>1, <2>2, <3>1, <3>2 DEF ShutdownAsAsked
  <2>6. down' \in BOOLEAN
    BY <2>1
  <2> QED
    BY <1>1, <2>1, <2>2, <2>4, <2>5, <2>6 DEF CountdownInv
<1> QED
  BY <1>2, <1>3

\* Time passes, updates run, and a shutdown is cancelled.
LEMMA NothingCounts ==
  ASSUME CountdownInv, ~down,
         Tick \/ UpdateWakes \/ ReadsSchedule \/ Reload \/ ForceUpdate \/ Able \/ ShutdownCancel
  PROVE  CountdownInv'
<1>1. CASE Tick
  BY <1>1 DEF Tick, shutdownVars, CountdownInv, ShutdownAsAsked
<1>2. CASE UpdateWakes \/ ReadsSchedule \/ Reload \/ ForceUpdate \/ Able
  BY <1>2 DEF UpdateWakes, ReadsSchedule, Reload, ForceUpdate, Able, shutdownVars, CountdownInv, ShutdownAsAsked
<1>3. CASE ShutdownCancel
  BY <1>3 DEF ShutdownCancel, updateVars, CountdownInv, ShutdownAsAsked
<1> QED
  BY <1>1, <1>2, <1>3

(***************************************************************************)
(* The server goes down for the last request that was not cancelled, and   *)
(* not before it is due, whatever requests follow one another while the    *)
(* thread sleeps, and however late it wakes.                               *)
(***************************************************************************)
THEOREM ShutsDownAsAsked == ScheduleSpec => []ShutdownAsAsked
<1>1. ScheduleInit => CountdownInv
  <2> SUFFICES ASSUME ScheduleInit PROVE CountdownInv
    OBVIOUS
  <2>1. now = 1 /\ pending = 0 /\ shut = "none" /\ shutAt = 0 /\ request = 0
    BY DEF ScheduleInit
  <2>2. down \in BOOLEAN /\ ~down
    BY DEF ScheduleInit
  <2>3. now \in Nat \ {0} /\ pending \in Nat /\ shutAt \in Int /\ request \in Int /\ ~(pending > 0)
    BY <2>1
  <2> QED
    BY <2>1, <2>2, <2>3 DEF CountdownInv, ShutdownAsAsked
<1>2. CountdownInv /\ [ScheduleNext]_scheduleVars => CountdownInv'
  <2>1. ASSUME CountdownInv, ScheduleNext PROVE CountdownInv'
    BY <2>1, ScheduleAssumption, InitiateCounts, TurnCounts, NothingCounts DEF ScheduleNext
  <2>2. ASSUME CountdownInv, UNCHANGED scheduleVars PROVE CountdownInv'
    BY <2>2 DEF scheduleVars, shutdownVars, CountdownInv, ShutdownAsAsked
  <2> QED
    BY <2>1, <2>2
<1>3. CountdownInv => ShutdownAsAsked
  BY DEF CountdownInv
<1> QED
  BY <1>1, <1>2, <1>3, PTL DEF ScheduleSpec

-----------------------------------------------------------------------------
(* The contract. *)

\* The lock's state is a mode for every thread, after any calls.
THEOREM TypeCorrect == Spec => []TypeOK
<1>1. Init => TypeOK
  BY DEF Init, TypeOK, Modes
<1>2. TypeOK /\ [Next]_vars => TypeOK'
  BY DEF TypeOK, Modes, Next, vars, WrLock, RdLock, GetWr, GetRd, Unlock
<1>3. QED
  BY <1>1, <1>2, PTL DEF Spec

(***************************************************************************)
(* A step that gives the lock to a writer starts with nobody holding it, a *)
(* step that gives it to a reader starts with no writer holding it; either *)
(* way nobody else's mode changes.                                         *)
(***************************************************************************)
LEMMA GrantOnlyWhenAllowed ==
  ASSUME TypeOK, [Next]_vars, NEW t \in Threads
  PROVE  /\ mode[t] # "wr" /\ mode'[t] = "wr" =>
              MayWrite /\ mode' = [mode EXCEPT ![t] = "wr"]
         /\ mode[t] # "rd" /\ mode'[t] = "rd" =>
              MayRead /\ mode' = [mode EXCEPT ![t] = "rd"]
BY DEF TypeOK, Modes, Next, vars, WrLock, RdLock, GetWr, GetRd, Unlock

\* A thread that holds the lock for writing is its only holder.
THEOREM WriterExcludesAll == Spec => []Exclusion
<1>1. Init => Exclusion
  BY DEF Init, Exclusion
<1>2. TypeOK /\ Exclusion /\ [Next]_vars => Exclusion'
  <2> SUFFICES ASSUME TypeOK, Exclusion, [Next]_vars,
                      NEW t \in Threads, NEW u \in Threads,
                      mode'[t] = "wr", mode'[u] \in {"rd", "wr"}
               PROVE  t = u
    BY DEF Exclusion
  <2>1. CASE mode[t] # "wr"
    <3>1. MayWrite /\ mode' = [mode EXCEPT ![t] = "wr"]
      BY <2>1, GrantOnlyWhenAllowed
    <3>2. mode[u] \notin {"rd", "wr"}
      BY <3>1 DEF MayWrite, Unlocked, Holding
    <3> QED
      BY <3>1, <3>2 DEF TypeOK
  <2>2. CASE mode[t] = "wr" /\ mode[u] = mode'[u]
    BY <2>2 DEF Exclusion
  <2>3. CASE mode[t] = "wr" /\ mode[u] # mode'[u]
    BY <2>3, GrantOnlyWhenAllowed DEF MayWrite, MayRead, Unlocked, Holding
  <2> QED
    BY <2>1, <2>2, <2>3
<1>3. QED
  BY <1>1, <1>2, TypeCorrect, PTL DEF Spec

\* No step gives the lock to a reader while a writer waits for it.
THEOREM ReadersYieldToWriters == Spec => WriterPreference
<1>1. TypeOK /\ [Next]_vars =>
        [\A t \in Threads : mode[t] # "rd" /\ mode'[t] = "rd"
                               => Holding("wrwait") = {}]_vars
  BY GrantOnlyWhenAllowed DEF MayRead
<1>2. QED
  BY <1>1, TypeCorrect, PTL DEF Spec, WriterPreference

-----------------------------------------------------------------------------
(* The lock of the LWP thread package. *)


R == LwpHolding("rd")
X == LwpHolding("wr")

\* The counter agrees with the holders, and a writer is alone.
Agrees ==
  \/ X = {} /\ count = Cardinality(R)
  \/ R = {} /\ count = -1 /\ \E t \in LwpThreads : X = {t}

IInv ==
  /\ count \in Int
  /\ lwpPc \in [LwpThreads -> LwpPCs]
  /\ lwpOops \in BOOLEAN
  /\ ~lwpOops => Agrees

\* The readers are a finite set: none of them when, and only when, they count zero.
LEMMA ReadersCounted ==
  /\ IsFiniteSet(R)
  /\ Cardinality(R) \in Nat
  /\ Cardinality(R) = 0 <=> R = {}
<1>1. R \subseteq LwpThreads
  BY DEF R, LwpHolding
<1> QED
  BY <1>1, LwpRWLockAssumption, FS_Subset, FS_CardinalityType, FS_EmptySet

\* A counter of zero means nobody holds the lock.
LEMMA ZeroMeansFree ==
  ASSUME Agrees, count = 0
  PROVE  X = {} /\ R = {}
BY ReadersCounted DEF Agrees

\* A thread that takes a free lock for writing is its only holder.
LEMMA TakeForWriting ==
  ASSUME IInv, Agrees, count = 0, NEW t \in LwpThreads,
         count' = -1, lwpPc' = [lwpPc EXCEPT ![t] = "wr"]
  PROVE  Agrees'
<1>1. X = {} /\ R = {}
  BY ZeroMeansFree
<1>2. X' = {t} /\ R' = {}
  BY <1>1 DEF X, R, LwpHolding, IInv
<1> QED
  BY <1>2 DEF Agrees

\* A thread that takes a lock without writer for reading is one more reader.
LEMMA TakeForReading ==
  ASSUME IInv, Agrees, count >= 0, NEW t \in LwpThreads, lwpPc[t] # "rd", lwpPc[t] # "wr",
         count' = count + 1, lwpPc' = [lwpPc EXCEPT ![t] = "rd"]
  PROVE  Agrees'
<1>1. X = {} /\ count = Cardinality(R)
  BY DEF Agrees
<1>2. X' = {} /\ R' = R \cup {t} /\ t \notin R
  BY <1>1 DEF X, R, LwpHolding, IInv
<1>3. Cardinality(R') = Cardinality(R) + 1
  BY <1>2, ReadersCounted, FS_AddElement
<1> QED
  BY <1>1, <1>2, <1>3 DEF Agrees

\* A step that leaves the counter and every holder alone changes nothing.
LEMMA HoldersUnchanged ==
  ASSUME IInv, Agrees, count' = count, NEW t \in LwpThreads, NEW v \in LwpPCs \ {"rd", "wr"},
         lwpPc[t] \notin {"rd", "wr"}, lwpPc' = [lwpPc EXCEPT ![t] = v]
  PROVE  Agrees'
<1>1. X' = X /\ R' = R
  BY DEF X, R, LwpHolding, IInv
<1> QED
  BY <1>1 DEF Agrees

\* An unlock() undoes its caller's hold, and no other.
LEMMA UnlockAgrees ==
  ASSUME IInv, Agrees, NEW t \in LwpThreads, LwpUnlock(t)
  PROVE  Agrees'
<1>1. CASE lwpPc[t] = "rd"
  <2>1. t \in R
    BY <1>1 DEF R, LwpHolding
  <2>2. X = {} /\ count = Cardinality(R) /\ count # 0
    BY <2>1, ReadersCounted DEF Agrees
  <2>3. count > 0
    <3>1. Cardinality(R) \in Nat
      BY ReadersCounted
    <3> QED
      BY <2>2, <3>1
  <2>4. count' = count - 1
    <3>1. count \in Int /\ count # 0 /\ ~(count < 0)
      BY <2>3 DEF IInv
    <3> QED
      BY <3>1 DEF LwpUnlock, CountAfterUnlock
  <2>5. X' = {} /\ R' = R \ {t}
    BY <1>1, <2>2 DEF LwpUnlock, X, R, LwpHolding, IInv
  <2>6. Cardinality(R') = Cardinality(R) - 1
    BY <2>1, <2>5, ReadersCounted, FS_RemoveElement
  <2> QED
    BY <2>2, <2>4, <2>5, <2>6 DEF Agrees
<1>2. CASE lwpPc[t] = "wr"
  <2>1. t \in X
    BY <1>2 DEF X, LwpHolding
  <2>2. X = {t} /\ R = {} /\ count = -1
    BY <2>1 DEF Agrees
  <2>3. count' = 0
    BY <2>2 DEF LwpUnlock, CountAfterUnlock
  <2>4. X' = {} /\ R' = {}
    BY <2>2 DEF LwpUnlock, X, R, LwpHolding, IInv
  <2> QED
    BY <2>3, <2>4, FS_EmptySet DEF Agrees
<1> QED
  BY <1>1, <1>2 DEF LwpUnlock

\* Every step keeps the counter right, or an assertion has fired.
LEMMA StepKeepsIInv == IInv /\ [LwpNext]_lwpVars => IInv'
<1> SUFFICES ASSUME IInv, [LwpNext]_lwpVars PROVE IInv'
  OBVIOUS
<1>1. count' \in Int /\ lwpPc' \in [LwpThreads -> LwpPCs]
  <2> USE DEF IInv, LwpPCs
  <2>1. ASSUME NEW t \in LwpThreads, LwpWrLock(t) PROVE count' \in Int /\ lwpPc' \in [LwpThreads -> LwpPCs]
    BY <2>1 DEF LwpWrLock
  <2>2. ASSUME NEW t \in LwpThreads, LwpRdLock(t) PROVE count' \in Int /\ lwpPc' \in [LwpThreads -> LwpPCs]
    BY <2>2 DEF LwpRdLock
  <2>3. ASSUME NEW t \in LwpThreads, Resume(t) PROVE count' \in Int /\ lwpPc' \in [LwpThreads -> LwpPCs]
    <3>1. \/ count' = -1 /\ lwpPc' = [lwpPc EXCEPT ![t] = "wr"]
          \/ count' = count + 1 /\ lwpPc' = [lwpPc EXCEPT ![t] = "rd"]
      BY <2>3, Zenon DEF Resume
    <3>2. count \in Int /\ lwpPc \in [LwpThreads -> LwpPCs]
      OBVIOUS
    <3> HIDE DEF IInv
    <3> QED
      BY <3>1, <3>2
  <2>4. ASSUME NEW t \in LwpThreads, LwpUnlock(t) PROVE count' \in Int /\ lwpPc' \in [LwpThreads -> LwpPCs]
    <3>1. count' = count \/ count' = 0 \/ count' = count - 1
      BY <2>4 DEF LwpUnlock, CountAfterUnlock
    <3>2. lwpPc' = [lwpPc EXCEPT ![t] = "done"]
      BY <2>4 DEF LwpUnlock
    <3> QED
      BY <3>1, <3>2
  <2>5. ASSUME NEW t \in LwpThreads, NEW q, Switch(t, q)
        PROVE  count' \in Int /\ lwpPc' \in [LwpThreads -> LwpPCs]
    BY <2>5 DEF Switch
  <2> QED
    BY <2>1, <2>2, <2>3, <2>4, <2>5 DEF LwpNext, lwpVars, Yield, Sleep, Awaken, SelectGivesWay
<1>a. lwpOops' = TRUE \/ lwpOops' = lwpOops
  BY DEF LwpNext, lwpVars, LwpWrLock, LwpRdLock, Resume, LwpUnlock, Yield, Sleep,
         Switch, Awaken, SelectGivesWay
<1>b. lwpOops' \in BOOLEAN
  BY <1>a DEF IInv
<1> SUFFICES ASSUME ~lwpOops' PROVE Agrees'
  BY <1>1, <1>b DEF IInv
<1>2. ASSUME UNCHANGED <<count, lwpPc, lwpOops>> PROVE Agrees'
  BY <1>2 DEF IInv, Agrees, X, R, LwpHolding
<1>3. ASSUME NEW t \in LwpThreads, LwpWrLock(t) PROVE Agrees'
  <2>1. Agrees
    BY <1>3 DEF LwpWrLock, IInv
  <2>2. CASE count # 0
    BY <1>3, <2>1, <2>2, HoldersUnchanged DEF LwpWrLock, LwpPCs
  <2>3. CASE count = 0
    BY <1>3, <2>1, <2>3, TakeForWriting DEF LwpWrLock
  <2> QED
    BY <2>2, <2>3
<1>4. ASSUME NEW t \in LwpThreads, LwpRdLock(t) PROVE Agrees'
  <2>1. Agrees
    BY <1>4 DEF LwpRdLock, IInv
  <2>2. CASE LwpReaderMustWait
    BY <1>4, <2>1, <2>2, HoldersUnchanged DEF LwpRdLock, LwpPCs
  <2>3. CASE ~LwpReaderMustWait
    <3>1. count >= 0
      BY <2>3 DEF LwpReaderMustWait, IInv
    <3> QED
      BY <1>4, <2>1, <2>3, <3>1, TakeForReading DEF LwpRdLock
  <2> QED
    BY <2>2, <2>3
<1>5. ASSUME NEW t \in LwpThreads, Resume(t) PROVE Agrees'
  <2>1. Agrees
    BY <1>a DEF IInv
  <2>2. CASE lwpPc[t] = "wrwait"
    <3>1. lwpOops' = IF count # 0 THEN TRUE ELSE lwpOops
      BY <1>5, <2>2 DEF Resume
    <3>2. count = 0
      BY <3>1
    <3> QED
      BY <1>5, <2>1, <2>2, <3>2, TakeForWriting DEF Resume
  <2>3. CASE lwpPc[t] = "rdwait"
    <3>1. lwpOops' = IF count < 0 THEN TRUE ELSE lwpOops
      BY <1>5, <2>3 DEF Resume
    <3>2. ~(count < 0)
      BY <3>1
    <3>3. count >= 0
      BY <3>2 DEF IInv
    <3> QED
      BY <1>5, <2>1, <2>3, <3>3, TakeForReading DEF Resume
  <2> QED
    BY <1>5, <2>2, <2>3 DEF Resume
<1>6. ASSUME NEW t \in LwpThreads, LwpUnlock(t) PROVE Agrees'
  <2>1. Agrees
    BY <1>6 DEF LwpUnlock, IInv
  <2> QED
    BY <1>6, <2>1, UnlockAgrees
<1>7. ASSUME NEW t \in LwpThreads, Yield(t) \/ Sleep(t) PROVE Agrees'
  <2>1. Switch(t, Append(runq, t)) \/ Switch(t, runq)
    BY <1>7 DEF Yield, Sleep
  <2>2. Agrees /\ count' = count
    BY <2>1 DEF Switch, IInv
  <2>3. CASE lwpPc[t] = "done"
    BY <2>1, <2>2, <2>3, HoldersUnchanged DEF Switch, LwpPCs
  <2>4. CASE lwpPc[t] # "done"
    <3>1. lwpPc' = lwpPc
      BY <2>1, <2>4 DEF Switch, IInv
    <3> QED
      BY <2>2, <3>1 DEF Agrees, X, R, LwpHolding
  <2> QED
    BY <2>3, <2>4
<1> QED
  BY <1>2, <1>3, <1>4, <1>5, <1>6, <1>7 DEF LwpNext, lwpVars, Awaken, SelectGivesWay

\* The inductive invariant holds in every reachable state.
THEOREM Inductive == LwpSpec => []IInv
<1>1. LwpInit => IInv
  <2> SUFFICES ASSUME LwpInit PROVE IInv
    OBVIOUS
  <2>1. X = {} /\ R = {} /\ count = 0
    BY DEF LwpInit, X, R, LwpHolding
  <2>2. Agrees
    BY <2>1, FS_EmptySet DEF Agrees
  <2>3. lwpOops \in BOOLEAN
    BY DEF LwpInit
  <2>4. count \in Int /\ lwpPc \in [LwpThreads -> LwpPCs]
    BY DEF LwpInit, LwpPCs
  <2> QED
    BY <2>2, <2>3, <2>4 DEF IInv
<1> QED
  BY <1>1, StepKeepsIInv, PTL DEF LwpSpec

\* A writer never shares the lock before an assertion has fired.
THEOREM NoSilentSharing == LwpSpec => []AssertionsCatchSharing
<1>1. IInv => AssertionsCatchSharing
  BY DEF IInv, Agrees, AssertionsCatchSharing, LwpExclusion, X, R, LwpHolding
<1> QED
  BY <1>1, Inductive, PTL

-----------------------------------------------------------------------------
(***************************************************************************)
(* A thread is in one place: it runs, is ready, is away, or sleeps on the  *)
(* lock, for reading or for writing as its place says; and it is ready at  *)
(* most once, or asleep at most once.                                      *)
(***************************************************************************)
OnePlace ==
  /\ rq \in Queue(LwpThreads) /\ wq \in Queue(LwpThreads) /\ runq \in Queue(LwpThreads)
  /\ \A t \in ToSet(rq) : lwpPc[t] = "rdwait" /\ t # cur /\ t \notin ToSet(runq) \cup away
  /\ \A t \in ToSet(wq) : lwpPc[t] = "wrwait" /\ t # cur /\ t \notin ToSet(runq) \cup away
  /\ \A t \in ToSet(runq) : t # cur /\ t \notin away
  /\ cur \notin away /\ away \subseteq LwpThreads

ForgetsNobody == IInv /\ OnePlace /\ NobodyForgotten

\* While no assertion has fired, nobody on the lock means nobody asleep on it.
LEMMA InitForgetsNobody == LwpInit => OnePlace /\ NobodyForgotten
BY EmptyIsQueue, LwpRWLockAssumption DEF LwpInit, OnePlace, NobodyForgotten

\* lwpReschedule() takes the next thread out of the run queue.
LEMMA NextRuns ==
  ASSUME NEW q \in Queue(LwpThreads), Reschedule(q)
  PROVE  /\ runq' \in Queue(LwpThreads)
         /\ \/ cur' = None /\ ToSet(q) = {} /\ ToSet(runq') = {}
            \/ cur' \in ToSet(q) /\ ToSet(runq') = ToSet(q) \ {cur'}
<1>1. CASE q = <<>>
  BY <1>1, EmptyIsQueue DEF Reschedule
<1>2. CASE q # <<>>
  BY <1>2, TailQueue DEF Reschedule
<1> QED
  BY <1>1, <1>2

\* None is no thread, so it is nowhere else.
LEMMA NoneNowhere ==
  ASSUME NEW q \in Queue(LwpThreads)
  PROVE  None \notin ToSet(q) /\ ToSet(q) \subseteq LwpThreads
BY QueueIsEmpty, LwpRWLockAssumption

\* A thread on the lock's queues does not run.
LEMMA WrLockForgetsNobody ==
  ASSUME ForgetsNobody, NEW t \in LwpThreads, LwpWrLock(t)
  PROVE  OnePlace' /\ NobodyForgotten'
<1> USE DEF ForgetsNobody
<1>0. cur = t /\ lwpPc[t] = "idle" /\ t \notin ToSet(rq) /\ t \notin ToSet(wq) /\ t \notin ToSet(runq)
  BY DEF LwpWrLock, Running, OnePlace
<1>1. CASE count # 0
  <2>1. /\ wq' = Append(wq, t) /\ lwpPc' = [lwpPc EXCEPT ![t] = "wrwait"] /\ Reschedule(runq)
        /\ rq' = rq /\ away' = away /\ lwpOops' = lwpOops
    BY <1>1 DEF LwpWrLock
  <2>2. wq' \in Queue(LwpThreads) /\ ToSet(wq') = ToSet(wq) \cup {t}
    BY <1>0, <2>1, AppendQueue DEF OnePlace
  <2>3. /\ runq' \in Queue(LwpThreads)
        /\ \/ cur' = None /\ ToSet(runq') = {}
           \/ cur' \in ToSet(runq) /\ ToSet(runq') = ToSet(runq) \ {cur'}
    BY <2>1, NextRuns DEF OnePlace
  <2>4. \A u \in LwpThreads : lwpPc'[u] = IF u = t THEN "wrwait" ELSE lwpPc[u]
    BY <2>1 DEF IInv
  <2>5. OnePlace'
    <3>1. ToSet(rq) \subseteq LwpThreads /\ ToSet(wq) \subseteq LwpThreads /\ None \notin LwpThreads /\ away \subseteq LwpThreads
      BY NoneNowhere, LwpRWLockAssumption DEF OnePlace
    <3> QED
      BY <1>0, <2>1, <2>2, <2>3, <2>4, <3>1 DEF OnePlace
  <2>6. NobodyForgotten'
    <3>1. lwpOops \/ R # {} \/ X # {}
      BY <1>1, ReadersCounted DEF IInv, Agrees
    <3>2. lwpOops \/ R' # {} \/ X' # {}
      BY <1>0, <2>4, <3>1 DEF R, X, LwpHolding
    <3> QED
      BY <2>1, <3>2 DEF NobodyForgotten, R, X
  <2> QED
    BY <2>5, <2>6
<1>2. CASE count = 0
  <2>1. /\ UNCHANGED <<rq, wq, cur, runq, away, lwpOops>> /\ lwpPc' = [lwpPc EXCEPT ![t] = "wr"]
    BY <1>2 DEF LwpWrLock
  <2>2. \A u \in LwpThreads : lwpPc'[u] = IF u = t THEN "wr" ELSE lwpPc[u]
    BY <2>1 DEF IInv
  <2>3. OnePlace'
    <3>1. ToSet(rq) \subseteq LwpThreads /\ ToSet(wq) \subseteq LwpThreads
      BY NoneNowhere DEF OnePlace
    <3> QED
      BY <1>0, <2>1, <2>2, <3>1 DEF OnePlace
  <2>4. NobodyForgotten'
    BY <2>2 DEF NobodyForgotten, LwpHolding
  <2> QED
    BY <2>3, <2>4
<1> QED
  BY <1>1, <1>2

LEMMA RdLockForgetsNobody ==
  ASSUME ForgetsNobody, NEW t \in LwpThreads, LwpRdLock(t)
  PROVE  OnePlace' /\ NobodyForgotten'
<1> USE DEF ForgetsNobody
<1>0. /\ cur = t /\ lwpPc[t] = "idle" /\ t \notin ToSet(rq) /\ t \notin ToSet(wq) /\ t \notin ToSet(runq)
      /\ ToSet(rq) \subseteq LwpThreads /\ ToSet(wq) \subseteq LwpThreads /\ None \notin LwpThreads
  BY NoneNowhere, LwpRWLockAssumption DEF LwpRdLock, Running, OnePlace
<1>1. CASE LwpReaderMustWait
  <2>1. /\ rq' = Append(rq, t) /\ lwpPc' = [lwpPc EXCEPT ![t] = "rdwait"] /\ Reschedule(runq)
        /\ wq' = wq /\ away' = away /\ lwpOops' = lwpOops
    BY <1>1 DEF LwpRdLock
  <2>2. rq' \in Queue(LwpThreads) /\ ToSet(rq') = ToSet(rq) \cup {t}
    BY <1>0, <2>1, AppendQueue DEF OnePlace
  <2>3. /\ runq' \in Queue(LwpThreads)
        /\ \/ cur' = None /\ ToSet(runq') = {}
           \/ cur' \in ToSet(runq) /\ ToSet(runq') = ToSet(runq) \ {cur'}
    BY <2>1, NextRuns DEF OnePlace
  <2>4. \A u \in LwpThreads : lwpPc'[u] = IF u = t THEN "rdwait" ELSE lwpPc[u]
    BY <2>1 DEF IInv
  <2>5. OnePlace'
    BY <1>0, <2>1, <2>2, <2>3, <2>4 DEF OnePlace
  <2>6. NobodyForgotten'
    <3>1. lwpOops \/ R # {} \/ X # {} \/ OnTheWay # {}
      <4>1. CASE count < 0
        BY <4>1, ReadersCounted DEF IInv, Agrees
      <4>2. CASE wq # <<>>
        BY <4>2 DEF NobodyForgotten, R, X
      <4> QED
        BY <1>1, <4>1, <4>2 DEF LwpReaderMustWait
    <3>2. R' = R /\ X' = X /\ OnTheWay \subseteq OnTheWay'
      BY <1>0, <2>1, <2>2, <2>4 DEF R, X, OnTheWay, LwpHolding
    <3> QED
      BY <2>1, <3>1, <3>2 DEF NobodyForgotten, R, X
  <2> QED
    BY <2>5, <2>6
<1>2. CASE ~LwpReaderMustWait
  <2>1. /\ UNCHANGED <<rq, wq, cur, runq, away, lwpOops>> /\ lwpPc' = [lwpPc EXCEPT ![t] = "rd"]
    BY <1>2 DEF LwpRdLock
  <2>2. \A u \in LwpThreads : lwpPc'[u] = IF u = t THEN "rd" ELSE lwpPc[u]
    BY <2>1 DEF IInv
  <2>3. OnePlace'
    BY <1>0, <2>1, <2>2 DEF OnePlace
  <2>4. NobodyForgotten'
    BY <2>2 DEF NobodyForgotten, LwpHolding
  <2> QED
    BY <2>3, <2>4
<1> QED
  BY <1>1, <1>2

\* Who comes back from his sleep holds the lock.
LEMMA ResumeForgetsNobody ==
  ASSUME ForgetsNobody, NEW t \in LwpThreads, Resume(t)
  PROVE  OnePlace' /\ NobodyForgotten'
<1> USE DEF ForgetsNobody
<1>1. /\ cur = t /\ UNCHANGED <<rq, wq, cur, runq, away>>
      /\ lwpPc' = [lwpPc EXCEPT ![t] = "wr"] \/ lwpPc' = [lwpPc EXCEPT ![t] = "rd"]
  BY DEF Resume
<1>2. \A u \in LwpThreads : u # t => lwpPc'[u] = lwpPc[u]
  BY <1>1 DEF IInv
<1>3. lwpPc'[t] \in {"rd", "wr"}
  BY <1>1 DEF IInv
<1>4. OnePlace'
  <2>1. ToSet(rq) \subseteq LwpThreads /\ ToSet(wq) \subseteq LwpThreads
    BY NoneNowhere DEF OnePlace
  <2> QED
    BY <1>1, <1>2, <2>1 DEF OnePlace
<1>5. NobodyForgotten'
  BY <1>3 DEF NobodyForgotten, LwpHolding
<1> QED
  BY <1>4, <1>5

\* An unlock() that leaves somebody asleep leaves a holder, or wakes a writer.
LEMMA UnlockForgetsNobody ==
  ASSUME ForgetsNobody, NEW t \in LwpThreads, LwpUnlock(t)
  PROVE  OnePlace' /\ NobodyForgotten'
<1> USE DEF ForgetsNobody
<1>0. /\ cur = t /\ t \notin ToSet(rq) /\ t \notin ToSet(wq) /\ t \notin ToSet(runq) /\ lwpPc[t] \in {"rd", "wr"}
      /\ ToSet(rq) \subseteq LwpThreads /\ ToSet(wq) \subseteq LwpThreads
      /\ rq \in Queue(LwpThreads) /\ wq \in Queue(LwpThreads) /\ runq \in Queue(LwpThreads)
  BY NoneNowhere DEF LwpUnlock, Running, OnePlace
<1>1. UNCHANGED <<cur, away>> /\ lwpPc' = [lwpPc EXCEPT ![t] = "done"]
  BY DEF LwpUnlock
<1>2. \A u \in LwpThreads : lwpPc'[u] = IF u = t THEN "done" ELSE lwpPc[u]
  BY <1>1 DEF IInv
<1>3. CASE count = 0
  <2>1. lwpOops' = TRUE /\ UNCHANGED <<rq, wq, runq>>
    BY <1>3 DEF LwpUnlock
  <2> QED
    BY <1>0, <1>1, <1>2, <2>1 DEF OnePlace, NobodyForgotten
<1>4. CASE count # 0
  <2> DEFINE c == CountAfterUnlock
             p == Readied(c)
  <2>1. /\ runq' = runq \o p
        /\ wq' = IF p # <<>> /\ wq # <<>> THEN Tail(wq) ELSE wq
        /\ rq' = IF p # <<>> /\ wq = <<>> THEN <<>> ELSE rq
        /\ lwpOops' = lwpOops
    BY <1>4 DEF LwpUnlock
  <2>2. CASE c = 0 /\ wq # <<>>
    <3> DEFINE h == Head(wq)
    <3>1. p = <<h>> /\ p # <<>>
      BY <2>2 DEF Readied
    <3>2. h \in LwpThreads /\ h \in ToSet(wq) /\ wq' = Tail(wq) /\ rq' = rq /\ wq' \in Queue(LwpThreads)
          /\ ToSet(wq') = ToSet(wq) \ {h}
      BY <1>0, <2>1, <2>2, <3>1, TailQueue
    <3>3. p \in Queue(LwpThreads) /\ ToSet(p) = {h}
      BY <3>1, <3>2, QueueOfOne, SMTT(30)
    <3> HIDE DEF p, h
    <3>4. h \notin ToSet(runq) /\ h \notin ToSet(rq) /\ h # cur /\ h \notin away /\ lwpPc[h] = "wrwait"
      BY <3>2 DEF OnePlace
    <3>5. runq' \in Queue(LwpThreads) /\ ToSet(runq') = ToSet(runq) \cup {h}
      BY <1>0, <2>1, <3>3, <3>4, ConcatQueue
    <3>6. OnePlace'
      BY <1>0, <1>1, <1>2, <3>2, <3>4, <3>5 DEF OnePlace
    <3>7. h \in OnTheWay'
      BY <1>0, <1>2, <3>2, <3>4 DEF OnTheWay, LwpHolding
    <3> QED
      BY <3>6, <3>7 DEF NobodyForgotten
  <2>3. CASE wq = <<>>
    <3>1. p = rq /\ wq' = <<>> /\ rq' = <<>>
      BY <2>1, <2>3 DEF Readied
    <3> HIDE DEF p
    <3>2. ToSet(rq) \cap ToSet(runq) = {}
      BY DEF OnePlace
    <3>3. runq' \in Queue(LwpThreads) /\ ToSet(runq') = ToSet(runq) \cup ToSet(rq)
      BY <1>0, <2>1, <3>1, <3>2, ConcatQueue
    <3>4. OnePlace'
      BY <1>0, <1>1, <1>2, <3>1, <3>3, EmptyIsQueue DEF OnePlace
    <3> QED
      BY <3>1, <3>4 DEF NobodyForgotten
  <2>4. CASE c # 0 /\ wq # <<>>
    <3>1. p = <<>>
      BY <2>4 DEF Readied
    <3>2. UNCHANGED <<rq, wq>> /\ runq' = runq
      <4>1. runq \in Seq(LwpThreads)
        BY <1>0 DEF Queue
      <4> QED
        BY <2>1, <3>1, <4>1, ConcatEmptySeq
    <3>3. OnePlace'
      BY <1>0, <1>1, <1>2, <3>2 DEF OnePlace
    <3>4. ~lwpOops => R' # {} \/ X' # {}
      <4> SUFFICES ASSUME ~lwpOops PROVE R' # {} \/ X' # {}
        OBVIOUS
      <4>1. Agrees /\ Agrees'
        BY UnlockAgrees DEF IInv
      <4>2. count' # 0
        BY <1>4, <2>4 DEF LwpUnlock
      <4>3. R' = {} => Cardinality(R') = 0
        BY FS_EmptySet
      <4> QED
        BY <4>1, <4>2, <4>3 DEF Agrees
    <3> QED
      BY <2>1, <3>3, <3>4 DEF NobodyForgotten, R, X
  <2> QED
    BY <2>2, <2>3, <2>4
<1> QED
  BY <1>3, <1>4

\* Giving way leaves the lock alone.
LEMMA SwitchForgetsNobody ==
  ASSUME ForgetsNobody, NEW t \in LwpThreads, Yield(t) \/ Sleep(t)
  PROVE  OnePlace' /\ NobodyForgotten'
<1> USE DEF ForgetsNobody
<1>0. /\ cur = t /\ t \notin ToSet(rq) /\ t \notin ToSet(wq) /\ t \notin ToSet(runq) /\ t \notin away
      /\ ToSet(rq) \subseteq LwpThreads /\ ToSet(wq) \subseteq LwpThreads /\ None \notin LwpThreads
      /\ lwpPc[t] \notin {"rdwait", "wrwait"}
  BY NoneNowhere, LwpRWLockAssumption DEF Yield, Sleep, Switch, Running, OnePlace
<1>1. /\ lwpPc' = [lwpPc EXCEPT ![t] = IF @ = "done" THEN "idle" ELSE @]
      /\ UNCHANGED <<rq, wq, lwpOops>>
  BY DEF Yield, Sleep, Switch
<1>2. \A u \in LwpThreads : lwpPc'[u] = IF u = t /\ lwpPc[t] = "done" THEN "idle" ELSE lwpPc[u]
  BY <1>1 DEF IInv
<1>3. NobodyForgotten'
  <2>1. \A m \in {"rd", "wr", "rdwait", "wrwait"} : LwpHolding(m)' = LwpHolding(m)
    BY <1>2 DEF LwpHolding
  <2>2. OnTheWay' = OnTheWay
    BY <1>1, <2>1 DEF OnTheWay
  <2> QED
    BY <1>1, <2>1, <2>2 DEF NobodyForgotten
<1>4. CASE Yield(t)
  <2>1. Append(runq, t) \in Queue(LwpThreads) /\ ToSet(Append(runq, t)) = ToSet(runq) \cup {t}
    BY <1>0, AppendQueue DEF OnePlace
  <2>2. Reschedule(Append(runq, t)) /\ away' = away
    BY <1>4 DEF Yield, Switch
  <2>3. /\ runq' \in Queue(LwpThreads)
        /\ \/ cur' = None /\ ToSet(runq') = {}
           \/ cur' \in ToSet(runq) \cup {t} /\ ToSet(runq') = (ToSet(runq) \cup {t}) \ {cur'}
    BY <2>1, <2>2, NextRuns
  <2>4. OnePlace'
    BY <1>0, <1>1, <1>2, <2>2, <2>3 DEF OnePlace
  <2> QED
    BY <1>3, <2>4
<1>5. CASE Sleep(t)
  <2>1. Reschedule(runq) /\ away' = away \cup {t}
    BY <1>5 DEF Sleep, Switch
  <2>2. /\ runq' \in Queue(LwpThreads)
        /\ \/ cur' = None /\ ToSet(runq') = {}
           \/ cur' \in ToSet(runq) /\ ToSet(runq') = ToSet(runq) \ {cur'}
    BY <2>1, NextRuns DEF OnePlace
  <2>3. OnePlace'
    BY <1>0, <1>1, <1>2, <2>1, <2>2 DEF OnePlace
  <2> QED
    BY <1>3, <2>3
<1> QED
  BY <1>4, <1>5

LEMMA AwakenForgetsNobody ==
  ASSUME ForgetsNobody, NEW t \in LwpThreads, Awaken(t)
  PROVE  OnePlace' /\ NobodyForgotten'
<1> USE DEF ForgetsNobody
<1>1. /\ t \in away /\ away' = away \ {t} /\ runq' = Append(runq, t)
      /\ UNCHANGED <<rq, wq, lwpPc, cur, lwpOops>>
  BY DEF Awaken
<1>2. t \notin ToSet(rq) /\ t \notin ToSet(wq) /\ t \notin ToSet(runq) /\ t # cur
  BY <1>1 DEF OnePlace
<1>3. runq' \in Queue(LwpThreads) /\ ToSet(runq') = ToSet(runq) \cup {t}
  BY <1>1, <1>2, AppendQueue DEF OnePlace
<1>4. OnePlace'
  BY <1>1, <1>2, <1>3 DEF OnePlace
<1>5. NobodyForgotten'
  BY <1>1 DEF NobodyForgotten, OnTheWay, LwpHolding
<1> QED
  BY <1>4, <1>5

LEMMA GivingWayForgetsNobody ==
  ASSUME ForgetsNobody, SelectGivesWay
  PROVE  OnePlace' /\ NobodyForgotten'
<1> USE DEF ForgetsNobody
<1>1. Reschedule(runq) /\ UNCHANGED <<rq, wq, lwpPc, away, lwpOops>>
  BY DEF SelectGivesWay
<1>2. /\ runq' \in Queue(LwpThreads)
      /\ \/ cur' = None /\ ToSet(runq') = {}
         \/ cur' \in ToSet(runq) /\ ToSet(runq') = ToSet(runq) \ {cur'}
  BY <1>1, NextRuns DEF OnePlace
<1>3. ToSet(rq) \subseteq LwpThreads /\ ToSet(wq) \subseteq LwpThreads /\ None \notin LwpThreads
  BY NoneNowhere, LwpRWLockAssumption DEF OnePlace
<1>4. OnePlace'
  BY <1>1, <1>2, <1>3 DEF OnePlace
<1>5. NobodyForgotten'
  BY <1>1 DEF NobodyForgotten, OnTheWay, LwpHolding
<1> QED
  BY <1>4, <1>5

(***************************************************************************)
(* For any finite set of threads: unless an assertion fired, threads sleep *)
(* on the lock only while some thread holds it or is on the way to it.     *)
(***************************************************************************)
THEOREM SleepersAreServed == LwpSpec => []NobodyForgotten
<1>1. LwpInit => OnePlace /\ NobodyForgotten
  BY InitForgetsNobody
<1>2. IInv /\ OnePlace /\ NobodyForgotten /\ [LwpNext]_lwpVars => OnePlace' /\ NobodyForgotten'
  <2> SUFFICES ASSUME ForgetsNobody, [LwpNext]_lwpVars
               PROVE  OnePlace' /\ NobodyForgotten'
    BY DEF ForgetsNobody
  <2>1. CASE UNCHANGED lwpVars
    BY <2>1 DEF lwpVars, ForgetsNobody, OnePlace, NobodyForgotten, OnTheWay, LwpHolding
  <2> QED
    BY <2>1, WrLockForgetsNobody, RdLockForgetsNobody, ResumeForgetsNobody, UnlockForgetsNobody, SwitchForgetsNobody,
       AwakenForgetsNobody, GivingWayForgetsNobody DEF LwpNext
<1> QED
  BY <1>1, <1>2, Inductive, PTL DEF LwpSpec

=============================================================================
