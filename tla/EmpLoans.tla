------------------------------ MODULE EmpLoans ------------------------------
(***************************************************************************)
(* Loans between countries: offer, consider, repay, collect and shark of   *)
(* lib/commands/, and the loans of a country whose capital falls           *)
(* (caploss() of lib/subs/caploss.c).                                      *)
(*                                                                         *)
(* A loan lives in a slot of the loan file; the slot of a loan that was    *)
(* declined, retracted, paid off or collected is free, and the next offer  *)
(* takes the first free one.  A command keeps what it read of the loan     *)
(* while it asks its player, and others go on meanwhile.                   *)
(*                                                                         *)
(* Left out: rejections, news and telegrams.  Interest is one dollar, owed *)
(* once the loan is overdue.                                               *)
(***************************************************************************)
EXTENDS Integers, FiniteSets, FiniteSetsExt

CONSTANTS Countries,
          Slots,      \* bound: the loan file's slots are 1..Slots
          MaxAmount,  \* bound: largest loan (MAXLOAN)
          Purse,      \* bound: what a country has at the start
          Reserve,    \* what a poor lender keeps
          Sack,       \* the least a country loses with its capital
          MaxDesks,   \* bound: how many players are asked something at once
          MaxSacked   \* bound: how many capitals fall

ASSUME LoansAssumption ==
    /\ Slots \in Nat /\ MaxAmount \in Nat /\ Purse \in Nat /\ Reserve \in Nat /\ Sack \in Nat
    /\ MaxDesks \in Nat /\ MaxSacked \in Nat

VARIABLES
    loan,     \* the loan file
    money,    \* what the countries have
    desk,     \* what the countries' players are doing
    sacked    \* countries whose capital has fallen, NF_SACKED

loanVars == <<loan, money, desk, sacked>>

nobody == "nobody"
Free == [status |-> "free", loner |-> nobody, lonee |-> nobody, due |-> 0, past |-> FALSE]
Idle == [cmd |-> "none", num |-> 0, seen |-> Free]

LoansInit ==
    /\ loan = [n \in 1..Slots |-> Free]
    /\ money = [c \in Countries |-> Purse]
    /\ desk = [c \in Countries |-> Idle]
    /\ sacked = {}

\* loan_owed()
Owed(l) == l.due + (IF l.past THEN 1 ELSE 0)

Status(s) == {n \in 1..Slots : loan[n].status = s}
Ends(c) == desk' = [desk EXCEPT ![c] = Idle]
Asks(c, cmd, n, seen) ==
    /\ Cardinality({d \in Countries : desk[d] # Idle}) < MaxDesks
    /\ desk' = [desk EXCEPT ![c] = [cmd |-> cmd, num |-> n, seen |-> seen]]
Pay(from, to, n) == money' = [c \in Countries |->
    money[c] - (IF c = from THEN n ELSE 0) + (IF c = to THEN n ELSE 0)]

----------------------------------------------------------------------------

\* do_loan(): all its questions come before it looks for a free slot.  How
\* much the lender can afford was looked up before the questions.
Offer(c, to, amt) ==
    /\ desk[c] = Idle /\ to # c
    /\ ~\E n \in Status("signed") : loan[n].lonee = c /\ loan[n].loner = to
    /\ Status("free") # {}
    /\ loan' = [loan EXCEPT ![Min(Status("free"))] =
                   [status |-> "proposed", loner |-> c, lonee |-> to, due |-> amt, past |-> FALSE]]
    /\ UNCHANGED <<money, desk>>

\* cons_choose() up to its last question: disloan() shows a loan that
\* concerns the player, and frees an offer that has expired
Consider(c, n) ==
    /\ desk[c] = Idle
    /\ loan[n].status = "proposed" /\ c \in {loan[n].loner, loan[n].lonee}
    /\ \/ /\ loan[n].past
          /\ loan' = [loan EXCEPT ![n] = Free]
          /\ UNCHANGED desk
       \/ /\ ~loan[n].past
          /\ Asks(c, "consider", n, loan[n])
          /\ UNCHANGED loan
    /\ UNCHANGED money

\* the player accepts, loan_accept(): the lender is the one of the loan that
\* was shown, everything else is read again
MayAccept(c) ==
    /\ desk[c].cmd = "consider" /\ desk[c].seen.lonee = c
    /\ LET l == loan[desk[c].num]
       IN  /\ l.status = "proposed"
           /\ ~\E n \in Status("signed") : loan[n].lonee = l.loner /\ loan[n].loner = l.lonee

Accept(c) ==
    /\ MayAccept(c)
    /\ LET n == desk[c].num
           lender == desk[c].seen.loner
           sum == IF money[lender] < loan[n].due THEN money[lender] - Reserve ELSE loan[n].due
       IN  /\ sum > 0
           /\ Pay(lender, c, sum)
           /\ loan' = [loan EXCEPT ![n].status = "signed", ![n].due = sum, ![n].past = FALSE]
    /\ Ends(c)

\* mutant: a decline that comes too late is not noticed
DeclineLate(c) ==
    /\ desk[c].cmd = "consider"
    /\ loan' = [loan EXCEPT ![desk[c].num] = Free]
    /\ Ends(c)
    /\ UNCHANGED money

\* the player declines, or retracts: loan_decline()
Decline(c) ==
    /\ desk[c].cmd = "consider"
    /\ loan[desk[c].num].status # "signed"
    /\ loan' = [loan EXCEPT ![desk[c].num] = Free]
    /\ Ends(c)
    /\ UNCHANGED money

\* the player gives no answer, postpones, or is too late
LeaveDesk(c) ==
    /\ desk[c] # Idle
    /\ Ends(c)
    /\ UNCHANGED <<loan, money>>

\* c_repay() up to its last question
Repay(c, n) ==
    /\ desk[c] = Idle
    /\ loan[n].status = "signed" /\ loan[n].lonee = c
    /\ Asks(c, "repay", n, loan[n])
    /\ UNCHANGED <<loan, money>>

\* mutant: check_loan_ok() is missing
LoanOkAssumed(c) == TRUE
\* check_loan_ok(): the loan is as it was
LoanOk(c) == loan[desk[c].num] = desk[c].seen

\* the payment goes to the loner of the copy
PayBack(c, payment) ==
    /\ desk[c].cmd = "repay" /\ LoanOk(c)
    /\ LET n == desk[c].num
           l == desk[c].seen
           newdue == Owed(l) - payment
       IN  /\ newdue >= 0 /\ money[c] >= payment
           /\ Pay(c, l.loner, payment)
           /\ loan' = [loan EXCEPT ![n] = IF newdue = 0 THEN Free
                                          ELSE [l EXCEPT !.due = newdue]]
    /\ Ends(c)

\* c_collect(): an overdue loan is paid with a sector the debtor has next to
\* the creditor; it may be worth a little more than what is owed
Collect(c, n) ==
    /\ desk[c] = Idle
    /\ loan[n].status = "signed" /\ loan[n].loner = c /\ loan[n].past
    /\ Asks(c, "collect", n, loan[n])
    /\ UNCHANGED <<loan, money>>

Seize(c, worth) ==
    /\ desk[c].cmd = "collect" /\ LoanOk(c)
    /\ LET n == desk[c].num
           l == desk[c].seen
       IN  loan' = [loan EXCEPT ![n] = IF worth >= Owed(l) THEN Free
                                       ELSE [l EXCEPT !.due = Owed(l) - worth]]
    /\ Ends(c)
    /\ UNCHANGED money

\* c_shark(): buys an overdue loan, its own debt too, in one go
Shark(c, n) ==
    /\ desk[c] = Idle
    /\ loan[n].status = "signed" /\ loan[n].loner # c /\ loan[n].past
    /\ Owed(loan[n]) <= money[c] - Reserve
    /\ Pay(c, loan[n].loner, Owed(loan[n]))
    /\ loan' = [loan EXCEPT ![n].loner = c]
    /\ UNCHANGED desk

\* caploss(): a country whose capital falls loses half of its money, or more
\* than it has; the conqueror gets some of it, and what the country is owed.
\* (It may be sacked again when it has a new capital; left out.)
CapitalFalls(c, from) ==
    /\ desk[c] = Idle /\ c # from /\ from \notin sacked
    /\ Cardinality(sacked) < MaxSacked
    /\ sacked' = sacked \cup {from}
    /\ LET half == money[from] \div 2
           lost == IF half < Sack THEN Sack ELSE half
       IN  \E gain \in {0} \cup 0..half :
              money' = [money EXCEPT ![from] = @ - lost, ![c] = @ + gain]
    /\ loan' = [n \in 1..Slots |->
                  IF loan[n].status = "signed" /\ loan[n].loner = from
                  THEN [loan[n] EXCEPT !.loner = c] ELSE loan[n]]
    /\ UNCHANGED desk

\* the date of an offer or a loan passes
FallsDue(n) ==
    /\ loan[n].status # "free" /\ ~loan[n].past
    /\ loan' = [loan EXCEPT ![n].past = TRUE]
    /\ UNCHANGED <<money, desk>>

Command ==
    \/ \E c \in Countries :
        \/ \E d \in Countries, amt \in 1..MaxAmount : Offer(c, d, amt)
        \/ \E n \in 1..Slots : Consider(c, n) \/ Repay(c, n) \/ Collect(c, n) \/ Shark(c, n)
        \/ Accept(c) \/ Decline(c) \/ LeaveDesk(c)
        \/ \E amt \in 1..(MaxAmount + 1) : PayBack(c, amt) \/ Seize(c, amt)
    \/ \E n \in 1..Slots : FallsDue(n)

LoansNext ==
    \/ Command /\ UNCHANGED sacked
    \/ \E c, d \in Countries : CapitalFalls(c, d)

LoansSpec == LoansInit /\ [][LoansNext]_loanVars
----------------------------------------------------------------------------
(* What loans promise.                                                     *)

\* Whatever happens while players make up their minds, nobody lends, pays or
\* buys with money he does not have.  (Only the fall of a capital takes more
\* than there is.)
LoansSolvent ==
    [][\A c \in Countries : money'[c] < money[c] /\ sacked' = sacked
         => money'[c] >= 0]_loanVars

\* A signed loan stands until its debtor pays it off or its creditor seizes
\* a sector for it: no late decline, expired offer or new offer in its slot
\* makes it go away.
SignedLoansStand ==
    [][\A n \in 1..Slots : loan[n].status = "signed" /\ loan'[n].status # "signed" =>
         \E c \in Countries :
            /\ desk[c].num = n /\ desk'[c] = Idle
            /\ \/ desk[c].cmd = "repay" /\ c = loan[n].lonee
               \/ desk[c].cmd = "collect" /\ c = loan[n].loner]_loanVars

\* A payment reaches the country that holds the loan when it is paid, though
\* the loan may have been sold or conquered since the debtor began to pay.
PaymentsReachTheOwner ==
    [][\A c \in Countries : desk[c].cmd = "repay" /\ desk'[c] = Idle /\ money'[c] < money[c] =>
         LET owner == loan[desk[c].num].loner IN money'[owner] > money[owner]]_loanVars

\* What the parties of a loan signed is kept until it is paid, to whoever
\* holds it then.
LoansStand == SignedLoansStand /\ PaymentsReachTheOwner

\* What lending promises: nobody signs for money he has not, and what is
\* signed is kept.
LoansInOrder == LoansSolvent /\ LoansStand

\* Nobody owes a loan but one he accepted when it was shown to him.
DebtsAreAccepted ==
    [][\A n \in 1..Slots : loan[n].status # "signed" /\ loan'[n].status = "signed" =>
         desk[loan[n].lonee].cmd = "consider" /\ desk'[loan[n].lonee] = Idle]_loanVars
=============================================================================
