------------------------------- MODULE Ledger -------------------------------
(***************************************************************************)
(* The money of the chain: balances, savings with dated and split          *)
(* payments, the staking fund, the dapp reward fund and the supply.        *)
(*                                                                         *)
(* An operation of a transaction is one action; the work at the end of a   *)
(* block is a small machine over phase, with one iteration of a loop per   *)
(* step.  "stopped" is an assertion or a division of                       *)
(* process_savings_withdraws() that failed: the block is rejected, and so  *)
(* is any later one.                                                       *)
(*                                                                         *)
(* Amounts are positive and in the one symbol, as validate() demands.      *)
(* Days are abstracted to units of time.  The two user types have interest *)
(* tables of their own that work alike, and are one here.  A request keeps *)
(* the order it was made with in a field `first', of the model only.       *)
(***************************************************************************)
EXTENDS Integers, Sequences, SequencesExt, FiniteSets, FiniteSetsExt

CONSTANTS
    Account, Null,      \* accounts, and SIGMAENGINE_NULL_ACCOUNT among them
    Rank,               \* [Account -> Nat]: the order of their names
    Payee,              \* whom savings are transferred to
    RequestId,          \* a set of numbers
    Amount,             \* amounts that operations move
    SplitOrder,         \* split_pay_order and
    SplitMonth,         \*   split_pay_month of an operation, which nothing validates
    StakeMonth,         \* month of a staking
    Percent,            \* percent_interest
    Cycle,              \* SIGMAENGINE_TRANSFER_SAVINGS_CYCLE, a month of staking
    Fee,                \* dapp_transaction_fee
    InitSupply,
    MaxSupply,          \* bound on what is printed
    MaxDebt,            \* bound on how far burning takes a balance below zero
    MaxRequests,        \* bound on savings, and on stakes, at a time
    MaxTime             \* bound on time

ASSUME LedgerAssumption ==
    /\ IsFiniteSet(Account) /\ Null \in Account /\ Payee \subseteq Account
    /\ Rank \in [Account -> Nat] /\ \A a, b \in Account : Rank[a] = Rank[b] => a = b
    /\ Amount \subseteq Nat \ {0} /\ RequestId \subseteq Nat /\ Percent \subseteq Nat
    /\ SplitOrder \subseteq 0 .. 255 /\ SplitMonth \subseteq 0 .. 255 /\ StakeMonth \subseteq 1 .. 12
    /\ Cycle \in Nat \ {0} /\ {Fee, InitSupply, MaxSupply, MaxDebt, MaxRequests, MaxTime} \subseteq Nat

VARIABLES
    balance, savings,   \* of each account
    banned,             \* the accounts with the flag
    fundBalance,        \* fund_balance, fund_withdraw_ready and
    fundReady,          \*   percent_interest of the deposit fund
    interest,
    rewardFund,         \* of the dapps
    supply,             \* current_supply
    withdraws,          \* the savings_withdraw objects
    stakes,             \* the fund_withdraw objects, in the order of their ids
    time,               \* of the head block
    phase,              \* "txs", "savings", "staking" or "stopped"
    itr                 \* the iterator of process_savings_withdraws()

money == <<balance, savings, fundBalance, fundReady, rewardFund, supply>>
rules == <<banned, interest>>
ends == <<time, phase, itr>>
vars == <<money, rules, withdraws, stakes, ends>>

NotOffered == -1
End == [end |-> TRUE]
Users == Account \ {Null}     \* nobody holds a key of the null account

Init ==
    /\ \E a \in Users : balance = [x \in Account |-> IF x = a THEN InitSupply ELSE 0]
    /\ savings = [a \in Account |-> 0] /\ banned = {}
    /\ fundBalance = 0 /\ fundReady = 0 /\ rewardFund = 0 /\ supply = InitSupply
    /\ interest = [m \in StakeMonth |-> NotOffered]
    /\ withdraws = {} /\ stakes = << >>
    /\ time = 0 /\ phase = "txs" /\ itr = End

Add(f, a, n) == [f EXCEPT ![a] = @ + n]

-----------------------------------------------------------------------------
(* Operations.                                                             *)

InBlock == phase = "txs" /\ UNCHANGED ends

Transfer(from, to, n) ==
    /\ InBlock
    /\ balance[from] >= n /\ from \notin banned
    /\ balance' = Add(Add(balance, from, -n), to, n)
    /\ UNCHANGED <<savings, fundBalance, fundReady, rewardFund, supply, rules, withdraws, stakes>>

PrintMoney(a, n) ==
    /\ InBlock
    /\ supply + n <= MaxSupply
    /\ balance' = Add(balance, a, n) /\ supply' = supply + n
    /\ UNCHANGED <<savings, fundBalance, fundReady, rewardFund, rules, withdraws, stakes>>

\* burn does not look at the balance, and the assert() of adjust_supply() is
\* not compiled into a release.
Burn(a, n) ==
    /\ InBlock
    /\ balance[a] - n >= -MaxDebt
    /\ balance' = Add(balance, a, -n) /\ supply' = supply - n
    /\ UNCHANGED <<savings, fundBalance, fundReady, rewardFund, rules, withdraws, stakes>>

SetBlacklist(a, b) ==
    /\ InBlock
    /\ banned' = IF b THEN banned \cup {a} ELSE banned \ {a}
    /\ UNCHANGED <<money, interest, withdraws, stakes>>

\* What each operation of the dapp and token plugins charges.
PayFee(a) ==
    /\ InBlock
    /\ balance[a] >= Fee
    /\ balance' = Add(balance, a, -Fee) /\ rewardFund' = rewardFund + Fee
    /\ UNCHANGED <<savings, fundBalance, fundReady, supply, rules, withdraws, stakes>>

\* The keys of by_from_rid are unique.  The wallet asks for order 1; the
\* evaluator takes any order and month.
TransferSavings(from, to, n, id, order, month, when) ==
    /\ InBlock
    /\ balance[from] >= n /\ from \notin banned
    /\ when > time
    /\ \A w \in withdraws : ~(w.from = from /\ w.id = id)
    /\ Cardinality(withdraws) < MaxRequests
    /\ balance' = Add(balance, from, -n) /\ savings' = Add(savings, to, n)
    /\ withdraws' = withdraws \cup {[from |-> from, to |-> to, id |-> id, amount |-> n, total |-> n,
                                     first |-> order, order |-> order, month |-> month,
                                     complete |-> when]}
    /\ UNCHANGED <<fundBalance, fundReady, rewardFund, supply, rules, stakes>>

\* Mutant: pays back the total, not what is left of it.
CancelTransferSavingsTotal(w) ==
    /\ InBlock
    /\ savings[w.to] >= w.amount
    /\ balance' = Add(balance, w.from, w.total) /\ savings' = Add(savings, w.to, -w.amount)
    /\ withdraws' = withdraws \ {w}
    /\ UNCHANGED <<fundBalance, fundReady, rewardFund, supply, rules, stakes>>

\* The operation names the payee, and an amount that is at least what is left.
CancelTransferSavings(w) ==
    /\ InBlock
    /\ savings[w.to] >= w.amount
    /\ balance' = Add(balance, w.from, w.amount) /\ savings' = Add(savings, w.to, -w.amount)
    /\ withdraws' = withdraws \ {w}
    /\ UNCHANGED <<fundBalance, fundReady, rewardFund, supply, rules, stakes>>

\* Mutant: takes the total off the savings.
ConclusionTransferSavingsTotal(w) ==
    /\ InBlock
    /\ savings[w.to] >= w.amount
    /\ balance' = Add(balance, w.to, w.total) /\ savings' = Add(savings, w.to, -w.total)
    /\ withdraws' = withdraws \ {w}
    /\ UNCHANGED <<fundBalance, fundReady, rewardFund, supply, rules, stakes>>

ConclusionTransferSavings(w) ==
    /\ InBlock
    /\ savings[w.to] >= w.amount
    /\ balance' = Add(balance, w.to, w.amount) /\ savings' = Add(savings, w.to, -w.amount)
    /\ withdraws' = withdraws \ {w}
    /\ UNCHANGED <<fundBalance, fundReady, rewardFund, supply, rules, stakes>>

StakingFund(from, n, id, month) ==
    LET promised == n + (n * interest[month]) \div 100
    IN  /\ InBlock
        /\ balance[from] >= n
        /\ interest[month] # NotOffered
        /\ \A i \in DOMAIN stakes : ~(stakes[i].from = from /\ stakes[i].id = id)
        /\ Len(stakes) < MaxRequests
        /\ balance' = Add(balance, from, -n)
        /\ fundBalance' = fundBalance + n /\ fundReady' = fundReady + promised
        /\ stakes' = Append(stakes, [from |-> from, id |-> id, amount |-> promised,
                                     complete |-> time + Cycle * month])
        /\ UNCHANGED <<savings, rewardFund, supply, rules, withdraws>>

\* Pays the i-th stake.
PayStake(i) ==
    LET s == stakes[i]
    IN  /\ fundBalance >= s.amount
        /\ balance' = Add(balance, s.from, s.amount)
        /\ fundBalance' = fundBalance - s.amount /\ fundReady' = fundReady - s.amount
        /\ stakes' = RemoveAt(stakes, i)
        /\ UNCHANGED <<savings, rewardFund, supply, rules, withdraws>>

\* conclusion_staking and return_staking_fund: both pay whoever staked.
ConclusionStaking(i) == InBlock /\ PayStake(i)

TransferFund(from, n) ==
    /\ InBlock
    /\ balance[from] >= n
    /\ balance' = Add(balance, from, -n) /\ fundBalance' = fundBalance + n
    /\ UNCHANGED <<savings, fundReady, rewardFund, supply, rules, withdraws, stakes>>

SetFundInterest(month, p) ==
    /\ InBlock
    /\ interest' = [interest EXCEPT ![month] = p]
    /\ UNCHANGED <<money, banned, withdraws, stakes>>

-----------------------------------------------------------------------------
(* The end of a block.                                                     *)

\* by_complete_from_rid
Earlier(v, w) ==
    \/ v.complete < w.complete
    \/ v.complete = w.complete /\ Rank[v.from] < Rank[w.from]
    \/ v.complete = w.complete /\ v.from = w.from /\ v.id < w.id

\* Mutant: the loop goes along by_from_rid.
BeginByFrom(ws) ==
    IF ws = {} THEN End
    ELSE CHOOSE w \in ws : \A v \in ws \ {w} :
            Rank[w.from] < Rank[v.from] \/ (w.from = v.from /\ w.id < v.id)

Begin(ws) == IF ws = {} THEN End ELSE CHOOSE w \in ws : \A v \in ws \ {w} : Earlier(w, v)

\* What clear_null_account_balance() takes from the null account.
Cleared(f) == IF f[Null] > 0 THEN f[Null] ELSE 0
Burned == Cleared(balance) + Cleared(savings)

\* What process_funds() takes from the fund.
Reward == rewardFund

\* The block's time, clear_null_account_balance() and process_funds() with the
\* account of the bobserver, or of its owner.
EndTransactions(when, bobserver) ==
    /\ phase = "txs" /\ when > time
    /\ balance' = Add(Add(balance, Null, -Cleared(balance)), bobserver, Reward)
    /\ savings' = Add(savings, Null, -Cleared(savings))
    /\ supply' = supply - Burned
    /\ rewardFund' = rewardFund - Reward
    /\ time' = when /\ phase' = "savings" /\ itr' = Begin(withdraws)
    /\ UNCHANGED <<fundBalance, fundReady, rules, withdraws, stakes>>

\* Mutant: every payment is the share rounded up.
PaymentRoundedUp(w) == (w.total + w.month - 1) \div w.month

\* The last payment is what is left, the others are a share of the total.
Payment(w) == IF w.order = w.month THEN w.amount ELSE w.total \div w.month

NextPayment(w) ==
    [from |-> w.from, to |-> w.to, id |-> w.id, amount |-> w.amount - Payment(w),
     total |-> w.total, first |-> w.first, order |-> (w.order + 1) % 256, month |-> w.month,
     complete |-> w.complete + Cycle]

\* The division is by zero, and throws, for a month 0 that is not the order.
Defined(w) == w.order = w.month \/ w.month # 0

Due(w) == w # End /\ w.complete <= time

\* One round of process_savings_withdraws().  The iterator is set to the
\* beginning before the next payment is inserted.
PaySavings ==
    LET w == itr
        others == withdraws \ {w}
    IN  /\ phase = "savings" /\ Due(itr)
        /\ IF Defined(w) /\ savings[w.to] >= Payment(w)
           THEN /\ balance' = Add(balance, w.to, Payment(w))
                /\ savings' = Add(savings, w.to, -Payment(w))
                /\ withdraws' = others \cup (IF w.order = w.month THEN {} ELSE {NextPayment(w)})
                /\ itr' = Begin(others)
                /\ UNCHANGED phase
           ELSE /\ phase' = "stopped"
                /\ UNCHANGED <<balance, savings, withdraws, itr>>
        /\ UNCHANGED <<fundBalance, fundReady, rewardFund, supply, rules, stakes, time>>

SavingsPaid ==
    /\ phase = "savings" /\ ~Due(itr)
    /\ phase' = "staking" /\ itr' = End
    /\ UNCHANGED <<money, rules, withdraws, stakes, time>>

\* by_complete_from; the ids grow with the position.
IsFirstStake(i) ==
    \A j \in DOMAIN stakes \ {i} :
        LET s == stakes[i]
            t == stakes[j]
        IN  \/ s.complete < t.complete
            \/ s.complete = t.complete /\ Rank[s.from] < Rank[t.from]
            \/ s.complete = t.complete /\ s.from = t.from /\ i < j

Payable(i) == IsFirstStake(i) /\ stakes[i].complete <= time /\ fundBalance >= stakes[i].amount

\* One round of process_fund_withdraws(), which gives up when the fund does
\* not have what the first one is due.
PayStakes ==
    /\ phase = "staking"
    /\ \E i \in DOMAIN stakes : Payable(i) /\ PayStake(i)
    /\ UNCHANGED ends

EndBlock ==
    /\ phase = "staking"
    /\ \A i \in DOMAIN stakes : ~Payable(i)
    /\ phase' = "txs"
    /\ UNCHANGED <<money, rules, withdraws, stakes, time, itr>>

Next ==
    \/ \E f \in Users, t \in Account, n \in Amount : Transfer(f, t, n)
    \/ \E a \in Account, n \in Amount : PrintMoney(a, n) \/ Burn(a, n)
    \/ \E a \in Users, b \in BOOLEAN : SetBlacklist(a, b)
    \/ \E a \in Users : PayFee(a)
    \/ \E f \in Users, t \in Payee, n \in Amount, id \in RequestId, o \in SplitOrder,
          m \in SplitMonth, when \in 1 .. MaxTime : TransferSavings(f, t, n, id, o, m, when)
    \/ \E w \in withdraws : CancelTransferSavings(w) \/ ConclusionTransferSavings(w)
    \/ \E f \in Users, n \in Amount, id \in RequestId, m \in StakeMonth : StakingFund(f, n, id, m)
    \/ \E i \in DOMAIN stakes : ConclusionStaking(i)
    \/ \E f \in Users, n \in Amount : TransferFund(f, n)
    \/ \E m \in StakeMonth, p \in Percent : SetFundInterest(m, p)
    \/ \E when \in 1 .. MaxTime, a \in Users : EndTransactions(when, a)
    \/ PaySavings \/ SavingsPaid
    \/ PayStakes \/ EndBlock

Spec == Init /\ [][Next]_vars

-----------------------------------------------------------------------------
Withdraw == [from : Users, to : Payee, id : RequestId, amount : Int, total : Amount,
             first : SplitOrder, order : 0 .. 255, month : SplitMonth, complete : Nat]
Stake == [from : Users, id : RequestId, amount : Nat, complete : Nat]

\* The variables have their types.  Savings and funds stay at or above zero; a
\* burned balance, and with it the supply, does not, and neither does what is
\* left of a request that was made with an order above its month.
TypeOK ==
    /\ balance \in [Account -> Int] /\ savings \in [Account -> Nat]
    /\ banned \subseteq Users
    /\ {fundBalance, rewardFund, fundReady} \subseteq Nat /\ supply \in Int
    /\ interest \in [StakeMonth -> Percent \cup {NotOffered}]
    /\ \A w \in withdraws : w \in Withdraw
    /\ stakes \in Seq(Stake)
    /\ time \in Nat /\ phase \in {"txs", "savings", "staking", "stopped"}
    /\ itr \in withdraws \cup {End}

SumOver(f) == MapThenSumSet(LAMBDA a : f[a], Account)
SumOf(ws) == MapThenSumSet(LAMBDA w : w.amount, ws)
SumOfStakes == FoldLeft(LAMBDA n, s : n + s.amount, 0, stakes)

\* get_total_supply()
TotalSupply == SumOver(balance) + SumOver(savings) + fundBalance

\* Money is neither made nor lost but by print, burn and the null account: the
\* supply is what the accounts, the funds and the dapps' reward fund hold,
\* after every operation and every step of the end of a block.  And when a
\* block ends the reward fund is empty, so that what validate_invariants()
\* asserts, which leaves that fund out, would hold if it were called.  Of the
\* staking fund, fund_withdraw_ready is what the stakes are due.
SupplyAccounted ==
    /\ supply = TotalSupply + rewardFund
    /\ phase \in {"savings", "staking"} => rewardFund = 0
    /\ fundReady = SumOfStakes

\* The savings of a user are what is still to be paid to it, across payments,
\* cancellations and conclusions of several requests.
SavingsCovered ==
    \A a \in Users : savings[a] = SumOf({w \in withdraws : w.to = a})

\* The request was made with an order up to its month; month 0 with order 0 is
\* one payment of all.
OnPlan(w) == w.first <= w.month

\* How many payments were made: split_pay_order is a uint8_t and wraps.
Paid(w) == (w.order - w.first) % 256

\* What is left of a request is its total without the payments made, whatever
\* its order and month were, and the order never passes the month, not even by
\* wrapping.  Of a request on its plan what is left covers the next payment,
\* and the last one takes all of it.
InstalmentsAddUp ==
    \A w \in withdraws :
        /\ Paid(w) <= (w.month - w.first) % 256
        /\ Paid(w) = 0 => w.amount = w.total
        /\ Paid(w) > 0 => w.month # 0 /\ w.amount = w.total - Paid(w) * (w.total \div w.month)
        /\ OnPlan(w) => w.order \in w.first .. w.month /\ Defined(w) /\ Payment(w) \in 0 .. w.amount

\* process_savings_withdraws() rejects the block only where one of the requests
\* to the same payee is off its plan (then what is due exceeds the savings, or
\* the division is by zero) or the payee is the null account, whose savings
\* clear_null_account_balance() takes: with a payee of requests that are all on
\* plan no division and no assertion fails.  And after a block nothing is due,
\* but for a later instalment of a request whose earlier one was due as well:
\* the loop may end before it sees the record it inserted.
BlockEndCompletes ==
    /\ phase = "stopped" => itr.to = Null \/ \E w \in withdraws : w.to = itr.to /\ ~OnPlan(w)
    /\ phase = "staking" => \A w \in withdraws : w.complete <= time => Paid(w) > 0
=============================================================================
