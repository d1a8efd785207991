------------------------------- MODULE Token --------------------------------
(***************************************************************************)
(* The token plugin on top of the dapp plugin: the token of an approved     *)
(* dapp, its balances, savings paid in instalments, funds and stakes with   *)
(* interest, and the payments that the plugin makes when a block was        *)
(* applied.                                                                *)
(*                                                                         *)
(* The plugins hear of a block in the order of their names, dapp first.  An *)
(* assertion that fails in on_apply_block() is logged and swallowed by      *)
(* SIGMAENGINE_TRY_NOTIFY: what was paid before stays, the rest of the      *)
(* block's payments are not made.                                          *)
(*                                                                         *)
(* A token_balance object is removed when both of its amounts are zero; an  *)
(* account without one has zero of both here.  Amounts are positive and in  *)
(* the token's symbol.  A month is one unit of time.                       *)
(***************************************************************************)
EXTENDS Dapp

CONSTANTS
    Fund,               \* names of funds
    Amount,             \* amounts that operations move
    RequestId,
    Month,              \* months of a stake, and split_pay_month
    Rate,               \* percent_interest_rate, whole percents
    Cycle,              \* SIGMAENGINE_TRANSFER_SAVINGS_CYCLE
    InitSupply,         \* init_supply_amount of a token
    TokenMax            \* SIGMAENGINE_TOKEN_MAX

ASSUME TokenAssumption ==
    /\ IsFiniteSet(Account) /\ IsFiniteSet(Fund)
    /\ Amount \subseteq Nat \ {0} /\ Month \subseteq Nat \ {0} /\ Rate \subseteq Nat
    /\ RequestId \subseteq Nat /\ Cycle \in Nat \ {0} /\ {InitSupply, TokenMax} \subseteq Nat

VARIABLES
    token,              \* its dapp, publisher and total_balance
    balance, savings,   \* of each account
    funds,              \* balance and withdraw_balance of each fund
    interest,           \* of each month that is offered
    stakes,             \* the token_fund_withdraw objects, by_complete
    requests,           \* the token_savings_withdraw objects, by_savings_next_date
    at,                 \* the place of the iterator in requests
    lost                \* tokens that no object accounts for any more

tokenVars == <<token, balance, savings, funds, interest, stakes, requests, at, lost>>
vars == <<now, phase, ops, dappVars, tokenVars>>

NoToken == [total |-> 0]
NoFund == [exists |-> FALSE, balance |-> 0, withdraw |-> 0]
NotOffered == -1

Add(f, a, n) == [f EXCEPT ![a] = @ + n]

\* A dapp was approved.  Its token has not been created yet, or it has, with a
\* fund and an interest for each month.
Init ==
    /\ savings = [a \in Account |-> 0] /\ lost = 0
    /\ stakes = << >> /\ requests = << >> /\ at = 1
    /\ \E d \in DappName, owner \in Account, created \in BOOLEAN, f \in Fund, r \in Rate :
        /\ InitDapps(d, owner, Account)
        /\ token = IF created THEN [dapp |-> d, publisher |-> owner, total |-> InitSupply]
                              ELSE NoToken
        /\ balance = [a \in Account |-> IF created /\ a = owner THEN InitSupply ELSE 0]
        /\ funds = [x \in Fund |-> [NoFund EXCEPT !.exists = created /\ x = f]]
        /\ interest = [m \in Month |-> IF created THEN r ELSE NotOffered]

-----------------------------------------------------------------------------
(* Operations.  All of them are paid for by the publisher of the token.     *)
TokenOperation ==
    /\ Operation
    /\ token # NoToken /\ Charged(token.publisher)
    /\ UNCHANGED <<aggregated, dapps, votes, users, comments, likes, lastPost, lastRoot, fee,
                   feeVotes, at>>

CreateToken(d) ==
    /\ Operation
    /\ Approved(d) /\ token = NoToken
    /\ Charged(dapps[d].owner)
    /\ token' = [dapp |-> d, publisher |-> dapps[d].owner, total |-> InitSupply]
    /\ balance' = [balance EXCEPT ![dapps[d].owner] = InitSupply]
    /\ UNCHANGED <<aggregated, dapps, votes, users, comments, likes, lastPost, lastRoot, fee,
                   feeVotes, savings, funds, interest, stakes, requests, at, lost>>

IssueToken(n) ==
    /\ TokenOperation
    /\ token.total + n <= TokenMax
    /\ token' = [token EXCEPT !.total = @ + n]
    /\ balance' = Add(balance, token.publisher, n)
    /\ UNCHANGED <<savings, funds, interest, stakes, requests, lost>>

TransferToken(from, to, n) ==
    /\ TokenOperation
    /\ balance[from] >= n
    /\ balance' = Add(Add(balance, from, -n), to, n)
    /\ UNCHANGED <<token, savings, funds, interest, stakes, requests, lost>>

BurnToken(n) ==
    /\ TokenOperation
    /\ balance[token.publisher] >= n
    /\ balance' = Add(balance, token.publisher, -n)
    /\ token' = [token EXCEPT !.total = @ - n]
    /\ UNCHANGED <<savings, funds, interest, stakes, requests, lost>>

\* The initial balance is taken from the publisher also when the fund exists,
\* and then goes nowhere.
SetupTokenFund(f, n) ==
    /\ TokenOperation
    /\ balance[token.publisher] >= n
    /\ balance' = Add(balance, token.publisher, -n)
    /\ IF funds[f].exists
       THEN lost' = lost + n /\ UNCHANGED funds
       ELSE /\ funds' = [funds EXCEPT ![f] = [exists |-> TRUE, balance |-> n, withdraw |-> 0]]
            /\ UNCHANGED lost
    /\ UNCHANGED <<token, savings, interest, stakes, requests>>

\* A rate of -1 withdraws the offer.
SetTokenStakingInterest(m, r) ==
    /\ TokenOperation
    /\ r = NotOffered => interest[m] # NotOffered
    /\ interest' = [interest EXCEPT ![m] = r]
    /\ UNCHANGED <<token, balance, savings, funds, stakes, requests, lost>>

TransferTokenFund(f, n) ==
    /\ TokenOperation
    /\ funds[f].exists /\ balance[token.publisher] >= n
    /\ balance' = Add(balance, token.publisher, -n)
    /\ funds' = [funds EXCEPT ![f].balance = @ + n]
    /\ UNCHANGED <<token, savings, interest, stakes, requests, lost>>

\* An ordered, non-unique index: a new object goes behind those with its date.
Inserted(s, r) == InsertAt(s, Cardinality({i \in DOMAIN s : s[i].date <= r.date}) + 1, r)

\* Nothing asks whether the fund can pay the interest.
StakingTokenFund(from, f, id, n, m) ==
    LET promised == n + (n * interest[m]) \div 100
    IN  /\ TokenOperation
        /\ \A i \in DOMAIN stakes :
              ~(stakes[i].from = from /\ stakes[i].fund = f /\ stakes[i].id = id)
        /\ interest[m] # NotOffered
        /\ balance[from] >= n /\ funds[f].exists
        /\ balance' = Add(balance, from, -n)
        /\ funds' = [funds EXCEPT ![f].balance = @ + n, ![f].withdraw = @ + promised]
        /\ stakes' = Inserted(stakes, [from |-> from, fund |-> f, id |-> id,
                                       amount |-> promised, date |-> now + m])
        /\ UNCHANGED <<token, savings, interest, requests, lost>>

TransferTokenSavings(from, to, id, n, months, date) ==
    /\ TokenOperation
    /\ date > now /\ balance[from] >= n
    /\ \A i \in DOMAIN requests :
          ~(requests[i].from = from /\ requests[i].to = to /\ requests[i].id = id)
    /\ balance' = Add(balance, from, -n) /\ savings' = Add(savings, to, n)
    /\ requests' = Inserted(requests,
                     [from |-> from, to |-> to, id |-> id, amount |-> n, total |-> n,
                      order |-> 1, months |-> months, date |-> date, updated |-> now])
    /\ UNCHANGED <<token, funds, interest, stakes, lost>>

\* Mutant: pays back the total, not what is left of it.
CancelTransferTokenSavingsTotal(i) ==
    LET w == requests[i]
    IN  /\ TokenOperation
        /\ savings[w.to] >= w.amount
        /\ savings' = Add(savings, w.to, -w.amount) /\ balance' = Add(balance, w.from, w.total)
        /\ requests' = RemoveAt(requests, i)
        /\ UNCHANGED <<token, funds, interest, stakes, lost>>

CancelTransferTokenSavings(i) ==
    LET w == requests[i]
    IN  /\ TokenOperation
        /\ savings[w.to] >= w.amount
        /\ savings' = Add(savings, w.to, -w.amount) /\ balance' = Add(balance, w.from, w.amount)
        /\ requests' = RemoveAt(requests, i)
        /\ UNCHANGED <<token, funds, interest, stakes, lost>>

ConcludeTransferTokenSavings(i) ==
    LET w == requests[i]
    IN  /\ TokenOperation
        /\ savings[w.to] >= w.amount
        /\ savings' = Add(savings, w.to, -w.amount) /\ balance' = Add(balance, w.to, w.amount)
        /\ requests' = RemoveAt(requests, i)
        /\ UNCHANGED <<token, funds, interest, stakes, lost>>

-----------------------------------------------------------------------------
(* A block was applied.                                                    *)

\* The dapp plugin first, then the token plugin.
ApplyBlock(t) ==
    /\ phase = "txs" /\ t > now
    /\ now' = t /\ phase' = "stakes"
    /\ Aggregate(t)
    /\ UNCHANGED <<ops, tokenVars>>

\* Mutant: what is due now has to wait for a later block.
DueStrictly(s, i) == i <= Len(s) /\ s[i].date < now

Due(s, i) == i <= Len(s) /\ s[i].date <= now

\* adjust_token_fund_balance() does not throw.
FundCovers(w) == funds[w.fund].balance >= w.amount /\ funds[w.fund].withdraw >= w.amount

\* One round of process_token_fund_withdraw().
PayStake ==
    /\ phase = "stakes" /\ Due(stakes, 1) /\ FundCovers(Head(stakes))
    /\ LET w == Head(stakes)
       IN  /\ funds' = [funds EXCEPT ![w.fund].balance = @ - w.amount,
                                     ![w.fund].withdraw = @ - w.amount]
           /\ balance' = Add(balance, w.from, w.amount)
    /\ stakes' = Tail(stakes)
    /\ UNCHANGED <<now, phase, ops, dappVars, token, savings, interest, requests, at, lost>>

StakesPaid ==
    /\ phase = "stakes" /\ ~Due(stakes, 1)
    /\ phase' = "savings" /\ at' = 1
    /\ UNCHANGED <<now, ops, dappVars, token, balance, savings, funds, interest, stakes,
                   requests, lost>>

\* The fund does not have what is due: the exception ends the payments of this
\* block, those of the savings included.
StakeFails ==
    /\ phase = "stakes" /\ Due(stakes, 1) /\ ~FundCovers(Head(stakes))
    /\ phase' = "txs"
    /\ UNCHANGED <<now, ops, dappVars, tokenVars>>

Payment(w) == IF w.order = w.months THEN w.amount ELSE w.total \div w.months

NextPayment(w) ==
    [w EXCEPT !.amount = @ - Payment(w), !.order = @ + 1, !.date = @ + Cycle, !.updated = now]

\* modify() leaves the object where it is if the order allows it.
Moved(s, i, w) ==
    IF i = Len(s) \/ s[i + 1].date >= w.date
    THEN ReplaceAt(s, i, w) ELSE Inserted(RemoveAt(s, i), w)

\* One round of process_token_savings_withdraws(): back to the beginning after
\* a last payment, on to what follows the object in its new place otherwise.
PaySavings ==
    LET w == requests[at]
        moved == Moved(requests, at, NextPayment(w))
        last == w.order = w.months
    IN  /\ phase = "savings" /\ Due(requests, at) /\ savings[w.to] >= Payment(w)
        /\ savings' = Add(savings, w.to, -Payment(w))
        /\ balance' = Add(balance, w.to, Payment(w))
        /\ requests' = IF last THEN RemoveAt(requests, at) ELSE moved
        /\ at' = IF last THEN 1
                 ELSE 1 + CHOOSE i \in DOMAIN moved : moved[i] = NextPayment(w)
        /\ UNCHANGED <<now, phase, ops, dappVars, token, funds, interest, stakes, lost>>

\* The end of the index, a date to come, or an assertion that failed.
SavingsPaid ==
    /\ phase = "savings"
    /\ Due(requests, at) => savings[requests[at].to] < Payment(requests[at])
    /\ phase' = "txs" /\ at' = 1
    /\ UNCHANGED <<now, ops, dappVars, token, balance, savings, funds, interest, stakes,
                   requests, lost>>

Next ==
    \/ DappOperation /\ UNCHANGED tokenVars
    \/ \E d \in DappName : CreateToken(d)
    \/ \E n \in Amount : IssueToken(n) \/ BurnToken(n)
    \/ \E a, b \in Account, n \in Amount : TransferToken(a, b, n)
    \/ \E f \in Fund, n \in Amount \cup {0} : SetupTokenFund(f, n)
    \/ \E f \in Fund, n \in Amount : TransferTokenFund(f, n)
    \/ \E m \in Month, r \in Rate \cup {NotOffered} : SetTokenStakingInterest(m, r)
    \/ \E a \in Account, f \in Fund, id \in RequestId, n \in Amount, m \in Month :
          StakingTokenFund(a, f, id, n, m)
    \/ \E a, b \in Account, id \in RequestId, n \in Amount, m \in Month, t \in 1 .. MaxTime :
          TransferTokenSavings(a, b, id, n, m, t)
    \/ \E i \in DOMAIN requests :
          CancelTransferTokenSavings(i) \/ ConcludeTransferTokenSavings(i)
    \/ \E t \in 1 .. MaxTime : ApplyBlock(t)
    \/ PayStake \/ StakesPaid \/ StakeFails
    \/ PaySavings \/ SavingsPaid

Spec == Init /\ [][Next]_vars

-----------------------------------------------------------------------------
SumOver(f, S) == MapThenSumSet(LAMBDA a : f[a], S)
SumWhere(s, Test(_)) == FoldLeft(LAMBDA n, r : IF Test(r) THEN n + r.amount ELSE n, 0, s)

\* Every token is in a balance, in savings, in a fund, or was taken for a fund
\* that existed; the savings of an account are what is still to be paid to it,
\* and the withdraw_balance of a fund is what its stakes were promised: across
\* instalments, cancellations, interest and payments that failed half way.
TokensAccounted ==
    /\ token.total = SumOver(balance, Account) + SumOver(savings, Account) + lost
                       + MapThenSumSet(LAMBDA f : funds[f].balance, Fund)
    /\ \A a \in Account : savings[a] = SumWhere(requests, LAMBDA r : r.to = a)
    /\ \A f \in Fund : funds[f].withdraw = SumWhere(stakes, LAMBDA r : r.fund = f)

\* A payment that is due after a block waits for a reason.  Either a fund
\* cannot pay the first stake that is due, which stops all payments of the
\* block; or all stakes were paid, and each request that is due was paid in
\* this block or stands before one that was and has moved past it.
DueOnlyWaits ==
    [][phase # "txs" /\ phase' = "txs" =>
         \/ /\ stakes # << >> /\ stakes[1].date <= now
            /\ funds[stakes[1].fund].balance < stakes[1].amount
         \/ /\ \A i \in DOMAIN stakes : stakes[i].date > now
            /\ \A i \in DOMAIN requests : requests[i].date <= now =>
                  \E j \in i .. Len(requests) : requests[j].updated = now]_vars
=============================================================================
