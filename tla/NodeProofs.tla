----------------------------- MODULE NodeProofs -----------------------------
(***************************************************************************)
(* Three parts of a node that have nothing in common but the node.         *)
(*                                                                         *)
(* Account recovery, for every set of accounts and authorities and all     *)
(* periods: the history holds the owners of the last 30 days and no other, *)
(* an account is recovered only as asked, and the owners at the time of a  *)
(* change of the recovery account outlast it.                              *)
(*                                                                         *)
(* The pool of pending transactions, for every set of transactions, with   *)
(* their needs, conflicts, sizes and expirations, and chains of any length:*)
(* the session is what the pending transactions make of the head, no       *)
(* transaction is in the chain twice, each slot is filled, and no call     *)
(* drops a transaction that could still be applied.                        *)
(*                                                                         *)
(* Fetching blocks, for every set of peers, every tree of blocks and limit *)
(* of the node, whatever the peers answer, adopt or leave unanswered:      *)
(* every block that is passed to the delegate builds on one it has or was  *)
(* passed before, and a block is requested from one peer at a time.        *)
(***************************************************************************)
EXTENDS AccountRecovery, TransactionPool, PeerSync, NumberFacts, TLAPS

\* The history is ordered by time, no entry of it is outdated, and none is
\* later than the last time its authority was replaced.
HistoryValid ==
    /\ \A i \in DOMAIN history :
          /\ 0 < history[i].lastValid
          /\ history[i].lastValid <= replaced[history[i].account][history[i].authority]
          /\ ~Outdated(history[i], time)
    /\ \A i, j \in DOMAIN history : i <= j => history[i].lastValid <= history[j].lastValid

\* The last time that a recent owner was replaced is in the history.
ReplacedKnown ==
    \A a \in Account, k \in Authority :
        /\ replaced[a][k] <= time
        /\ replaced[a][k] # 0 /\ replaced[a][k] + RecoveryPeriod >= time
              => \E i \in DOMAIN history :
                    history[i] = [account |-> a, authority |-> k, lastValid |-> replaced[a][k]]

\* A request is the last thing that the recovery account asked for.
RequestWasAsked ==
    \A a \in Account : request[a] # None =>
        /\ asked[a] # None
        /\ asked[a].authority = request[a].authority
        /\ request[a].expires = asked[a].time + RequestPeriod
        /\ request[a].expires > time

\* So is the request for another recovery account the last wish of the account.
ChangeWasWanted ==
    \A a \in Account : change[a] # None =>
        /\ wanted[a] # None
        /\ wanted[a].account = change[a].account
        /\ wanted[a].time > 0
        /\ change[a].effective = wanted[a].time + RecoveryPeriod
        /\ change[a].effective > time

Inv ==
    /\ TypeOK
    /\ time > 0
    /\ HistoryValid
    /\ ReplacedKnown
    /\ RequestWasAsked
    /\ ChangeWasWanted

-----------------------------------------------------------------------------
LEMMA Constants ==
    /\ RequestPeriod \in Nat /\ RecoveryPeriod \in Nat /\ StartTime \in Nat /\ UpdateLimit \in Nat
    /\ RequestPeriod > 0 /\ RecoveryPeriod > 0 /\ StartTime > 0
    /\ GenesisOwner \in Authority /\ Genesis \subseteq Account
    /\ MaxGap \in Nat
<1>1. UpdateLimit \in Nat /\ StartTime \in Nat /\ StartTime > UpdateLimit
  BY RecoveryAssumption
<1> QED BY <1>1, RecoveryAssumption

\* None is told apart from what it stands for.
LEMMA NoneIsNothing ==
    None \notin RecoveryRequest /\ None \notin RecoveryChange /\ None \notin Asked /\ None \notin Wanted
  BY RecoveryAssumption

\* The loop of account_recovery_processing() ends at the first entry that is
\* valid, or at the end.
LEMMA FirstValidFound ==
    ASSUME TypeOK, NEW now
    PROVE  /\ FirstValid(now) \in 1 .. Len(history) + 1
           /\ \A j \in 1 .. FirstValid(now) - 1 : Outdated(history[j], now)
           /\ FirstValid(now) <= Len(history) => ~Outdated(history[FirstValid(now)], now)
<1> DEFINE P(i) == /\ \A j \in 1 .. i - 1 : Outdated(history[j], now)
                   /\ i <= Len(history) => ~Outdated(history[i], now)
           n == Len(history)
           T == {i \in 1 .. n + 1 : i <= n => ~Outdated(history[i], now)}
<1>1. n \in Nat
  BY DEF TypeOK
<1> HIDE DEF n
<1>2. n + 1 \in T /\ T \subseteq Nat
  BY <1>1
<1>3. PICK i \in T : \A y \in T : i <= y
  BY <1>2, NatMin
<1>4. ASSUME NEW j \in 1 .. i - 1
      PROVE  Outdated(history[j], now)
  <2>1. j \in 1 .. n + 1 /\ j <= n /\ ~(i <= j)
    BY <1>1, <1>3, <1>4
  <2> QED BY <2>1, <1>3
<1>5. i \in 1 .. n + 1 /\ P(i)
  BY <1>3, <1>4 DEF n
<1> HIDE DEF P
<1>6. FirstValid(now) = CHOOSE x \in 1 .. n + 1 : P(x)
  BY DEF FirstValid, P, n
<1>7. FirstValid(now) \in 1 .. n + 1 /\ P(FirstValid(now))
  BY <1>5, <1>6
<1> QED BY <1>7 DEF P, n

-----------------------------------------------------------------------------
(* The history of owners.                                                  *)

\* update_owner_authority() puts the old owner at the end of the history.
LEMMA UpdateOwnerKeeps ==
    ASSUME Inv, NEW a \in Account, NEW k \in Authority, UpdateOwnerAuthority(a, k), time' = time
    PROVE  /\ owner' \in [Account -> Authority] /\ lastOwnerUpdate' \in [Account -> Nat]
           /\ history' \in Seq(OwnerHistory) /\ replaced' \in [Account -> [Authority -> Nat]]
           /\ HistoryValid'
           /\ ReplacedKnown'
<1> DEFINE n == Len(history)
           new == [account |-> a, authority |-> owner[a], lastValid |-> time]
<1>1. /\ owner \in [Account -> Authority] /\ lastOwnerUpdate \in [Account -> Nat]
      /\ history \in Seq(OwnerHistory) /\ replaced \in [Account -> [Authority -> Nat]]
      /\ time \in Nat /\ time > 0 /\ n \in Nat
  BY DEF Inv, TypeOK
<1>2. /\ history' = Append(history, new)
      /\ owner' = [owner EXCEPT ![a] = k]
      /\ lastOwnerUpdate' = [lastOwnerUpdate EXCEPT ![a] = time]
      /\ replaced' = [replaced EXCEPT ![a][owner[a]] = time]
  BY DEF UpdateOwnerAuthority
<1>3. owner[a] \in Authority /\ new \in OwnerHistory
  BY <1>1 DEF OwnerHistory
<1>4. /\ history' \in Seq(OwnerHistory) /\ Len(history') = n + 1
      /\ \A i \in 1 .. n : history'[i] = history[i]
      /\ history'[n + 1] = new
  BY <1>1, <1>2, <1>3
<1>5. /\ replaced' \in [Account -> [Authority -> Nat]]
      /\ \A b \in Account, j \in Authority :
            replaced'[b][j] = IF b = a /\ j = owner[a] THEN time ELSE replaced[b][j]
  BY <1>1, <1>2, <1>3
<1>6. owner' \in [Account -> Authority] /\ lastOwnerUpdate' \in [Account -> Nat]
  BY <1>1, <1>2
<1>7. /\ DOMAIN history = 1 .. n /\ DOMAIN history' = 1 .. n + 1
      /\ \A i \in 1 .. n : history[i] \in OwnerHistory
  BY <1>1, <1>4
<1>8. \A b \in Account, j \in Authority : replaced[b][j] <= time
  BY DEF Inv, ReplacedKnown
<1>9. \A i \in 1 .. n : /\ 0 < history[i].lastValid
                        /\ history[i].lastValid <= replaced[history[i].account][history[i].authority]
                        /\ ~Outdated(history[i], time)
  BY <1>7 DEF Inv, HistoryValid
<1>10. ASSUME NEW i \in 1 .. n
       PROVE  history[i].lastValid <= time
  <2>1. history[i].account \in Account /\ history[i].authority \in Authority
        /\ history[i].lastValid \in Nat
    BY <1>7 DEF OwnerHistory
  <2>2. replaced[history[i].account][history[i].authority] \in Nat
    BY <1>1, <2>1
  <2>3. replaced[history[i].account][history[i].authority] <= time
    BY <1>8, <2>1
  <2>4. history[i].lastValid <= replaced[history[i].account][history[i].authority]
    BY <1>9
  <2>5. \A x, y, z \in Nat : x <= y /\ y <= z => x <= z
    OBVIOUS
  <2>6. time \in Nat
    BY <1>1
  <2> QED BY <2>1, <2>2, <2>3, <2>4, <2>5, <2>6, Zenon
<1> HIDE DEF n, new
<1>11. HistoryValid'
  <2>1. ASSUME NEW i \in 1 .. n + 1
        PROVE  /\ 0 < history'[i].lastValid
               /\ history'[i].lastValid <= replaced'[history'[i].account][history'[i].authority]
               /\ ~Outdated(history'[i], time)
    <3>1. CASE i \in 1 .. n
      <4>1. history'[i] = history[i] /\ history[i] \in OwnerHistory
        BY <3>1, <1>4, <1>7
      <4>2. replaced'[history[i].account][history[i].authority]
                \in {time, replaced[history[i].account][history[i].authority]}
        BY <4>1, <1>5 DEF OwnerHistory
      <4> QED BY <3>1, <4>1, <4>2, <1>9, <1>10
    <3>2. CASE i = n + 1
      <4>1. history'[i] = new /\ new.lastValid = time
            /\ replaced'[new.account][new.authority] = time
        BY <3>2, <1>3, <1>4, <1>5 DEF new
      <4>2. ~(time + RecoveryPeriod < time)
        BY <1>1, Constants
      <4> QED BY <4>1, <4>2, <1>1 DEF Outdated
    <3> QED BY <3>1, <3>2, <1>1
  <2>2. ASSUME NEW i \in 1 .. n + 1, NEW j \in 1 .. n + 1, i <= j
        PROVE  history'[i].lastValid <= history'[j].lastValid
    <3>1. CASE j \in 1 .. n
      <4>1. i \in 1 .. n
        BY <2>2, <3>1, <1>1
      <4>2. history[i].lastValid <= history[j].lastValid
        BY <2>2, <3>1, <4>1, <1>7 DEF Inv, HistoryValid
      <4> QED BY <3>1, <4>1, <4>2, <1>4
    <3>2. CASE j = n + 1
      <4>1. history'[j].lastValid = time
        BY <3>2, <1>4 DEF new
      <4>2. history'[i].lastValid <= time
        <5>1. CASE i \in 1 .. n
          BY <5>1, <1>4, <1>10
        <5>2. CASE i = n + 1
          BY <5>2, <3>2, <4>1, <1>1
        <5> QED BY <5>1, <5>2, <1>1
      <4> QED BY <4>1, <4>2
    <3> QED BY <3>1, <3>2, <1>1
  <2> QED BY <2>1, <2>2, <1>7 DEF HistoryValid, Outdated
<1>12. ReplacedKnown'
  <2> SUFFICES ASSUME NEW b \in Account, NEW j \in Authority
               PROVE  /\ replaced'[b][j] <= time
                      /\ replaced'[b][j] # 0 /\ replaced'[b][j] + RecoveryPeriod >= time
                            => \E i \in DOMAIN history' :
                                  history'[i] = [account |-> b, authority |-> j,
                                                 lastValid |-> replaced'[b][j]]
    BY DEF ReplacedKnown
  <2>1. CASE b = a /\ j = owner[a]
    <3>1. replaced'[b][j] = time
      BY <2>1, <1>5
    <3>2. history'[n + 1] = [account |-> b, authority |-> j, lastValid |-> replaced'[b][j]]
      BY <2>1, <3>1, <1>4 DEF new
    <3>3. n + 1 \in DOMAIN history'
      BY <1>1, <1>7
    <3> QED BY <3>1, <3>2, <3>3, <1>1
  <2>2. CASE ~(b = a /\ j = owner[a])
    <3>1. replaced'[b][j] = replaced[b][j]
      BY <2>2, <1>5
    <3>2. ASSUME replaced[b][j] # 0, replaced[b][j] + RecoveryPeriod >= time
          PROVE  \E i \in DOMAIN history' :
                    history'[i] = [account |-> b, authority |-> j, lastValid |-> replaced[b][j]]
      <4>1. PICK i \in 1 .. n :
                    history[i] = [account |-> b, authority |-> j, lastValid |-> replaced[b][j]]
        BY <3>2, <1>7 DEF Inv, ReplacedKnown
      <4>2. i \in DOMAIN history' /\ history'[i] = history[i]
        BY <1>1, <1>4, <1>7
      <4> QED BY <4>1, <4>2
    <3> QED BY <3>1, <3>2, <1>8
  <2> QED BY <2>1, <2>2
<1> QED BY <1>4, <1>5, <1>6, <1>11, <1>12

\* The end of a block takes the outdated entries from the front, and no other:
\* it leaves the history as it has to be at the new time.
LEMMA EndBlockKeepsHistory ==
    ASSUME Inv, NEW now \in Nat, now >= time, time' = now,
           history' = ValidHistory(now), replaced' = replaced
    PROVE  /\ history' \in Seq(OwnerHistory)
           /\ HistoryValid'
           /\ ReplacedKnown'
<1> DEFINE n == Len(history)
           f == FirstValid(now)
<1>1. /\ history \in Seq(OwnerHistory) /\ n \in Nat /\ time \in Nat
      /\ DOMAIN history = 1 .. n
      /\ replaced \in [Account -> [Authority -> Nat]]
  BY DEF Inv, TypeOK
<1>2. /\ f \in 1 .. n + 1
      /\ \A j \in 1 .. f - 1 : Outdated(history[j], now)
      /\ f <= n => ~Outdated(history[f], now)
  BY FirstValidFound DEF Inv
<1>3. history' = SubSeq(history, f, n)
  BY DEF ValidHistory
<1>4. \A i \in 1 .. n : /\ history[i] \in OwnerHistory
                        /\ history[i].lastValid \in Nat
  <2>1. \A i \in 1 .. n : history[i] \in OwnerHistory
    BY <1>1
  <2>2. \A e \in OwnerHistory : e.lastValid \in Nat
    BY DEF OwnerHistory
  <2> QED BY <2>1, <2>2
<1>5. \A i, j \in 1 .. n : i <= j => history[i].lastValid <= history[j].lastValid
  BY <1>1 DEF Inv, HistoryValid
<1>6. \A i \in 1 .. n : /\ 0 < history[i].lastValid
                        /\ history[i].lastValid <= replaced[history[i].account][history[i].authority]
  BY <1>1 DEF Inv, HistoryValid
<1> HIDE DEF n, f
<1>7. /\ history' \in Seq(OwnerHistory) /\ Len(history') = n + 1 - f
      /\ \A i \in 1 .. n + 1 - f : history'[i] = history[f + i - 1]
  <2>1. f \in 1 .. n + 1 /\ n \in Nat
    BY <1>1, <1>2
  <2>2. \A i \in 1 .. n + 1 - f : f + i - 1 \in 1 .. n
    BY <2>1
  <2> QED BY <1>1, <1>3, <1>4, <2>1, <2>2
<1>8. DOMAIN history' = 1 .. n + 1 - f
  BY <1>7
<1>9. \A i \in 1 .. n : i >= f <=> ~Outdated(history[i], now)
  <2> SUFFICES ASSUME NEW i \in 1 .. n
               PROVE  i >= f <=> ~Outdated(history[i], now)
    OBVIOUS
  <2>1. CASE i < f
    <3>1. i \in 1 .. f - 1 /\ ~(i >= f)
      BY <1>1, <1>2, <2>1
    <3> QED BY <1>2, <3>1
  <2>2. CASE i >= f
    <3>1. f \in 1 .. n /\ f <= i /\ f <= n
      BY <1>1, <1>2, <2>2
    <3>2. history[f].lastValid <= history[i].lastValid
      BY <1>5, <3>1
    <3>3. ~(history[f].lastValid + RecoveryPeriod < now)
      BY <1>2, <3>1 DEF Outdated
    <3>4. ~(history[i].lastValid + RecoveryPeriod < now)
      BY <1>4, <3>1, <3>2, <3>3, Constants
    <3> QED BY <2>2, <3>4 DEF Outdated
  <2> QED BY <1>1, <1>2, <2>1, <2>2
<1>10. HistoryValid'
  <2>1. ASSUME NEW i \in 1 .. n + 1 - f
        PROVE  /\ 0 < history'[i].lastValid
               /\ history'[i].lastValid <= replaced[history'[i].account][history'[i].authority]
               /\ ~Outdated(history'[i], now)
    <3>1. f + i - 1 \in 1 .. n /\ f + i - 1 >= f
      BY <1>1, <1>2
    <3>2. history'[i] = history[f + i - 1]
      BY <1>7
    <3> QED BY <3>1, <3>2, <1>6, <1>9
  <2>2. ASSUME NEW i \in 1 .. n + 1 - f, NEW j \in 1 .. n + 1 - f, i <= j
        PROVE  history'[i].lastValid <= history'[j].lastValid
    <3>1. /\ f + i - 1 \in 1 .. n /\ f + j - 1 \in 1 .. n
          /\ f + i - 1 <= f + j - 1
      BY <1>1, <1>2, <2>2
    <3>2. history'[i] = history[f + i - 1] /\ history'[j] = history[f + j - 1]
      BY <1>7
    <3> QED BY <3>1, <3>2, <1>5
  <2> QED BY <2>1, <2>2, <1>8 DEF HistoryValid, Outdated
<1>11. ReplacedKnown'
  <2> SUFFICES ASSUME NEW b \in Account, NEW j \in Authority
               PROVE  /\ replaced[b][j] <= now
                      /\ replaced[b][j] # 0 /\ replaced[b][j] + RecoveryPeriod >= now
                            => \E i \in DOMAIN history' :
                                  history'[i] = [account |-> b, authority |-> j,
                                                 lastValid |-> replaced[b][j]]
    BY DEF ReplacedKnown
  <2>1. replaced[b][j] \in Nat /\ replaced[b][j] <= time
    BY <1>1 DEF Inv, ReplacedKnown
  <2>2. ASSUME replaced[b][j] # 0, replaced[b][j] + RecoveryPeriod >= now
        PROVE  \E i \in DOMAIN history' :
                  history'[i] = [account |-> b, authority |-> j, lastValid |-> replaced[b][j]]
    <3>1. replaced[b][j] + RecoveryPeriod >= time
      BY <2>1, <2>2, <1>1, Constants
    <3>2. PICK i \in 1 .. n :
                  history[i] = [account |-> b, authority |-> j, lastValid |-> replaced[b][j]]
      BY <2>2, <3>1, <1>1 DEF Inv, ReplacedKnown
    <3>3. ~Outdated(history[i], now)
      BY <2>1, <2>2, <3>2, Constants DEF Outdated
    <3>4. i >= f
      BY <1>9, <3>3
    <3>5. i - f + 1 \in 1 .. n + 1 - f /\ f + (i - f + 1) - 1 = i
      BY <1>1, <1>2, <3>4
    <3>6. history'[i - f + 1] = history[i]
      BY <1>7, <3>5
    <3> QED BY <1>8, <3>2, <3>5, <3>6
  <2> QED BY <1>1, <2>1, <2>2
<1> QED BY <1>7, <1>10, <1>11

-----------------------------------------------------------------------------
(* The induction.                                                          *)

LEMMA InitInv == Init => Inv
<1> SUFFICES ASSUME Init PROVE Inv
  OBVIOUS
<1> USE Constants DEF Init
<1>1. TypeOK
  BY DEF TypeOK
<1>2. time > 0
  OBVIOUS
<1>3. HistoryValid /\ ReplacedKnown
  BY DEF HistoryValid, ReplacedKnown
<1>4. RequestWasAsked /\ ChangeWasWanted
  BY DEF RequestWasAsked, ChangeWasWanted
<1> QED BY <1>1, <1>2, <1>3, <1>4 DEF Inv

\* The parts of the invariant that stay when an operation leaves their
\* variables alone.
LEMMA Untouched ==
    ASSUME Inv
    PROVE  /\ UNCHANGED <<history, replaced, time>> => HistoryValid' /\ ReplacedKnown'
           /\ UNCHANGED <<request, asked, time>> => RequestWasAsked'
           /\ UNCHANGED <<change, wanted, time>> => ChangeWasWanted'
  BY DEF Inv, HistoryValid, ReplacedKnown, RequestWasAsked, ChangeWasWanted, Outdated

LEMMA OperationKeeps ==
    ASSUME Inv, Operation, ops' = ops + 1
    PROVE  Inv'
<1>t. TypeOK /\ time > 0 /\ RequestWasAsked /\ ChangeWasWanted
  BY DEF Inv
<1>1. ASSUME NEW c \in Account, NEW a \in Account, NEW k \in Authority, AccountCreate(c, a, k)
      PROVE  Inv'
  <2>1. TypeOK'
    BY <1>1, <1>t DEF AccountCreate, TypeOK, ghosts
  <2>2. UNCHANGED <<history, replaced, time, request, asked, change, wanted>>
    BY <1>1 DEF AccountCreate, ghosts
  <2> QED BY <1>t, <2>1, <2>2, Untouched DEF Inv
<1>2. ASSUME NEW a \in Account, NEW k \in Authority, AccountUpdate(a, k)
      PROVE  Inv'
  <2>1. /\ UpdateOwnerAuthority(a, k)
        /\ UNCHANGED <<accounts, recoveryAccount, lastRecovery, request, change, bobservers, time,
                       asked, wanted>>
    BY <1>2 DEF AccountUpdate
  <2>2. /\ owner' \in [Account -> Authority] /\ lastOwnerUpdate' \in [Account -> Nat]
        /\ history' \in Seq(OwnerHistory) /\ replaced' \in [Account -> [Authority -> Nat]]
        /\ HistoryValid' /\ ReplacedKnown'
    BY <2>1, UpdateOwnerKeeps
  <2>3. TypeOK'
    BY <2>1, <2>2, <1>t DEF TypeOK
  <2> QED BY <1>t, <2>1, <2>2, <2>3, Untouched DEF Inv
<1>3. ASSUME NEW b \in Account, NEW a \in Account, NEW k \in Authority,
             RequestAccountRecovery(b, a, k)
      PROVE  Inv'
  <2> DEFINE r == [authority |-> k, expires |-> time + RequestPeriod]
             s == [authority |-> k, time |-> time]
  <2>1. UNCHANGED <<objects, change, bobservers, time, replaced, wanted>>
    BY <1>3 DEF RequestAccountRecovery
  <2>2. \/ request' = [request EXCEPT ![a] = None] /\ asked' = [asked EXCEPT ![a] = None]
        \/ request' = [request EXCEPT ![a] = r] /\ asked' = [asked EXCEPT ![a] = s]
    BY <1>3 DEF RequestAccountRecovery
  <2>3. time \in Nat /\ time + RequestPeriod \in Nat /\ time + RequestPeriod > time
    <3>1. time \in Nat
      BY <1>t DEF TypeOK
    <3> QED BY <3>1, Constants
  <2>4. /\ r \in RecoveryRequest /\ r.authority = k /\ r.expires = time + RequestPeriod
        /\ s \in Asked /\ s.authority = k /\ s.time = time
        /\ s # None
    BY <2>3, NoneIsNothing DEF RecoveryRequest, Asked
  <2> HIDE DEF r, s
  <2>t. request \in [Account -> RecoveryRequest \cup {None}] /\ asked \in [Account -> Asked \cup {None}]
    BY <1>t DEF TypeOK
  <2>5. TypeOK'
    <3>1. request' \in [Account -> RecoveryRequest \cup {None}]
      BY <2>2, <2>4, <2>t
    <3>2. asked' \in [Account -> Asked \cup {None}]
      BY <2>2, <2>4, <2>t
    <3> QED BY <2>1, <3>1, <3>2, <1>t DEF TypeOK, objects
  <2>6. RequestWasAsked'
    BY <2>1, <2>2, <2>3, <2>4, <1>t, <2>t DEF RequestWasAsked
  <2> QED BY <1>t, <2>1, <2>5, <2>6, Untouched DEF Inv, objects
<1>4. ASSUME NEW a \in Account, NEW new \in Authority, NEW known \in Authority,
             RecoverAccount(a, new, known)
      PROVE  Inv'
  <2>1. /\ UpdateOwnerAuthority(a, new)
        /\ request' = [request EXCEPT ![a] = None]
        /\ asked' = [asked EXCEPT ![a] = None]
        /\ lastRecovery' = [lastRecovery EXCEPT ![a] = time]
        /\ UNCHANGED <<accounts, recoveryAccount, change, bobservers, time, wanted>>
    BY <1>4 DEF RecoverAccount
  <2>2. /\ owner' \in [Account -> Authority] /\ lastOwnerUpdate' \in [Account -> Nat]
        /\ history' \in Seq(OwnerHistory) /\ replaced' \in [Account -> [Authority -> Nat]]
        /\ HistoryValid' /\ ReplacedKnown'
    BY <2>1, UpdateOwnerKeeps
  <2>3. TypeOK'
    <3>1. request' \in [Account -> RecoveryRequest \cup {None}] /\ asked' \in [Account -> Asked \cup {None}]
      BY <2>1, <1>t DEF TypeOK
    <3>2. lastRecovery' \in [Account -> Nat]
      BY <2>1, <1>t DEF TypeOK
    <3>3. /\ accounts' = accounts /\ recoveryAccount' = recoveryAccount /\ change' = change
          /\ bobservers' = bobservers /\ time' = time /\ wanted' = wanted
      BY <2>1
    <3>4. ops' \in Nat
      BY <1>t DEF TypeOK
    <3> QED BY <2>2, <3>1, <3>2, <3>3, <3>4, <1>t DEF TypeOK
  <2>4. RequestWasAsked'
    <3>1. request \in [Account -> RecoveryRequest \cup {None}] /\ asked \in [Account -> Asked \cup {None}]
      BY <1>t DEF TypeOK
    <3> QED BY <2>1, <1>t, <3>1 DEF RequestWasAsked
  <2> QED BY <1>t, <2>1, <2>2, <2>3, <2>4, Untouched DEF Inv
<1>5. ASSUME NEW a \in Account, NEW r \in Account, ChangeRecoveryAccount(a, r)
      PROVE  Inv'
  <2>1. UNCHANGED <<objects, request, bobservers, time, replaced, asked>>
    BY <1>5 DEF ChangeRecoveryAccount
  <2> DEFINE c == [account |-> r, effective |-> time + RecoveryPeriod]
             w == [account |-> r, time |-> time]
  <2>2. \/ change' = [change EXCEPT ![a] = None] /\ wanted' = [wanted EXCEPT ![a] = None]
        \/ change' = [change EXCEPT ![a] = c] /\ wanted' = [wanted EXCEPT ![a] = w]
    BY <1>5 DEF ChangeRecoveryAccount, ChangeRequest
  <2>3. time \in Nat /\ time + RecoveryPeriod \in Nat /\ time + RecoveryPeriod > time
    <3>1. time \in Nat
      BY <1>t DEF TypeOK
    <3> QED BY <3>1, Constants
  <2>4. /\ c \in RecoveryChange /\ c.account = r /\ c.effective = time + RecoveryPeriod
        /\ w \in Wanted /\ w.account = r /\ w.time = time
        /\ w # None
    BY <2>3, NoneIsNothing DEF RecoveryChange, Wanted
  <2> HIDE DEF c, w
  <2>t. change \in [Account -> RecoveryChange \cup {None}] /\ wanted \in [Account -> Wanted \cup {None}]
    BY <1>t DEF TypeOK
  <2>5. TypeOK'
    <3>1. change' \in [Account -> RecoveryChange \cup {None}]
      BY <2>2, <2>4, <2>t
    <3>2. wanted' \in [Account -> Wanted \cup {None}]
      BY <2>2, <2>4, <2>t
    <3> QED BY <2>1, <3>1, <3>2, <1>t DEF TypeOK, objects
  <2>6. ChangeWasWanted'
    BY <2>1, <2>2, <2>3, <2>4, <1>t, <2>t DEF ChangeWasWanted
  <2> QED BY <1>t, <2>1, <2>5, <2>6, Untouched DEF Inv, objects
<1>6. ASSUME NEW a \in Account, BobserverUpdate(a)
      PROVE  Inv'
  <2>1. TypeOK'
    BY <1>6, <1>t DEF BobserverUpdate, TypeOK, objects, ghosts
  <2>2. UNCHANGED <<history, replaced, time, request, asked, change, wanted>>
    BY <1>6 DEF BobserverUpdate, objects, ghosts
  <2> QED BY <1>t, <2>1, <2>2, Untouched DEF Inv
<1> QED BY <1>1, <1>2, <1>3, <1>4, <1>5, <1>6 DEF Operation

LEMMA EndBlockKeeps ==
    ASSUME Inv, NEW now \in Nat, now > time, EndBlock(now)
    PROVE  Inv'
<1>1. /\ time' = now /\ request' = Unexpired(now) /\ history' = ValidHistory(now)
      /\ UNCHANGED <<accounts, owner, lastOwnerUpdate, lastRecovery, bobservers, ops, replaced, asked>>
  BY DEF EndBlock
<1>2. TypeOK /\ time > 0 /\ RequestWasAsked /\ ChangeWasWanted /\ time \in Nat
  BY DEF Inv, TypeOK
<1>3. history' \in Seq(OwnerHistory) /\ HistoryValid' /\ ReplacedKnown'
  BY <1>1, <1>2, EndBlockKeepsHistory
<1>4. /\ request \in [Account -> RecoveryRequest \cup {None}]
      /\ change \in [Account -> RecoveryChange \cup {None}]
      /\ wanted \in [Account -> Wanted \cup {None}]
      /\ recoveryAccount \in [Account -> Account \cup {None}]
  BY <1>2 DEF TypeOK
<1>5. /\ request' \in [Account -> RecoveryRequest \cup {None}]
      /\ \A a \in Account :
            request'[a] = IF request[a] # None /\ request[a].expires <= now
                          THEN None ELSE request[a]
  BY <1>1, <1>4 DEF Unexpired
<1>6. /\ change' \in [Account -> RecoveryChange \cup {None}]
      /\ wanted' \in [Account -> Wanted \cup {None}]
      /\ \A a \in Account :
            /\ change'[a] = IF Effective(a, now) THEN None ELSE change[a]
            /\ wanted'[a] = IF Effective(a, now) THEN None ELSE wanted[a]
  BY <1>4 DEF EndBlock
<1>7. recoveryAccount' \in [Account -> Account \cup {None}]
  <2>1. \A c \in RecoveryChange : c.account \in Account
    BY DEF RecoveryChange
  <2>2. \A a \in Account : Effective(a, now) => change[a].account \in Account
    BY <1>4, <2>1 DEF Effective
  <2> QED BY <1>4, <2>2 DEF EndBlock
<1>8. TypeOK'
  BY <1>1, <1>2, <1>3, <1>5, <1>6, <1>7 DEF TypeOK
<1>9. RequestWasAsked'
  <2> SUFFICES ASSUME NEW a \in Account, request'[a] # None
               PROVE  /\ asked[a] # None
                      /\ asked[a].authority = request'[a].authority
                      /\ request'[a].expires = asked[a].time + RequestPeriod
                      /\ request'[a].expires > now
    BY <1>1 DEF RequestWasAsked
  <2>1. request'[a] = request[a] /\ request[a] # None /\ ~(request[a].expires <= now)
    BY <1>5
  <2>2. request[a].expires \in Nat
    BY <1>4, <2>1 DEF RecoveryRequest
  <2>3. request[a].expires > now
    BY <2>1, <2>2
  <2> QED BY <1>2, <2>1, <2>3 DEF RequestWasAsked
<1>10. ChangeWasWanted'
  <2> SUFFICES ASSUME NEW a \in Account, change'[a] # None
               PROVE  /\ wanted'[a] # None
                      /\ wanted'[a].account = change'[a].account
                      /\ wanted'[a].time > 0
                      /\ change'[a].effective = wanted'[a].time + RecoveryPeriod
                      /\ change'[a].effective > now
    BY <1>1 DEF ChangeWasWanted
  <2>1. ~Effective(a, now) /\ change'[a] = change[a] /\ wanted'[a] = wanted[a] /\ change[a] # None
    BY <1>6
  <2>2. change[a].effective \in Nat
    BY <1>4, <2>1 DEF RecoveryChange
  <2>3. change[a].effective > now
    BY <2>1, <2>2 DEF Effective
  <2> QED BY <1>2, <2>1, <2>3 DEF ChangeWasWanted
<1> QED BY <1>1, <1>2, <1>3, <1>8, <1>9, <1>10 DEF Inv

LEMMA NextInv == Inv /\ [Next]_vars => Inv'
<1> SUFFICES ASSUME Inv, [Next]_vars
             PROVE  Inv'
  OBVIOUS
<1>1. CASE ops < MaxOps /\ ops' = ops + 1 /\ Operation
  BY <1>1, OperationKeeps
<1>2. ASSUME NEW now \in time + 1 .. time + MaxGap, EndBlock(now)
      PROVE  Inv'
  <2>1. time \in Nat
    BY DEF Inv, TypeOK
  <2>2. now \in Nat /\ now > time
    BY <1>2, <2>1, Constants
  <2> QED BY <1>2, <2>2, EndBlockKeeps
<1>3. CASE UNCHANGED vars
  BY <1>3 DEF vars, objects, ghosts, Inv, TypeOK, HistoryValid, ReplacedKnown,
              RequestWasAsked, ChangeWasWanted, Outdated
<1> QED BY <1>1, <1>2, <1>3 DEF Next

\* The variables have their types in every behaviour, with the invariant that
\* the theorems below rest on.
THEOREM Safety == Spec => []Inv
  BY InitInv, NextInv, PTL DEF Spec

\* The invariant says who can be found in the history.
LEMMA KnownFromInv == Inv => RecentOwnersKnown
<1> SUFFICES ASSUME Inv, NEW a \in Account, NEW k \in Authority
             PROVE  k \in RecentOwners(a) <=>
                        replaced[a][k] # 0 /\ replaced[a][k] + RecoveryPeriod >= time
  BY DEF RecentOwnersKnown
<1>1. replaced[a][k] \in Nat /\ time \in Nat /\ history \in Seq(OwnerHistory)
  BY DEF Inv, TypeOK
<1>2. ASSUME k \in RecentOwners(a)
      PROVE  replaced[a][k] # 0 /\ replaced[a][k] + RecoveryPeriod >= time
  <2>1. PICK i \in DOMAIN history : history[i].account = a /\ history[i].authority = k
    BY <1>2 DEF RecentOwners
  <2>2. history[i].lastValid \in Nat
    <3>1. history[i] \in OwnerHistory
      BY <1>1
    <3> QED BY <3>1 DEF OwnerHistory
  <2>3. /\ 0 < history[i].lastValid
        /\ history[i].lastValid <= replaced[a][k]
        /\ ~(history[i].lastValid + RecoveryPeriod < time)
    BY <2>1 DEF Inv, HistoryValid, Outdated
  <2> QED BY <1>1, <2>2, <2>3, Constants
<1>3. ASSUME replaced[a][k] # 0, replaced[a][k] + RecoveryPeriod >= time
      PROVE  k \in RecentOwners(a)
  <2>1. PICK i \in DOMAIN history :
                history[i] = [account |-> a, authority |-> k, lastValid |-> replaced[a][k]]
    BY <1>3 DEF Inv, ReplacedKnown
  <2>2. history[i].account = a /\ history[i].authority = k
    BY <2>1
  <2> QED BY <2>2 DEF RecentOwners
<1> QED BY <1>2, <1>3

\* An owner can recover its account while it was valid in the last 30 days, and
\* no longer: the loop at the end of a block, which stops at the first valid
\* entry, leaves no outdated entry of any account behind and takes no other.
THEOREM RecentOwnersAreKnown == Spec => []RecentOwnersKnown
  BY Safety, KnownFromInv, PTL

\* An account is recovered only to the authority that its recovery account
\* asked for last, while that request has not expired, and only with an owner
\* of the last 30 days other than the new one: recover_account_evaluator.
THEOREM RecoveryIsAsked == Spec => RecoveryWasAsked
<1> DEFINE A == \A a \in Account : lastRecovery'[a] # lastRecovery[a] =>
                  /\ asked[a] # None
                  /\ asked[a].authority = owner'[a]
                  /\ time < asked[a].time + RequestPeriod
                  /\ \E k \in Authority \ {owner'[a]} :
                        replaced[a][k] # 0 /\ replaced[a][k] + RecoveryPeriod >= time
<1>1. ASSUME Inv, [Next]_vars
      PROVE  [A]_vars
  <2> SUFFICES ASSUME Next, NEW a \in Account, lastRecovery'[a] # lastRecovery[a]
               PROVE  /\ asked[a] # None
                      /\ asked[a].authority = owner'[a]
                      /\ time < asked[a].time + RequestPeriod
                      /\ \E k \in Authority \ {owner'[a]} :
                            replaced[a][k] # 0 /\ replaced[a][k] + RecoveryPeriod >= time
    BY <1>1
  <2>1. TypeOK /\ RequestWasAsked /\ RecentOwnersKnown
    BY <1>1, KnownFromInv DEF Inv
  <2>2. PICK b \in Account, new, known \in Authority : RecoverAccount(b, new, known)
    BY DEF Next, Operation, AccountCreate, AccountUpdate, RequestAccountRecovery,
           ChangeRecoveryAccount, BobserverUpdate, EndBlock, objects
  <2>3. b = a
    BY <2>1, <2>2 DEF RecoverAccount, TypeOK
  <2>4. /\ new # known /\ known \in RecentOwners(a)
        /\ request[a] # None /\ request[a].authority = new
        /\ owner' = [owner EXCEPT ![a] = new]
    BY <2>2, <2>3 DEF RecoverAccount, UpdateOwnerAuthority
  <2>5. owner'[a] = new
    BY <2>1, <2>4 DEF TypeOK
  <2>6. /\ asked[a] # None /\ asked[a].authority = new
        /\ request[a].expires = asked[a].time + RequestPeriod
        /\ request[a].expires > time
    BY <2>1, <2>4 DEF RequestWasAsked
  <2>7. time < asked[a].time + RequestPeriod
    <3>1. request[a].expires \in Nat /\ time \in Nat
      BY <2>1, <2>4 DEF TypeOK, RecoveryRequest
    <3> QED BY <2>6, <3>1
  <2>8. replaced[a][known] # 0 /\ replaced[a][known] + RecoveryPeriod >= time
    BY <2>1, <2>4 DEF RecentOwnersKnown
  <2> QED BY <2>4, <2>5, <2>6, <2>7, <2>8
<1>2. Inv /\ [Next]_vars => [A]_vars
  BY <1>1
<1> QED BY Safety, <1>2, PTL DEF Spec, RecoveryWasAsked

\* The recovery account changes only to the one asked for last, 30 days after
\* that, and whoever has owned the account since then can still prove it when
\* the change takes effect: change_recovery_account_evaluator with
\* account_recovery_processing().
THEOREM OwnersOutlastTheChange == Spec => OwnersOutlastChange
<1> DEFINE A == \A a \in accounts : recoveryAccount'[a] # recoveryAccount[a] =>
                  /\ wanted[a] # None
                  /\ wanted[a].account = recoveryAccount'[a]
                  /\ time' >= wanted[a].time + RecoveryPeriod
                  /\ \A k \in Authority :
                        replaced[a][k] >= wanted[a].time => k \in RecentOwners(a)
<1>1. ASSUME Inv, [Next]_vars
      PROVE  [A]_vars
  <2> SUFFICES ASSUME Next, NEW a \in accounts, recoveryAccount'[a] # recoveryAccount[a]
               PROVE  /\ wanted[a] # None
                      /\ wanted[a].account = recoveryAccount'[a]
                      /\ time' >= wanted[a].time + RecoveryPeriod
                      /\ \A k \in Authority :
                            replaced[a][k] >= wanted[a].time => k \in RecentOwners(a)
    BY <1>1
  <2>1. TypeOK /\ ChangeWasWanted /\ RecentOwnersKnown /\ a \in Account
    BY <1>1, KnownFromInv DEF Inv, TypeOK
  <2>2. PICK now \in time + 1 .. time + MaxGap : EndBlock(now)
    <3>1. ASSUME NEW c \in Account, NEW b \in Account, NEW k \in Authority, AccountCreate(c, b, k)
          PROVE  FALSE
      <4>1. b # a /\ recoveryAccount' = [recoveryAccount EXCEPT ![b] = c]
        BY <3>1 DEF AccountCreate
      <4> QED BY <2>1, <4>1 DEF TypeOK
    <3> QED BY <3>1 DEF Next, Operation, AccountUpdate, RequestAccountRecovery,
                        RecoverAccount, ChangeRecoveryAccount, BobserverUpdate, objects
  <2>3. Effective(a, now) /\ recoveryAccount'[a] = change[a].account /\ time' = now
    BY <2>1, <2>2 DEF EndBlock
  <2>4. /\ wanted[a] # None /\ wanted[a].account = change[a].account /\ wanted[a].time > 0
        /\ change[a].effective = wanted[a].time + RecoveryPeriod
        /\ change[a].effective > time /\ change[a].effective <= now
    BY <2>1, <2>3 DEF Effective, ChangeWasWanted
  <2>5. wanted[a].time \in Nat /\ time \in Nat /\ now \in Nat
    <3>1. time \in Nat /\ wanted[a] \in Wanted
      BY <2>1, <2>4 DEF TypeOK
    <3> QED BY <2>2, <3>1, Constants DEF Wanted
  <2>6. now >= wanted[a].time + RecoveryPeriod /\ wanted[a].time + RecoveryPeriod > time
    BY <2>4, <2>5, Constants
  <2>7. ASSUME NEW k \in Authority, replaced[a][k] >= wanted[a].time
        PROVE  k \in RecentOwners(a)
    <3>1. replaced[a][k] \in Nat
      BY <2>1 DEF TypeOK
    <3>2. replaced[a][k] # 0 /\ replaced[a][k] + RecoveryPeriod >= time
      BY <2>4, <2>5, <2>6, <2>7, <3>1, Constants
    <3> QED BY <2>1, <3>2 DEF RecentOwnersKnown
  <2> QED BY <2>3, <2>4, <2>6, <2>7
<1>2. Inv /\ [Next]_vars => [A]_vars
  BY <1>1
<1> QED BY Safety, <1>2, PTL DEF Spec, OwnersOutlastChange


-----------------------------------------------------------------------------
(* Pending transactions.                                                   *)


\* A block.
PoolBlock == [time : Nat, txs : Seq(Tx)]

LEMMA PoolNumbers ==
    ASSUME PoolConstants
    PROVE  /\ \A t \in Tx : Expiration[t] \in Nat /\ Size[t] \in Nat /\ Needs[t] \subseteq Tx
           /\ MaxTimeUntilExpiration \in Nat /\ MaxBlockSize \in Nat /\ HeaderEstimate \in Nat
           /\ HeaderSize \in Nat /\ SizeMargin \in Nat /\ HeaderSize <= MaxBlockSize
           /\ LastTime \in Nat /\ MaxForeign \in Nat
BY DEF PoolConstants

\* What one transaction makes of a run, and what one transaction of the
\* restorer makes of a pool.
RunStep(r, t) ==
    IF r.ok /\ CanApply(r.st, t)
    THEN [r EXCEPT !.st = Applied(@, t)]
    ELSE [r EXCEPT !.ok = FALSE]

RunResult == [ok : BOOLEAN, st : State]

\* State without its fields spelt out.
LEMMA StateFields ==
    ASSUME NEW st \in State
    PROVE  st.num \in Nat /\ st.time \in Nat /\ st.applied \subseteq Tx /\ st.dedupe \subseteq Tx
BY DEF State

LEMMA AppliedFields ==
    ASSUME NEW st \in State, NEW t \in Tx
    PROVE  /\ Applied(st, t) \in State
           /\ Applied(st, t).num = st.num /\ Applied(st, t).time = st.time
           /\ Applied(st, t).applied = st.applied \cup {t}
           /\ Applied(st, t).dedupe = st.dedupe \cup {t}
BY DEF State, Applied

LEMMA GenesisFields ==
    /\ GenesisState \in State
    /\ GenesisState.num = 0 /\ GenesisState.time = 0
    /\ GenesisState.applied = {} /\ GenesisState.dedupe = {}
BY DEF State, GenesisState

LEMMA RunResultFields ==
    /\ \A r \in RunResult : r.ok \in BOOLEAN /\ r.st \in State
    /\ \A o \in BOOLEAN, st \in State :
          /\ [ok |-> o, st |-> st] \in RunResult
          /\ [ok |-> o, st |-> st].ok = o /\ [ok |-> o, st |-> st].st = st
BY DEF RunResult

LEMMA RunStepType ==
    ASSUME NEW r \in RunResult, NEW t \in Tx
    PROVE  /\ RunStep(r, t) \in RunResult
           /\ r.ok /\ CanApply(r.st, t) => RunStep(r, t) = [ok |-> TRUE, st |-> Applied(r.st, t)]
           /\ ~(r.ok /\ CanApply(r.st, t)) => RunStep(r, t) = [ok |-> FALSE, st |-> r.st]
<1>1. r.ok \in BOOLEAN /\ r.st \in State /\ r = [ok |-> r.ok, st |-> r.st]
  BY DEF RunResult
<1>2. Applied(r.st, t) \in State
  BY <1>1, AppliedFields
<1>3. CASE r.ok /\ CanApply(r.st, t)
  <2>1. RunStep(r, t) = [r EXCEPT !.st = Applied(r.st, t)]
    BY <1>3 DEF RunStep
  <2>2. [r EXCEPT !.st = Applied(r.st, t)] = [ok |-> r.ok, st |-> Applied(r.st, t)]
    BY DEF RunResult
  <2>3. r.ok = TRUE
    BY <1>1, <1>3
  <2> QED BY <1>2, <1>3, <2>1, <2>2, <2>3, RunResultFields
<1>4. CASE ~(r.ok /\ CanApply(r.st, t))
  <2>1. RunStep(r, t) = [r EXCEPT !.ok = FALSE]
    BY <1>4, Zenon DEF RunStep
  <2>2. [r EXCEPT !.ok = FALSE] = [ok |-> FALSE, st |-> r.st]
    <3> DEFINE e == FALSE
    <3> HIDE DEF e
    <3>1. [r EXCEPT !.ok = e] = [ok |-> e, st |-> r.st]
      BY DEF RunResult
    <3> QED BY <3>1 DEF e
  <2> QED BY <1>1, <1>4, <2>1, <2>2, RunResultFields
<1> QED BY <1>3, <1>4

\* r is what the run has made of the first n transactions, for each n.
Runs(h, st, txs) ==
    /\ h[0] = [ok |-> TRUE, st |-> st]
    /\ \A n \in 1 .. Len(txs) : h[n] = RunStep(h[n - 1], txs[n])

\* The fold of Run goes by these steps.
LEMMA RunIs ==
    ASSUME NEW st \in State, NEW txs \in Seq(Tx), NEW h, Runs(h, st, txs)
    PROVE  Run(st, txs) = h[Len(txs)]
<1> DEFINE N == Len(txs)
           D == DOMAIN txs
           b == [ok |-> TRUE, st |-> st]
           Raw(g) == g = [s \in SUBSET D |->
                            IF s = {} THEN b ELSE RunStep(g[s \ {LargestOf(s)}], txs[LargestOf(s)])]
           F == [n \in 1 .. N |-> [r \in RunResult |-> RunStep(r, txs[n])]]
<1>1. Run(st, txs) = (CHOOSE g : Raw(g))[D]
  BY DEF Run, FoldLeft, MapThenFoldSet, Max, LargestOf, RunStep
<1>2. N \in Nat /\ D = 1 .. N /\ \A n \in 1 .. N : txs[n] \in Tx
  OBVIOUS
<1>3. b \in RunResult
  BY RunResultFields
<1>4. F \in [1 .. N -> [RunResult -> RunResult]]
  BY <1>2, RunStepType
<1>5. \A n \in 1 .. N, r \in RunResult : F[n][r] = RunStep(r, txs[n])
  OBVIOUS
<1> HIDE DEF N, D, F, b
<1>6. PICK g0 \in [SUBSET (1 .. N) -> RunResult] : FoldsOver(g0, b, F, N)
  BY <1>2, <1>3, <1>4, FoldExists
<1>7. Raw(g0)
  <2>1. ASSUME NEW s \in SUBSET D
        PROVE  g0[s] = IF s = {} THEN b ELSE RunStep(g0[s \ {LargestOf(s)}], txs[LargestOf(s)])
    <3>1. CASE s = {}
      BY <1>2, <1>6, <3>1 DEF FoldsOver
    <3>2. CASE s # {}
      <4>1. LargestOf(s) \in 1 .. N /\ s \ {LargestOf(s)} \in SUBSET (1 .. N)
        BY <1>2, <3>2, LargestIs
      <4>2. g0[s] = F[LargestOf(s)][g0[s \ {LargestOf(s)}]]
        BY <1>2, <1>6, <3>2 DEF FoldsOver
      <4> QED BY <1>5, <3>2, <4>1, <4>2
    <3> QED BY <3>1, <3>2
  <2> QED BY <1>2, <2>1
<1>8. ASSUME NEW g, Raw(g)
      PROVE  g[D] = h[N]
  <2>1. \A s \in SUBSET D : g[s] = IF s = {} THEN b ELSE RunStep(g[s \ {LargestOf(s)}], txs[LargestOf(s)])
    BY <1>8
  <2> HIDE DEF Raw
  <2>2. g[{}] = h[0]
    BY <2>1 DEF Runs, b
  <2>3. ASSUME NEW n \in 1 .. N, g[1 .. n - 1] = h[n - 1]
        PROVE  g[1 .. n] = h[n]
    <3>1. n \in Nat /\ n # 0 /\ 1 .. n \in SUBSET D
      BY <1>2
    <3>2. g[1 .. n] = RunStep(g[1 .. n - 1], txs[n])
      BY <2>1, <3>1, LargestUpTo
    <3>3. h[n] = RunStep(h[n - 1], txs[n])
      BY DEF Runs, N
    <3> QED BY <2>3, <3>2, <3>3
  <2> QED BY <1>2, <2>2, <2>3, FoldAlong
<1>9. Raw(CHOOSE g : Raw(g))
  <2> HIDE DEF Raw
  <2> QED BY <1>7
<1>10. (CHOOSE g : Raw(g))[D] = h[N]
  <2> HIDE DEF Raw
  <2> QED BY <1>8, <1>9
<1> QED BY <1>1, <1>10 DEF N


LEMMA RunExists ==
    ASSUME NEW st \in State, NEW txs \in Seq(Tx)
    PROVE  \E h \in [0 .. Len(txs) -> RunResult] : Runs(h, st, txs)
<1> DEFINE N == Len(txs)
           b == [ok |-> TRUE, st |-> st]
           F == [n \in 1 .. N |-> [r \in RunResult |-> RunStep(r, txs[n])]]
<1>1. N \in Nat /\ b \in RunResult
  <2>1. b \in RunResult
    BY RunResultFields
  <2> QED BY <2>1
<1>2. F \in [1 .. N -> [RunResult -> RunResult]]
  BY RunStepType
<1>3. \A n \in 1 .. N, r \in RunResult : F[n][r] = RunStep(r, txs[n])
  OBVIOUS
<1>4. \A n \in 1 .. N : n - 1 \in 0 .. N
  OBVIOUS
<1> HIDE DEF N, b, F
<1>5. PICK h \in [0 .. N -> RunResult] : Follows(h, b, F, N)
  BY <1>1, <1>2, Recursion
<1>6. h[0] = b /\ \A n \in 1 .. N : h[n] = RunStep(h[n - 1], txs[n])
  BY <1>3, <1>4, <1>5 DEF Follows
<1>7. Runs(h, st, txs)
  BY <1>6 DEF Runs, N, b
<1> QED BY <1>5, <1>7 DEF N

LEMMA RunFolds ==
    /\ \A st \in State : Run(st, << >>) = [ok |-> TRUE, st |-> st]
    /\ \A st \in State, txs \in Seq(Tx), t \in Tx :
          /\ Run(st, txs) \in RunResult
          /\ Run(st, Append(txs, t)) = RunStep(Run(st, txs), t)
<1>1. ASSUME NEW st \in State
      PROVE  Run(st, << >>) = [ok |-> TRUE, st |-> st]
  <2>1. << >> \in Seq(Tx) /\ Len(<< >>) = 0
    OBVIOUS
  <2>2. PICK h \in [0 .. Len(<< >>) -> RunResult] : Runs(h, st, << >>)
    BY <2>1, RunExists
  <2>3. Run(st, << >>) = h[Len(<< >>)]
    BY <2>1, <2>2, RunIs
  <2> QED BY <2>1, <2>2, <2>3 DEF Runs
<1>2. ASSUME NEW st \in State, NEW txs \in Seq(Tx), NEW t \in Tx
      PROVE  /\ Run(st, txs) \in RunResult
             /\ Run(st, Append(txs, t)) = RunStep(Run(st, txs), t)
  <2> DEFINE all == Append(txs, t)
             N == Len(txs)
  <2>1. all \in Seq(Tx) /\ Len(all) = N + 1 /\ N \in Nat /\ all[N + 1] = t /\ \A n \in 1 .. N : all[n] = txs[n]
    OBVIOUS
  <2>2. N + 1 \in 1 .. N + 1 /\ N \in 0 .. N + 1 /\ N + 1 - 1 = N /\ \A n \in 1 .. N : n \in 1 .. N + 1
    BY <2>1
  <2> HIDE DEF all, N
  <2>3. PICK h \in [0 .. Len(all) -> RunResult] : Runs(h, st, all)
    BY <2>1, RunExists
  <2>4. h[0] = [ok |-> TRUE, st |-> st] /\ \A n \in 1 .. N + 1 : h[n] = RunStep(h[n - 1], all[n])
    BY <2>1, <2>3 DEF Runs
  <2>5. Runs(h, st, txs)
    BY <2>1, <2>2, <2>4 DEF Runs, N
  <2>6. Run(st, txs) = h[N]
    BY <2>5, RunIs DEF N
  <2>7. Run(st, all) = h[N + 1]
    BY <2>1, <2>3, RunIs
  <2>8. h[N] \in RunResult
    BY <2>1, <2>2, <2>3
  <2> QED BY <2>1, <2>2, <2>4, <2>6, <2>7, <2>8 DEF all
<1> QED BY <1>1, <1>2

-----------------------------------------------------------------------------
(* What a run that succeeds says of its transactions.                      *)

\* Each one finds what it needs in A or among those before it.
Ordered(A, txs) ==
    \A j \in 1 .. Len(txs) : Needs[txs[j]] \subseteq A \cup FirstOf(txs, j - 1)

Distinct(txs) == \A i, j \in 1 .. Len(txs) : txs[i] = txs[j] => i = j

\* A transaction whose dedupe object is gone has expired.
Fresh(st) ==
    /\ st.dedupe \subseteq st.applied
    /\ \A t \in st.applied : t \in st.dedupe \/ (st.num > 0 /\ st.time > Expiration[t])

LEMMA FreshFacts ==
    ASSUME PoolConstants, NEW st \in State, Fresh(st), NEW t \in Tx
    PROVE  /\ CanApply(st, t) => t \notin st.applied
           /\ Fresh(Applied(st, t))
<1> USE StateFields, AppliedFields
<1>1. ASSUME CanApply(st, t), t \in st.applied
      PROVE  FALSE
  <2>1. t \notin st.dedupe /\ (st.num > 0 => st.time < Expiration[t])
    BY <1>1 DEF CanApply
  <2>2. st.num > 0 /\ st.time > Expiration[t]
    BY <1>1, <2>1 DEF Fresh
  <2>3. st.time \in Nat /\ Expiration[t] \in Nat
    BY PoolNumbers
  <2> QED BY <2>1, <2>2, <2>3
<1>2. Fresh(Applied(st, t))
  BY DEF Fresh
<1> QED BY <1>1, <1>2

\* The first n transactions of a run.
RanTo(h, st, txs, n) ==
    h[n].ok =>
       LET s == h[n].st IN
       /\ s.num = st.num /\ s.time = st.time
       /\ s.applied = st.applied \cup FirstOf(txs, n)
       /\ s.dedupe = st.dedupe \cup FirstOf(txs, n)
       /\ \A j \in 1 .. n : Needs[txs[j]] \subseteq st.applied \cup FirstOf(txs, j - 1)
       /\ Fresh(st) => /\ Fresh(s)
                       /\ \A j \in 1 .. n : txs[j] \notin st.applied \cup FirstOf(txs, j - 1)


LEMMA RanAlong ==
    ASSUME PoolConstants, NEW st \in State, NEW txs \in Seq(Tx),
           NEW h \in [0 .. Len(txs) -> RunResult], Runs(h, st, txs)
    PROVE  \A n \in 0 .. Len(txs) : RanTo(h, st, txs, n)
<1> DEFINE N == Len(txs)
           Z == {n \in 0 .. N : RanTo(h, st, txs, n)}
<1>1. N \in Nat /\ h \in [0 .. N -> RunResult] /\ \A n \in 1 .. N : txs[n] \in Tx
  OBVIOUS
<1>2. h[0] = [ok |-> TRUE, st |-> st] /\ \A n \in 1 .. N : h[n] = RunStep(h[n - 1], txs[n])
  BY DEF Runs
<1> HIDE DEF N
<1>3. 0 \in Z
  <2>1. h[0].st = st
    BY <1>2
  <2>2. \A j \in 1 .. 0 : FALSE
    OBVIOUS
  <2>3. FirstOf(txs, 0) = {}
    BY FirstOfFacts
  <2>4. RanTo(h, st, txs, 0)
    BY <2>1, <2>2, <2>3 DEF RanTo
  <2> QED BY <1>1, <2>4
<1>4. ASSUME NEW n \in 1 .. N, n - 1 \in Z
      PROVE  n \in Z
  <2> DEFINE r == h[n - 1]
             s == r.st
             t == txs[n]
             q == Applied(s, t)
             A == FirstOf(txs, n - 1)
             B == FirstOf(txs, n)
  <2>1. r \in RunResult /\ t \in Tx /\ n \in Nat /\ n \in 0 .. N /\ n # 0
    BY <1>1
  <2>2. s \in State /\ h[n] = RunStep(r, t) /\ RanTo(h, st, txs, n - 1)
    BY <1>2, <1>4, <2>1, RunResultFields
  <2>3. CASE ~(r.ok /\ CanApply(s, t))
    <3>1. h[n] = [ok |-> FALSE, st |-> s]
      BY <2>1, <2>2, <2>3, RunStepType
    <3>2. ~h[n].ok
      BY <3>1
    <3>3. RanTo(h, st, txs, n)
      BY <3>2 DEF RanTo
    <3> QED BY <2>1, <3>3
  <2>4. CASE r.ok /\ CanApply(s, t)
    <3>1. h[n] = [ok |-> TRUE, st |-> q]
      BY <2>1, <2>2, <2>4, RunStepType
    <3>2. h[n].st = q
      BY <3>1
    <3>3. /\ q.num = s.num /\ q.time = s.time
          /\ q.applied = s.applied \cup {t} /\ q.dedupe = s.dedupe \cup {t}
      BY <2>1, <2>2, AppliedFields, ZenonT(60)
    <3>4. /\ s.num = st.num /\ s.time = st.time
          /\ s.applied = st.applied \cup A
          /\ s.dedupe = st.dedupe \cup A
          /\ \A j \in 1 .. n - 1 : Needs[txs[j]] \subseteq st.applied \cup FirstOf(txs, j - 1)
      BY <2>2, <2>4 DEF RanTo
    <3>5. Fresh(st) => /\ Fresh(s)
                       /\ \A j \in 1 .. n - 1 : txs[j] \notin st.applied \cup FirstOf(txs, j - 1)
      BY <2>2, <2>4 DEF RanTo
    <3>6. B = A \cup {t}
      BY <2>1, FirstOfFacts
    <3>7. Needs[t] \subseteq s.applied
      BY <2>4 DEF CanApply, Acceptable
    <3>8. Fresh(st) => Fresh(q) /\ t \notin s.applied
      BY <2>1, <2>2, <2>4, <3>5, FreshFacts
    <3>9. \A j \in 1 .. n : j \in 1 .. n - 1 \/ j = n
      BY <2>1
    <3> HIDE DEF A, B, q, s, r
    <3>10. \A j \in 1 .. n : Needs[txs[j]] \subseteq st.applied \cup FirstOf(txs, j - 1)
      BY <3>4, <3>7, <3>9 DEF A
    <3>11. Fresh(st) => \A j \in 1 .. n : txs[j] \notin st.applied \cup FirstOf(txs, j - 1)
      BY <3>4, <3>5, <3>8, <3>9 DEF A
    <3>12. q.applied = st.applied \cup B /\ q.dedupe = st.dedupe \cup B
      BY <3>3, <3>4, <3>6
    <3>13. RanTo(h, st, txs, n)
      BY <3>2, <3>3, <3>4, <3>8, <3>10, <3>11, <3>12 DEF RanTo, B
    <3> QED BY <2>1, <3>13
  <2> QED BY <2>3, <2>4
<1> HIDE DEF Z
<1>5. \A n \in 0 .. N : n \in Z
  BY <1>1, <1>3, <1>4, Upwards
<1> QED BY <1>5 DEF N, Z

\* A run that succeeds has applied its transactions, in an order that their
\* needs allow, and none that was applied before.
LEMMA RunOk ==
    ASSUME PoolConstants, NEW st \in State, NEW txs \in Seq(Tx), Run(st, txs).ok
    PROVE  LET s == Run(st, txs).st IN
           /\ s \in State
           /\ s.num = st.num /\ s.time = st.time
           /\ s.applied = st.applied \cup FirstOf(txs, Len(txs))
           /\ s.dedupe = st.dedupe \cup FirstOf(txs, Len(txs))
           /\ Ordered(st.applied, txs)
           /\ Fresh(st) => /\ Fresh(s) /\ Distinct(txs)
                           /\ st.applied \cap FirstOf(txs, Len(txs)) = {}
<1> DEFINE N == Len(txs)
           r == Run(st, txs)
<1>1. PICK h \in [0 .. Len(txs) -> RunResult] : Runs(h, st, txs)
  BY RunExists
<1>2. r = h[N] /\ N \in Nat /\ N \in 0 .. N
  BY <1>1, RunIs
<1>3. RanTo(h, st, txs, N)
  BY <1>1, <1>2, RanAlong
<1>4. r \in RunResult
  BY <1>1, <1>2
<1>5. r.st \in State
  BY <1>4, RunResultFields
<1> HIDE DEF r
<1>6. /\ r.st.num = st.num /\ r.st.time = st.time
      /\ r.st.applied = st.applied \cup FirstOf(txs, N)
      /\ r.st.dedupe = st.dedupe \cup FirstOf(txs, N)
      /\ Ordered(st.applied, txs)
      /\ Fresh(st) => /\ Fresh(r.st)
                      /\ \A j \in 1 .. N : txs[j] \notin st.applied \cup FirstOf(txs, j - 1)
  BY <1>2, <1>3 DEF RanTo, r, Ordered
<1>7. ASSUME Fresh(st)
      PROVE  Distinct(txs) /\ st.applied \cap FirstOf(txs, N) = {}
  <2>1. \A j \in 1 .. N : txs[j] \notin st.applied \cup FirstOf(txs, j - 1)
    BY <1>6, <1>7
  <2>2. st.applied \cap FirstOf(txs, N) = {}
    BY <2>1 DEF FirstOf
  <2>3. \A i, j \in 1 .. N : i < j => txs[i] # txs[j]
    <3> SUFFICES ASSUME NEW i \in 1 .. N, NEW j \in 1 .. N, i < j
                 PROVE  txs[i] # txs[j]
      OBVIOUS
    <3>1. i \in 1 .. j - 1
      BY <1>2
    <3>2. txs[i] \in FirstOf(txs, j - 1)
      BY <3>1 DEF FirstOf
    <3> QED BY <2>1, <3>2
  <2>4. \A i, j \in 1 .. N : i # j => i < j \/ j < i
    BY <1>2
  <2> QED BY <2>2, <2>3, <2>4 DEF Distinct
<1> QED BY <1>5, <1>6, <1>7 DEF r


-----------------------------------------------------------------------------
(* Blocks, and the transactions of a chain.                                *)

\* The transactions of a list.
All(txs) == FirstOf(txs, Len(txs))

LEMMA AllIsRange ==
    ASSUME NEW txs \in Seq(Tx)
    PROVE  Range(txs) = All(txs) /\ All(txs) \subseteq Tx
BY DEF Range, All, FirstOf

LEMMA Joined ==
    ASSUME NEW u \in Seq(Tx), NEW v \in Seq(Tx)
    PROVE  /\ u \o v \in Seq(Tx) /\ Len(u \o v) = Len(u) + Len(v)
           /\ \A i \in 1 .. Len(u) : (u \o v)[i] = u[i]
           /\ \A i \in 1 .. Len(v) : (u \o v)[Len(u) + i] = v[i]
           /\ All(u \o v) = All(u) \cup All(v)
<1> DEFINE w == u \o v
           m == Len(u)
           n == Len(v)
<1>1. w \in Seq(Tx) /\ Len(w) = m + n /\ m \in Nat /\ n \in Nat
  OBVIOUS
<1>2. \A i \in 1 .. m : w[i] = u[i]
  OBVIOUS
<1>3. \A i \in 1 .. n : w[m + i] = v[i]
  OBVIOUS
<1> HIDE DEF w, m, n
<1>4. \A i \in 1 .. m + n : i \in 1 .. m \/ (i - m \in 1 .. n /\ m + (i - m) = i)
  BY <1>1
<1>5. \A i \in 1 .. m : i \in 1 .. m + n
  BY <1>1
<1>6. \A i \in 1 .. n : m + i \in 1 .. m + n
  BY <1>1
<1>7. ASSUME NEW x
      PROVE  x \in FirstOf(w, m + n) <=> x \in FirstOf(u, m) \/ x \in FirstOf(v, n)
  <2>1. x \in FirstOf(u, m) => x \in FirstOf(w, m + n)
    BY <1>2, <1>5 DEF FirstOf
  <2>2. x \in FirstOf(v, n) => x \in FirstOf(w, m + n)
    BY <1>3, <1>6 DEF FirstOf
  <2>3. ASSUME x \in FirstOf(w, m + n)
        PROVE  x \in FirstOf(u, m) \/ x \in FirstOf(v, n)
    <3>1. PICK i \in 1 .. m + n : x = w[i]
      BY <2>3 DEF FirstOf
    <3>2. CASE i \in 1 .. m
      BY <1>2, <3>1, <3>2 DEF FirstOf
    <3>3. CASE i - m \in 1 .. n /\ m + (i - m) = i
      <4>1. w[m + (i - m)] = v[i - m]
        BY <1>3, <3>3
      <4> QED BY <3>1, <3>3, <4>1 DEF FirstOf
    <3> QED BY <1>4, <3>2, <3>3
  <2> QED BY <2>1, <2>2, <2>3
<1>8. FirstOf(w, m + n) = FirstOf(u, m) \cup FirstOf(v, n)
  BY <1>7
<1> QED BY <1>1, <1>2, <1>3, <1>8 DEF All, w, m, n

LEMMA JoinedOrdered ==
    ASSUME NEW u \in Seq(Tx), NEW v \in Seq(Tx), NEW A,
           Ordered(A, u), Ordered(A \cup All(u), v)
    PROVE  Ordered(A, u \o v)
<1> DEFINE w == u \o v
           m == Len(u)
           n == Len(v)
<1>1. m \in Nat /\ n \in Nat /\ Len(w) = m + n
  OBVIOUS
<1>2. /\ \A i \in 1 .. m : w[i] = u[i]
      /\ \A i \in 1 .. n : w[m + i] = v[i]
  BY Joined
<1> HIDE DEF w, m, n
<1>3. ASSUME NEW j \in 1 .. m
      PROVE  Needs[w[j]] \subseteq A \cup FirstOf(w, j - 1)
  <2>1. \A i \in 1 .. j - 1 : i \in 1 .. m
    BY <1>1
  <2>2. FirstOf(u, j - 1) \subseteq FirstOf(w, j - 1)
    BY <1>2, <2>1 DEF FirstOf
  <2>3. Needs[u[j]] \subseteq A \cup FirstOf(u, j - 1)
    BY DEF Ordered, m
  <2> QED BY <1>2, <2>2, <2>3
<1>4. ASSUME NEW j \in 1 .. n
      PROVE  Needs[w[m + j]] \subseteq A \cup FirstOf(w, m + j - 1)
  <2>1. \A i \in 1 .. m : i \in 1 .. m + j - 1
    BY <1>1
  <2>2. \A i \in 1 .. j - 1 : m + i \in 1 .. m + j - 1 /\ i \in 1 .. n
    BY <1>1
  <2>3. FirstOf(u, m) \subseteq FirstOf(w, m + j - 1)
    BY <1>2, <2>1 DEF FirstOf
  <2>4. FirstOf(v, j - 1) \subseteq FirstOf(w, m + j - 1)
    BY <1>2, <2>2 DEF FirstOf
  <2>5. Needs[v[j]] \subseteq A \cup FirstOf(u, m) \cup FirstOf(v, j - 1)
    BY DEF Ordered, n, m, All
  <2> QED BY <1>2, <2>3, <2>4, <2>5
<1>5. ASSUME NEW j \in 1 .. m + n
      PROVE  Needs[w[j]] \subseteq A \cup FirstOf(w, j - 1)
  <2>1. CASE j \in 1 .. m
    BY <1>3, <2>1
  <2>2. CASE j \notin 1 .. m
    <3> DEFINE k == j - m
    <3>1. k \in 1 .. n /\ m + k = j /\ m + k - 1 = j - 1
      BY <1>1, <2>2
    <3> HIDE DEF k
    <3> QED BY <1>4, <3>1
  <2> QED BY <2>1, <2>2
<1> QED BY <1>1, <1>5 DEF Ordered, w

LEMMA JoinedDistinct ==
    ASSUME NEW u \in Seq(Tx), NEW v \in Seq(Tx),
           Distinct(u), Distinct(v), All(u) \cap All(v) = {}
    PROVE  Distinct(u \o v)
<1> DEFINE w == u \o v
           m == Len(u)
           n == Len(v)
<1>1. m \in Nat /\ n \in Nat /\ Len(w) = m + n
  OBVIOUS
<1>2. /\ \A i \in 1 .. m : w[i] = u[i]
      /\ \A i \in 1 .. n : w[m + i] = v[i]
  BY Joined
<1>3. /\ \A i, j \in 1 .. m : u[i] = u[j] => i = j
      /\ \A i, j \in 1 .. n : v[i] = v[j] => i = j
      /\ \A i \in 1 .. m, j \in 1 .. n : u[i] # v[j]
  BY DEF Distinct, All, FirstOf
<1> HIDE DEF w, m, n
<1>4. ASSUME NEW i \in 1 .. m + n, NEW j \in 1 .. m + n, w[i] = w[j]
      PROVE  i = j
  <2> DEFINE a == i - m
             b == j - m
  <2>1. i \in 1 .. m \/ (a \in 1 .. n /\ i = m + a)
    BY <1>1
  <2>2. j \in 1 .. m \/ (b \in 1 .. n /\ j = m + b)
    BY <1>1
  <2> HIDE DEF a, b
  <2> QED BY <1>2, <1>3, <1>4, <2>1, <2>2
<1> QED BY <1>1, <1>4 DEF Distinct, w


LEMMA BlockFields ==
    ASSUME NEW b \in PoolBlock
    PROVE  b.time \in Nat /\ b.txs \in Seq(Tx)
BY DEF PoolBlock

\* flat[n] is what the first n blocks have.
Flattens(flat, bs) ==
    /\ flat[0] = << >>
    /\ \A n \in 1 .. Len(bs) : flat[n] = flat[n - 1] \o bs[n].txs

LEMMA FlatExists ==
    ASSUME NEW bs \in Seq(PoolBlock)
    PROVE  \E flat \in [0 .. Len(bs) -> Seq(Tx)] : Flattens(flat, bs)
<1> DEFINE N == Len(bs)
           F == [n \in 1 .. N |-> [r \in Seq(Tx) |-> r \o bs[n].txs]]
<1>1. N \in Nat /\ << >> \in Seq(Tx)
  OBVIOUS
<1>2. \A n \in 1 .. N : bs[n].txs \in Seq(Tx)
  BY BlockFields
<1>3. F \in [1 .. N -> [Seq(Tx) -> Seq(Tx)]]
  <2>1. \A r, q \in Seq(Tx) : r \o q \in Seq(Tx)
    OBVIOUS
  <2> QED BY <1>2, <2>1
<1>4. \A n \in 1 .. N, r \in Seq(Tx) : F[n][r] = r \o bs[n].txs
  OBVIOUS
<1>5. \A n \in 1 .. N : n - 1 \in 0 .. N
  OBVIOUS
<1> HIDE DEF N, F
<1>6. PICK h \in [0 .. N -> Seq(Tx)] : Follows(h, << >>, F, N)
  BY <1>1, <1>3, Recursion
<1>7. Flattens(h, bs)
  BY <1>4, <1>5, <1>6 DEF Follows, Flattens, N
<1> QED BY <1>6, <1>7 DEF N

LEMMA FlatIs ==
    ASSUME NEW bs \in Seq(PoolBlock), NEW flat \in [0 .. Len(bs) -> Seq(Tx)], Flattens(flat, bs)
    PROVE  TxsOf(bs) = flat[Len(bs)]
<1> DEFINE N == Len(bs)
           q == [i \in DOMAIN bs |-> bs[i].txs]
           Raw(g) == g = [i \in 1 .. N |-> IF i = 1 THEN q[i] ELSE g[i - 1] \o q[i]]
           g0 == [i \in 1 .. N |-> flat[i]]
<1>1. N \in Nat /\ DOMAIN bs = 1 .. N
  OBVIOUS
<1>2. \A n \in 1 .. N : bs[n].txs \in Seq(Tx) /\ q[n] = bs[n].txs
  BY BlockFields
<1>3. q \in Seq(Seq(Tx)) /\ Len(q) = N
  BY <1>1, <1>2
<1>4. flat[0] = << >> /\ \A n \in 1 .. N : flat[n] = flat[n - 1] \o q[n]
  BY <1>2 DEF Flattens
<1>5. TxsOf(bs) = FlattenSeq(q)
  BY DEF TxsOf
<1>a. N \in 0 .. N /\ flat \in [0 .. N -> Seq(Tx)]
  BY <1>1
<1>b. \A n \in 1 .. N : q[n] \in Seq(Tx)
  BY <1>2
<1> HIDE DEF N, q
<1>6. CASE N = 0
  <2>1. FlattenSeq(q) = q
    BY <1>3, <1>6 DEF FlattenSeq
  <2>2. q = << >>
    BY <1>3, <1>6
  <2> QED BY <1>4, <1>5, <1>6, <2>1, <2>2 DEF N
<1>7. CASE N # 0
  <2>1. FlattenSeq(q) = (CHOOSE g : Raw(g))[N]
    BY <1>3, <1>7 DEF FlattenSeq
  <2>2. flat[1] = q[1]
    <3>1. 1 \in 1 .. N /\ 1 - 1 = 0
      BY <1>1, <1>7
    <3>2. flat[1] = << >> \o q[1] /\ q[1] \in Seq(Tx)
      BY <1>4, <1>b, <3>1
    <3> QED BY <3>2
  <2>3. \A n \in 1 .. N : n = 1 \/ (n - 1 \in 1 .. N /\ n # 1)
    BY <1>1
  <2>4. Raw(g0)
    <3>1. \A n \in 1 .. N : g0[n] = flat[n]
      OBVIOUS
    <3>2. \A n \in 1 .. N : g0[n] = IF n = 1 THEN q[n] ELSE g0[n - 1] \o q[n]
      BY <1>4, <2>2, <2>3, <3>1
    <3> QED BY <3>2
  <2>5. ASSUME NEW g, Raw(g)
        PROVE  g[N] = flat[N]
    <3> DEFINE Z == {n \in 0 .. N : n # 0 => g[n] = flat[n]}
    <3>1. \A n \in 1 .. N : g[n] = IF n = 1 THEN q[n] ELSE g[n - 1] \o q[n]
      BY <2>5
    <3> HIDE DEF Raw
    <3>2. 0 \in Z
      BY <1>1
    <3>3. ASSUME NEW n \in 1 .. N, n - 1 \in Z
          PROVE  n \in Z
      <4>1. n \in 0 .. N
        BY <1>1
      <4>2. CASE n = 1
        BY <2>2, <3>1, <4>1, <4>2
      <4>3. CASE n # 1
        <5>1. n - 1 # 0
          BY <4>3
        <5>2. g[n - 1] = flat[n - 1]
          BY <3>3, <5>1
        <5> QED BY <1>4, <3>1, <4>1, <4>3, <5>2
      <4> QED BY <4>2, <4>3
    <3> HIDE DEF Z
    <3>4. N \in Z
      BY <1>1, <1>a, <3>2, <3>3, Upwards
    <3> QED BY <1>7, <3>4 DEF Z
  <2>6. Raw(CHOOSE g : Raw(g))
    <3> HIDE DEF Raw
    <3> QED BY <2>4
  <2>7. (CHOOSE g : Raw(g))[N] = flat[N]
    <3> HIDE DEF Raw
    <3> QED BY <2>5, <2>6
  <2> QED BY <1>5, <2>1, <2>7 DEF N
<1> QED BY <1>6, <1>7

\* A block that applies makes of a state what its transactions make of it.
LEMMA AfterBlockType ==
    ASSUME NEW st \in State, NEW b \in PoolBlock
    PROVE  /\ AfterBlock(st, b) \in State
           /\ b.time \in Nat /\ b.txs \in Seq(Tx)
           /\ AfterBlock(st, b).num = st.num + 1 /\ AfterBlock(st, b).time = b.time
           /\ AfterBlock(st, b).applied = Run(st, b.txs).st.applied
           /\ AfterBlock(st, b).dedupe = NotExpired(Run(st, b.txs).st.dedupe, b.time)
<1> DEFINE done == Run(st, b.txs).st
<1>1. b.time \in Nat /\ b.txs \in Seq(Tx) /\ st.num \in Nat
  BY StateFields DEF PoolBlock
<1>2. PICK h \in [0 .. Len(b.txs) -> RunResult] : Runs(h, st, b.txs)
  BY <1>1, RunExists
<1>3. Len(b.txs) \in Nat /\ Len(b.txs) \in 0 .. Len(b.txs) /\ Run(st, b.txs) = h[Len(b.txs)]
  BY <1>1, <1>2, RunIs
<1>4. done \in State
  BY <1>2, <1>3, RunResultFields
<1>5. AfterBlock(st, b) = [num |-> st.num + 1, time |-> b.time, applied |-> done.applied,
                             dedupe |-> NotExpired(done.dedupe, b.time)]
  BY DEF AfterBlock
<1> HIDE DEF done
<1>6. NotExpired(done.dedupe, b.time) \subseteq Tx /\ done.applied \subseteq Tx
  BY <1>4, StateFields DEF NotExpired
<1> QED BY <1>1, <1>5, <1>6 DEF State, done

LEMMA AfterBlockFacts ==
    ASSUME PoolConstants, NEW st \in State, NEW b \in PoolBlock, BlockApplies(st, b)
    PROVE  LET s == AfterBlock(st, b) IN
           /\ s.applied = st.applied \cup All(b.txs)
           /\ Ordered(st.applied, b.txs)
           /\ Fresh(st) => Fresh(s) /\ Distinct(b.txs) /\ st.applied \cap All(b.txs) = {}
<1> DEFINE s == AfterBlock(st, b)
           r == Run(st, b.txs).st
<1>1. b.txs \in Seq(Tx) /\ Run(st, b.txs).ok /\ st.time < b.time
  BY DEF BlockApplies, PoolBlock
<1>2. /\ r \in State /\ r.num = st.num /\ r.time = st.time
      /\ r.applied = st.applied \cup All(b.txs)
      /\ Ordered(st.applied, b.txs)
      /\ Fresh(st) => /\ Fresh(r) /\ Distinct(b.txs) /\ st.applied \cap All(b.txs) = {}
  BY <1>1, RunOk DEF All
<1>3. /\ s \in State /\ b.time \in Nat /\ s.num = st.num + 1 /\ s.time = b.time
      /\ s.applied = r.applied /\ s.dedupe = NotExpired(r.dedupe, b.time)
  BY AfterBlockType
<1> HIDE DEF s, r
<1>4. ASSUME Fresh(r)
      PROVE  Fresh(s)
  <2>1. s.dedupe \subseteq s.applied
    BY <1>3, <1>4 DEF Fresh, NotExpired
  <2>2. st.num \in Nat /\ st.time \in Nat
    BY StateFields
  <2>3. s.num > 0
    BY <1>3, <2>2
  <2>4. ASSUME NEW t \in s.applied, t \notin s.dedupe
        PROVE  s.time > Expiration[t]
    <3>1. t \in Tx /\ t \in r.applied
      BY <1>3, StateFields
    <3>2. Expiration[t] \in Nat
      BY <3>1, PoolNumbers
    <3>3. CASE t \in r.dedupe
      BY <1>3, <2>4, <3>3 DEF NotExpired
    <3>4. CASE t \notin r.dedupe
      <4>1. r.time > Expiration[t]
        BY <1>4, <3>1, <3>4 DEF Fresh
      <4> HIDE DEF BlockApplies
      <4>2. st.time > Expiration[t] /\ st.time < b.time
        BY <1>1, <1>2, <4>1
      <4>3. \A x, y, z \in Nat : x > y /\ x < z => z > y
        OBVIOUS
      <4>4. b.time > Expiration[t]
        BY <1>3, <2>2, <3>2, <4>2, <4>3
      <4> QED BY <1>3, <4>4
    <3> QED BY <3>3, <3>4
  <2> QED BY <2>1, <2>3, <2>4 DEF Fresh
<1> QED BY <1>2, <1>3, <1>4 DEF s


\* ss are the states before, between and after the blocks bs.
Chained(bs, ss) ==
    /\ Len(ss) = Len(bs) + 1
    /\ \A i \in 1 .. Len(bs) : BlockApplies(ss[i], bs[i]) /\ ss[i + 1] = AfterBlock(ss[i], bs[i])

\* What the first n blocks of a chain have made of the state.
ChainedTo(bs, ss, flat, n) ==
    /\ ss[n + 1].applied = ss[1].applied \cup All(flat[n])
    /\ Ordered(ss[1].applied, flat[n])
    /\ Fresh(ss[1]) => /\ Fresh(ss[n + 1]) /\ Distinct(flat[n])
                       /\ ss[1].applied \cap All(flat[n]) = {}

LEMMA ChainedAlong ==
    ASSUME PoolConstants, NEW bs \in Seq(PoolBlock), NEW ss \in Seq(State), Chained(bs, ss),
           NEW flat \in [0 .. Len(bs) -> Seq(Tx)], Flattens(flat, bs)
    PROVE  \A n \in 0 .. Len(bs) : ChainedTo(bs, ss, flat, n)
<1> DEFINE N == Len(bs)
           Z == {n \in 0 .. N : ChainedTo(bs, ss, flat, n)}
<1>1. N \in Nat /\ flat \in [0 .. N -> Seq(Tx)] /\ Len(ss) = N + 1
  BY DEF Chained
<1>2. /\ \A i \in 1 .. N : BlockApplies(ss[i], bs[i]) /\ ss[i + 1] = AfterBlock(ss[i], bs[i])
      /\ flat[0] = << >> /\ \A n \in 1 .. N : flat[n] = flat[n - 1] \o bs[n].txs
  BY DEF Chained, Flattens
<1>3. \A i \in 1 .. N : bs[i] \in PoolBlock
  OBVIOUS
<1>4. \A i \in 1 .. N + 1 : ss[i] \in State
  BY <1>1
<1> HIDE DEF N
<1>5. 0 \in Z
  <2>1. All(<< >>) = {} /\ Ordered(ss[1].applied, << >>) /\ Distinct(<< >>)
    BY DEF All, FirstOf, Ordered, Distinct
  <2>2. 0 + 1 = 1
    OBVIOUS
  <2>3. ChainedTo(bs, ss, flat, 0)
    BY <1>2, <2>1, <2>2 DEF ChainedTo
  <2> QED BY <1>1, <2>3
<1>6. ASSUME NEW n \in 1 .. N, n - 1 \in Z
      PROVE  n \in Z
  <2> DEFINE f == flat[n - 1]
             b == bs[n]
             u == b.txs
             st == ss[n]
             s == ss[n + 1]
             A == ss[1].applied
  <2>1. n \in 0 .. N /\ n - 1 \in 0 .. N /\ n - 1 + 1 = n /\ n \in 1 .. N + 1
    BY <1>1
  <2>2. f \in Seq(Tx) /\ b \in PoolBlock /\ st \in State /\ u \in Seq(Tx)
    BY <1>1, <1>3, <1>4, <2>1, BlockFields
  <2>3. BlockApplies(st, b) /\ s = AfterBlock(st, b) /\ flat[n] = f \o u
    BY <1>2
  <2>4. ChainedTo(bs, ss, flat, n - 1)
    BY <1>6
  <2>5. /\ st.applied = A \cup All(f)
        /\ Ordered(A, f)
        /\ Fresh(ss[1]) => Fresh(st) /\ Distinct(f) /\ A \cap All(f) = {}
    BY <2>1, <2>4 DEF ChainedTo
  <2>6. /\ s.applied = st.applied \cup All(u)
        /\ Ordered(st.applied, u)
        /\ Fresh(st) => Fresh(s) /\ Distinct(u) /\ st.applied \cap All(u) = {}
    BY <2>2, <2>3, AfterBlockFacts
  <2> HIDE DEF f, b, u, st, s, A
  <2>7. All(f \o u) = All(f) \cup All(u)
    BY <2>2, Joined
  <2>8. Ordered(A, f \o u)
    <3>1. Ordered(A \cup All(f), u)
      BY <2>5, <2>6
    <3> QED BY <2>2, <2>5, <3>1, JoinedOrdered
  <2>9. ASSUME Fresh(ss[1])
        PROVE  Fresh(s) /\ Distinct(f \o u) /\ A \cap All(f \o u) = {}
    <3>1. Fresh(s) /\ Distinct(u) /\ st.applied \cap All(u) = {} /\ Distinct(f) /\ A \cap All(f) = {}
      BY <2>5, <2>6, <2>9
    <3>2. All(f) \cap All(u) = {} /\ A \cap All(u) = {}
      BY <2>5, <3>1
    <3>3. Distinct(f \o u)
      BY <2>2, <3>1, <3>2, JoinedDistinct
    <3> QED BY <2>7, <3>1, <3>2, <3>3
  <2>10. s.applied = A \cup All(f \o u)
    BY <2>5, <2>6, <2>7
  <2>11. ChainedTo(bs, ss, flat, n)
    BY <2>3, <2>8, <2>9, <2>10 DEF ChainedTo, A, s
  <2> QED BY <2>1, <2>11
<1> HIDE DEF Z
<1>7. \A n \in 0 .. N : n \in Z
  BY <1>1, <1>5, <1>6, Upwards
<1> QED BY <1>7 DEF Z, N

\* What a chain has made of the state, in terms of its transactions.
LEMMA ChainedFacts ==
    ASSUME PoolConstants, NEW bs \in Seq(PoolBlock), NEW ss \in Seq(State), Chained(bs, ss)
    PROVE  /\ TxsOf(bs) \in Seq(Tx)
           /\ ss[1] \in State /\ ss[Len(ss)] \in State
           /\ ss[Len(ss)].applied = ss[1].applied \cup All(TxsOf(bs))
           /\ Ordered(ss[1].applied, TxsOf(bs))
           /\ Fresh(ss[1]) => Fresh(ss[Len(ss)]) /\ Distinct(TxsOf(bs))
<1>1. PICK flat \in [0 .. Len(bs) -> Seq(Tx)] : Flattens(flat, bs)
  BY FlatExists
<1>2. Len(bs) \in Nat /\ Len(bs) \in 0 .. Len(bs) /\ Len(ss) = Len(bs) + 1
  BY DEF Chained
<1>3. TxsOf(bs) = flat[Len(bs)]
  BY <1>1, FlatIs
<1>4. ChainedTo(bs, ss, flat, Len(bs))
  BY <1>1, <1>2, ChainedAlong
<1>5. flat[Len(bs)] \in Seq(Tx)
  BY <1>1, <1>2
<1>6. ss[1] \in State /\ ss[Len(bs) + 1] \in State
  <2>1. 1 \in 1 .. Len(ss) /\ Len(bs) + 1 \in 1 .. Len(ss)
    BY <1>2
  <2> QED BY <2>1
<1> QED BY <1>2, <1>3, <1>4, <1>5, <1>6 DEF ChainedTo

\* The transactions of a list of blocks are those of its blocks.
LEMMA TxsOfMembers ==
    ASSUME NEW bs \in Seq(PoolBlock)
    PROVE  /\ TxsOf(bs) \in Seq(Tx)
           /\ \A t : t \in All(TxsOf(bs)) <=> \E i \in 1 .. Len(bs) : t \in All(bs[i].txs)
<1>1. PICK flat \in [0 .. Len(bs) -> Seq(Tx)] : Flattens(flat, bs)
  BY FlatExists
<1> DEFINE N == Len(bs)
           Z == {n \in 0 .. N : \A t : t \in All(flat[n]) <=> \E i \in 1 .. n : t \in All(bs[i].txs)}
<1>2. N \in Nat /\ N \in 0 .. N /\ TxsOf(bs) = flat[N] /\ flat[N] \in Seq(Tx)
  BY <1>1, FlatIs
<1>3. flat[0] = << >> /\ \A n \in 1 .. N : flat[n] = flat[n - 1] \o bs[n].txs
  BY <1>1 DEF Flattens
<1>4. \A n \in 1 .. N : bs[n].txs \in Seq(Tx) /\ n - 1 \in 0 .. N /\ n \in 0 .. N
  BY BlockFields
<1>5. \A n \in 0 .. N : flat[n] \in Seq(Tx)
  BY <1>1
<1> HIDE DEF N
<1>6. 0 \in Z
  <2>1. All(<< >>) = {}
    BY DEF All, FirstOf
  <2> QED BY <1>2, <1>3, <2>1
<1>7. ASSUME NEW n \in 1 .. N, n - 1 \in Z
      PROVE  n \in Z
  <2>1. All(flat[n]) = All(flat[n - 1]) \cup All(bs[n].txs)
    <3> DEFINE u == flat[n - 1]
               v == bs[n].txs
    <3>1. u \in Seq(Tx) /\ v \in Seq(Tx) /\ flat[n] = u \o v
      BY <1>3, <1>4, <1>5
    <3> HIDE DEF u, v
    <3>2. All(u \o v) = All(u) \cup All(v)
      BY <3>1, Joined
    <3> QED BY <3>1, <3>2 DEF u, v
  <2>2. \A i : i \in 1 .. n <=> i \in 1 .. n - 1 \/ i = n
    BY <1>2
  <2>3. \A t : t \in All(flat[n - 1]) <=> \E i \in 1 .. n - 1 : t \in All(bs[i].txs)
    BY <1>7
  <2>4. \A t : t \in All(flat[n]) <=> \E i \in 1 .. n : t \in All(bs[i].txs)
    BY <2>1, <2>2, <2>3
  <2> QED BY <1>4, <2>4
<1> HIDE DEF Z
<1>8. N \in Z
  BY <1>2, <1>6, <1>7, Upwards
<1> QED BY <1>2, <1>8 DEF Z, N


-----------------------------------------------------------------------------
(* The blocks of a branch, up to the first that fails.                     *)

BlocksStep(r, b) ==
    IF r.ok /\ BlockApplies(Last(r.seq), b)
    THEN [r EXCEPT !.seq = Append(@, AfterBlock(Last(@), b))]
    ELSE [r EXCEPT !.ok = FALSE]

\* There is a state to begin with.
StateList == {q \in Seq(State) : Len(q) > 0}
BlocksResult == [ok : BOOLEAN, seq : StateList]

LEMMA BlocksResultFields ==
    /\ \A r \in BlocksResult : r.ok \in BOOLEAN /\ r.seq \in StateList
    /\ \A o \in BOOLEAN, q \in StateList :
          /\ [ok |-> o, seq |-> q] \in BlocksResult
          /\ [ok |-> o, seq |-> q].ok = o /\ [ok |-> o, seq |-> q].seq = q
BY DEF BlocksResult

LEMMA StateListFacts ==
    ASSUME NEW q \in StateList
    PROVE  /\ q \in Seq(State) /\ Len(q) \in Nat /\ Len(q) > 0
           /\ Last(q) = q[Len(q)] /\ Last(q) \in State
           /\ \A s \in State : Append(q, s) \in StateList /\ Last(Append(q, s)) = s
BY DEF StateList, Last

LEMMA BlocksStepType ==
    ASSUME NEW r \in BlocksResult, NEW b \in PoolBlock
    PROVE  /\ BlocksStep(r, b) \in BlocksResult
           /\ r.ok /\ BlockApplies(Last(r.seq), b)
                 => BlocksStep(r, b) = [ok |-> TRUE, seq |-> Append(r.seq, AfterBlock(Last(r.seq), b))]
           /\ ~(r.ok /\ BlockApplies(Last(r.seq), b))
                 => BlocksStep(r, b) = [ok |-> FALSE, seq |-> r.seq]
<1> DEFINE q == Append(r.seq, AfterBlock(Last(r.seq), b))
<1>1. r.ok \in BOOLEAN /\ r.seq \in StateList
  BY BlocksResultFields
<1>2. q \in StateList
  BY <1>1, StateListFacts, AfterBlockType
<1>3. CASE r.ok /\ BlockApplies(Last(r.seq), b)
  <2>1. BlocksStep(r, b) = [r EXCEPT !.seq = q]
    BY <1>3 DEF BlocksStep
  <2> HIDE DEF q
  <2>2. [r EXCEPT !.seq = q] = [ok |-> r.ok, seq |-> q]
    BY DEF BlocksResult
  <2>3. r.ok = TRUE
    BY <1>1, <1>3
  <2>4. BlocksStep(r, b) = [ok |-> TRUE, seq |-> q]
    BY <2>1, <2>2, <2>3
  <2>5. [ok |-> TRUE, seq |-> q] \in BlocksResult
    BY <1>2, BlocksResultFields
  <2> QED BY <1>3, <2>4, <2>5 DEF q
<1>4. CASE ~(r.ok /\ BlockApplies(Last(r.seq), b))
  <2>1. BlocksStep(r, b) = [r EXCEPT !.ok = FALSE]
    BY <1>4, Zenon DEF BlocksStep
  <2>2. [r EXCEPT !.ok = FALSE] = [ok |-> FALSE, seq |-> r.seq]
    <3> DEFINE e == FALSE
    <3> HIDE DEF e
    <3>1. [r EXCEPT !.ok = e] = [ok |-> e, seq |-> r.seq]
      BY DEF BlocksResult
    <3> QED BY <3>1 DEF e
  <2>3. [ok |-> FALSE, seq |-> r.seq] \in BlocksResult
    BY <1>1, BlocksResultFields
  <2> QED BY <1>4, <2>1, <2>2, <2>3
<1> QED BY <1>3, <1>4

RunsBlocks(h, st, bs) ==
    /\ h[0] = [ok |-> TRUE, seq |-> <<st>>]
    /\ \A n \in 1 .. Len(bs) : h[n] = BlocksStep(h[n - 1], bs[n])

\* The fold of RunBlocks goes by these steps.
LEMMA RunBlocksIs ==
    ASSUME NEW st \in State, NEW bs \in Seq(PoolBlock)
    PROVE  \E h \in [0 .. Len(bs) -> BlocksResult] :
              RunsBlocks(h, st, bs) /\ RunBlocks(st, bs) = h[Len(bs)]
<1> DEFINE N == Len(bs)
           D == DOMAIN bs
           b == [ok |-> TRUE, seq |-> <<st>>]
           Raw(g) == g = [s \in SUBSET D |->
                            IF s = {} THEN b ELSE BlocksStep(g[s \ {LargestOf(s)}], bs[LargestOf(s)])]
           F == [n \in 1 .. N |-> [r \in BlocksResult |-> BlocksStep(r, bs[n])]]
<1>1. RunBlocks(st, bs) = (CHOOSE g : Raw(g))[D]
  BY DEF RunBlocks, FoldLeft, MapThenFoldSet, Max, LargestOf, BlocksStep
<1>2. N \in Nat /\ D = 1 .. N /\ \A n \in 1 .. N : bs[n] \in PoolBlock /\ n - 1 \in 0 .. N
  OBVIOUS
<1>3. b \in BlocksResult
  <2>1. <<st>> \in StateList
    BY DEF StateList
  <2> QED BY <2>1, BlocksResultFields
<1>4. F \in [1 .. N -> [BlocksResult -> BlocksResult]]
  BY <1>2, BlocksStepType
<1>5. \A n \in 1 .. N, r \in BlocksResult : F[n][r] = BlocksStep(r, bs[n])
  OBVIOUS
<1> HIDE DEF N, D, F, b
<1>6. PICK g0 \in [SUBSET (1 .. N) -> BlocksResult] : FoldsOver(g0, b, F, N)
  BY <1>2, <1>3, <1>4, FoldExists
<1>a. PICK h \in [0 .. N -> BlocksResult] : Follows(h, b, F, N)
  BY <1>2, <1>3, <1>4, Recursion
<1>b. RunsBlocks(h, st, bs)
  <2>1. \A n \in 1 .. N : h[n] = BlocksStep(h[n - 1], bs[n])
    BY <1>2, <1>5, <1>a DEF Follows
  <2> QED BY <1>a, <2>1 DEF RunsBlocks, Follows, N, b
<1>7. Raw(g0)
  <2>1. ASSUME NEW s \in SUBSET D
        PROVE  g0[s] = IF s = {} THEN b ELSE BlocksStep(g0[s \ {LargestOf(s)}], bs[LargestOf(s)])
    <3>1. CASE s = {}
      BY <1>2, <1>6, <3>1 DEF FoldsOver
    <3>2. CASE s # {}
      <4>1. LargestOf(s) \in 1 .. N /\ s \ {LargestOf(s)} \in SUBSET (1 .. N)
        BY <1>2, <3>2, LargestIs
      <4>2. g0[s] = F[LargestOf(s)][g0[s \ {LargestOf(s)}]]
        BY <1>2, <1>6, <3>2 DEF FoldsOver
      <4> QED BY <1>5, <3>2, <4>1, <4>2
    <3> QED BY <3>1, <3>2
  <2> QED BY <1>2, <2>1
<1>8. ASSUME NEW g, Raw(g)
      PROVE  g[D] = h[N]
  <2>1. \A s \in SUBSET D : g[s] = IF s = {} THEN b ELSE BlocksStep(g[s \ {LargestOf(s)}], bs[LargestOf(s)])
    BY <1>8
  <2> HIDE DEF Raw
  <2>2. g[{}] = h[0]
    BY <1>b, <2>1 DEF RunsBlocks, b
  <2>3. ASSUME NEW n \in 1 .. N, g[1 .. n - 1] = h[n - 1]
        PROVE  g[1 .. n] = h[n]
    <3>1. n \in Nat /\ n # 0 /\ 1 .. n \in SUBSET D
      BY <1>2
    <3>2. g[1 .. n] = BlocksStep(g[1 .. n - 1], bs[n])
      BY <2>1, <3>1, LargestUpTo
    <3>3. h[n] = BlocksStep(h[n - 1], bs[n])
      BY <1>b DEF RunsBlocks, N
    <3> QED BY <2>3, <3>2, <3>3
  <2> QED BY <1>2, <2>2, <2>3, FoldAlong
<1>9. Raw(CHOOSE g : Raw(g))
  <2> HIDE DEF Raw
  <2> QED BY <1>7
<1>10. (CHOOSE g : Raw(g))[D] = h[N]
  <2> HIDE DEF Raw
  <2> QED BY <1>8, <1>9
<1> QED BY <1>1, <1>10, <1>b DEF N


\* What the first n blocks of a branch have come to.
BlocksTo(h, st, bs, n) ==
    LET q == h[n].seq IN
    /\ q[1] = st
    /\ Len(q) <= n + 1
    /\ h[n].ok => Len(q) = n + 1
    /\ \A i \in 1 .. Len(q) - 1 : BlockApplies(q[i], bs[i]) /\ q[i + 1] = AfterBlock(q[i], bs[i])

LEMMA RunBlocksFacts ==
    ASSUME NEW st \in State, NEW bs \in Seq(PoolBlock)
    PROVE  LET r == RunBlocks(st, bs) IN
           /\ r.ok \in BOOLEAN /\ r.seq \in StateList
           /\ r.seq[1] = st /\ Len(r.seq) - 1 \in 0 .. Len(bs)
           /\ r.ok => Len(r.seq) = Len(bs) + 1
           /\ \A i \in 1 .. Len(r.seq) - 1 :
                 BlockApplies(r.seq[i], bs[i]) /\ r.seq[i + 1] = AfterBlock(r.seq[i], bs[i])
<1> DEFINE N == Len(bs)
<1>1. PICK h \in [0 .. N -> BlocksResult] : RunsBlocks(h, st, bs) /\ RunBlocks(st, bs) = h[N]
  BY RunBlocksIs
<1>2. N \in Nat /\ N \in 0 .. N /\ \A n \in 1 .. N : bs[n] \in PoolBlock /\ n - 1 \in 0 .. N /\ n \in 0 .. N
  OBVIOUS
<1>3. h[0] = [ok |-> TRUE, seq |-> <<st>>] /\ \A n \in 1 .. N : h[n] = BlocksStep(h[n - 1], bs[n])
  BY <1>1 DEF RunsBlocks
<1>4. \A n \in 0 .. N : h[n] \in BlocksResult /\ h[n].seq \in StateList /\ h[n].ok \in BOOLEAN
  BY <1>1, BlocksResultFields
<1> DEFINE Z == {n \in 0 .. N : BlocksTo(h, st, bs, n)}
<1> HIDE DEF N
<1>5. 0 \in Z
  <2>1. h[0].seq = <<st>>
    BY <1>3
  <2>2. <<st>>[1] = st /\ Len(<<st>>) = 0 + 1 /\ 0 + 1 <= 0 + 1 /\ \A i \in 1 .. Len(<<st>>) - 1 : FALSE
    OBVIOUS
  <2>3. BlocksTo(h, st, bs, 0)
    BY <2>1, <2>2 DEF BlocksTo
  <2> QED BY <1>2, <2>3
<1>6. ASSUME NEW n \in 1 .. N, n - 1 \in Z
      PROVE  n \in Z
  <2> DEFINE r == h[n - 1]
             q == r.seq
             b == bs[n]
             s == AfterBlock(Last(q), b)
             L == Len(q)
  <2>1. r \in BlocksResult /\ b \in PoolBlock /\ h[n] = BlocksStep(r, b) /\ n \in 0 .. N /\ n \in Nat /\ n # 0
    BY <1>2, <1>3, <1>4
  <2>2. q \in StateList /\ q \in Seq(State) /\ L \in Nat /\ L > 0 /\ Last(q) = q[L] /\ Last(q) \in State
    BY <1>2, <1>4, StateListFacts
  <2>3. BlocksTo(h, st, bs, n - 1)
    BY <1>6
  <2>4. /\ q[1] = st /\ L <= n - 1 + 1 /\ (r.ok => L = n - 1 + 1)
        /\ \A i \in 1 .. L - 1 : BlockApplies(q[i], bs[i]) /\ q[i + 1] = AfterBlock(q[i], bs[i])
    BY <2>3 DEF BlocksTo
  <2>5. CASE ~(r.ok /\ BlockApplies(Last(q), b))
    <3>1. h[n] = [ok |-> FALSE, seq |-> q]
      BY <2>1, <2>5, BlocksStepType
    <3>2. h[n].seq = q /\ ~h[n].ok
      BY <3>1
    <3> HIDE DEF r, q, L
    <3>3. L <= n + 1
      BY <2>1, <2>2, <2>4
    <3>4. BlocksTo(h, st, bs, n)
      BY <2>4, <3>2, <3>3 DEF BlocksTo, L
    <3> QED BY <2>1, <3>4
  <2>6. CASE r.ok /\ BlockApplies(Last(q), b)
    <3> DEFINE p == Append(q, s)
    <3>1. h[n] = [ok |-> TRUE, seq |-> p]
      BY <2>1, <2>6, BlocksStepType
    <3>2. h[n].seq = p
      BY <3>1
    <3>3. s \in State
      BY <2>1, <2>2, AfterBlockType
    <3> HIDE DEF s, q
    <3>4. Len(p) = L + 1 /\ p[L + 1] = s /\ \A i \in 1 .. L : p[i] = q[i]
      BY <2>2, <3>3
    <3>5. L = n /\ L + 1 = n + 1 /\ Len(p) - 1 = L /\ n + 1 <= n + 1
      BY <2>1, <2>2, <2>4, <2>6, <3>4
    <3> HIDE DEF p, L
    <3>6. p[1] = st
      <4>1. 1 \in 1 .. L
        BY <2>2
      <4>2. p[1] = q[1]
        BY <3>4, <4>1
      <4> QED BY <2>4, <4>2
    <3>7. ASSUME NEW i \in 1 .. L
          PROVE  BlockApplies(p[i], bs[i]) /\ p[i + 1] = AfterBlock(p[i], bs[i])
      <4>1. CASE i = L
        <5>1. p[i] = Last(q) /\ bs[i] = b /\ p[i + 1] = s
          BY <2>2, <3>4, <3>5, <4>1
        <5> QED BY <2>6, <5>1 DEF s
      <4>2. CASE i # L
        <5>1. i \in 1 .. L - 1 /\ i + 1 \in 1 .. L
          BY <2>2, <4>2
        <5> QED BY <2>4, <3>4, <5>1
      <4> QED BY <4>1, <4>2
    <3>8. BlocksTo(h, st, bs, n)
      BY <3>2, <3>4, <3>5, <3>6, <3>7 DEF BlocksTo
    <3> QED BY <2>1, <3>8
  <2> QED BY <2>5, <2>6
<1> HIDE DEF Z
<1>7. BlocksTo(h, st, bs, N)
  BY <1>2, <1>5, <1>6, Upwards DEF Z
<1>8. h[N].seq \in StateList /\ h[N].ok \in BOOLEAN /\ Len(h[N].seq) \in Nat /\ Len(h[N].seq) > 0
  BY <1>2, <1>4, StateListFacts
<1>9. /\ h[N].seq[1] = st /\ Len(h[N].seq) <= N + 1 /\ (h[N].ok => Len(h[N].seq) = N + 1)
      /\ \A i \in 1 .. Len(h[N].seq) - 1 : /\ BlockApplies(h[N].seq[i], bs[i])
                                          /\ h[N].seq[i + 1] = AfterBlock(h[N].seq[i], bs[i])
  BY <1>7 DEF BlocksTo
<1>10. Len(h[N].seq) - 1 \in 0 .. N
  <2> DEFINE L == Len(h[N].seq)
  <2>1. L \in Nat /\ L > 0 /\ L <= N + 1
    BY <1>8, <1>9
  <2> HIDE DEF L
  <2>2. L - 1 \in 0 .. N
    BY <1>2, <2>1
  <2> QED BY <2>2 DEF L
<1> QED BY <1>1, <1>8, <1>9, <1>10 DEF N


\* The chain below its n-th block, with another branch on top.
SwitchedTo(bs, ss, n, cs, q) ==
    /\ SubSeq(bs, 1, n) \o cs \in Seq(PoolBlock)
    /\ SubSeq(ss, 1, n) \o q \in Seq(State)
    /\ Chained(SubSeq(bs, 1, n) \o cs, SubSeq(ss, 1, n) \o q)
    /\ Len(SubSeq(ss, 1, n) \o q) = n + Len(q)
    /\ (SubSeq(ss, 1, n) \o q)[n + Len(q)] = q[Len(q)]
    /\ (SubSeq(ss, 1, n) \o q)[1] = ss[1]

LEMMA Switched ==
    ASSUME NEW bs \in Seq(PoolBlock), NEW ss \in Seq(State), Chained(bs, ss),
           NEW n \in 0 .. Len(bs), NEW cs \in Seq(PoolBlock), NEW q \in Seq(State),
           Chained(cs, q), q[1] = ss[n + 1]
    PROVE  SwitchedTo(bs, ss, n, cs, q)
<1> DEFINE N == Len(bs)
           M == Len(cs)
           bl == SubSeq(bs, 1, n)
           sl == SubSeq(ss, 1, n)
           b == bl \o cs
           s == sl \o q
<1>1. N \in Nat /\ M \in Nat /\ n \in Nat /\ n <= N /\ Len(ss) = N + 1 /\ Len(q) = M + 1
  BY DEF Chained
<1>2. bl \in Seq(PoolBlock) /\ Len(bl) = n /\ \A i \in 1 .. n : bl[i] = bs[i]
  <2>1. 1 \in 1 .. Len(bs) + 1 /\ n \in 1 - 1 .. Len(bs) /\ n - 1 + 1 = n /\ \A i \in 1 .. n : 1 + i - 1 = i
    BY <1>1
  <2> QED BY <2>1, PartOfSeq
<1>3. sl \in Seq(State) /\ Len(sl) = n /\ \A i \in 1 .. n : sl[i] = ss[i]
  <2>1. 1 \in 1 .. Len(ss) + 1 /\ n \in 1 - 1 .. Len(ss) /\ n - 1 + 1 = n /\ \A i \in 1 .. n : 1 + i - 1 = i
    BY <1>1
  <2> QED BY <2>1, PartOfSeq
<1>4. \A i \in 1 .. N : BlockApplies(ss[i], bs[i]) /\ ss[i + 1] = AfterBlock(ss[i], bs[i])
  BY DEF Chained
<1>5. \A i \in 1 .. M : BlockApplies(q[i], cs[i]) /\ q[i + 1] = AfterBlock(q[i], cs[i])
  BY DEF Chained
<1> HIDE DEF bl, sl
<1>6. /\ b \in Seq(PoolBlock) /\ Len(b) = n + M
      /\ \A i \in 1 .. n : b[i] = bl[i]
      /\ \A i \in 1 .. M : b[n + i] = cs[i]
  <2>1. b \in Seq(PoolBlock) /\ JoinOf(b, bl, cs)
    BY <1>2, JoinedSeq
  <2> HIDE DEF b
  <2> QED BY <1>2, <2>1 DEF JoinOf
<1>7. /\ s \in Seq(State) /\ Len(s) = n + Len(q)
      /\ \A i \in 1 .. n : s[i] = sl[i]
      /\ \A i \in 1 .. Len(q) : s[n + i] = q[i]
  <2>1. s \in Seq(State) /\ JoinOf(s, sl, q)
    BY <1>3, JoinedSeq
  <2> HIDE DEF s
  <2> QED BY <1>3, <2>1 DEF JoinOf
<1> HIDE DEF b, s, N, M
<1>8. /\ Len(s) = Len(b) + 1
      /\ \A i \in 1 .. n : s[i] = ss[i] /\ b[i] = bs[i] /\ i \in 1 .. N
      /\ \A i \in 1 .. M : s[n + i] = q[i] /\ s[n + i + 1] = q[i + 1] /\ b[n + i] = cs[i]
      /\ s[n + 1] = ss[n + 1]
  <2>1. \A i \in 1 .. M : i \in 1 .. Len(q) /\ i + 1 \in 1 .. Len(q) /\ n + i + 1 = n + (i + 1)
    BY <1>1
  <2>2. 1 \in 1 .. Len(q) /\ \A i \in 1 .. n : i \in 1 .. N
    BY <1>1
  <2>3. Len(s) = Len(b) + 1
    BY <1>1, <1>6, <1>7, SMTT(30)
  <2>4. \A i \in 1 .. n : s[i] = ss[i] /\ b[i] = bs[i]
    BY <1>2, <1>3, <1>6, <1>7
  <2>5. \A i \in 1 .. M : s[n + i] = q[i] /\ s[n + i + 1] = q[i + 1] /\ b[n + i] = cs[i]
    BY <1>6, <1>7, <2>1
  <2>6. s[n + 1] = q[1]
    BY <1>7, <2>2
  <2> QED BY <2>2, <2>3, <2>4, <2>5, <2>6
<1>9. ASSUME NEW i \in 1 .. n + M
      PROVE  BlockApplies(s[i], b[i]) /\ s[i + 1] = AfterBlock(s[i], b[i])
  <2>1. CASE i \in 1 .. n
    <3>1. i + 1 \in 1 .. n \/ i + 1 = n + 1
      BY <1>1, <2>1
    <3>2. s[i + 1] = ss[i + 1]
      BY <1>8, <3>1
    <3> QED BY <1>4, <1>8, <2>1, <3>2
  <2>2. CASE i \notin 1 .. n
    <3> DEFINE k == i - n
    <3>1. k \in 1 .. M /\ i = n + k /\ i + 1 = n + k + 1
      BY <1>1, <2>2
    <3> HIDE DEF k
    <3> QED BY <1>5, <1>8, <3>1
  <2> QED BY <2>1, <2>2
<1>10. Chained(b, s)
  BY <1>6, <1>8, <1>9 DEF Chained
<1>11. s[n + Len(q)] = q[Len(q)]
  <2>1. Len(q) \in 1 .. Len(q)
    BY <1>1
  <2> QED BY <1>7, <2>1
<1>12. s[1] = ss[1]
  <2>1. CASE n = 0
    <3>1. n + 1 = 1
      BY <2>1
    <3> QED BY <1>8, <3>1
  <2>2. CASE n # 0
    <3>1. 1 \in 1 .. n
      BY <1>1, <2>2
    <3> QED BY <1>8, <3>1
  <2> QED BY <2>1, <2>2
<1> QED BY <1>6, <1>7, <1>10, <1>11, <1>12 DEF b, s, bl, sl, SwitchedTo

\* A part of a chain is one.
LEMMA PartChained ==
    ASSUME NEW bs \in Seq(PoolBlock), NEW ss \in Seq(State), Chained(bs, ss),
           NEW m \in 1 .. Len(bs) + 1, NEW n \in m - 1 .. Len(bs)
    PROVE  /\ SubSeq(bs, m, n) \in Seq(PoolBlock) /\ SubSeq(ss, m, n + 1) \in Seq(State)
           /\ Chained(SubSeq(bs, m, n), SubSeq(ss, m, n + 1))
           /\ SubSeq(ss, m, n + 1)[1] = ss[m]
           /\ Len(SubSeq(ss, m, n + 1)) = n - m + 2
           /\ SubSeq(ss, m, n + 1)[n - m + 2] = ss[n + 1]
<1> DEFINE N == Len(bs)
           b == SubSeq(bs, m, n)
           s == SubSeq(ss, m, n + 1)
           k == n - m + 1
<1>1. N \in Nat /\ m \in Nat /\ n \in Nat /\ k \in Nat /\ 1 <= m /\ m <= n + 1 /\ n <= N /\ Len(ss) = N + 1
  BY DEF Chained
<1>2. b \in Seq(PoolBlock) /\ Len(b) = k /\ \A i \in 1 .. k : b[i] = bs[m + i - 1] /\ m + i - 1 \in 1 .. N
  BY PartOfSeq
<1>3. s \in Seq(State) /\ Len(s) = k + 1 /\ \A i \in 1 .. k + 1 : s[i] = ss[m + i - 1]
  <2>1. m \in 1 .. Len(ss) + 1 /\ n + 1 \in m - 1 .. Len(ss) /\ n + 1 - m + 1 = k + 1
    BY <1>1
  <2> QED BY <2>1, PartOfSeq
<1>4. \A i \in 1 .. N : BlockApplies(ss[i], bs[i]) /\ ss[i + 1] = AfterBlock(ss[i], bs[i])
  BY DEF Chained
<1>5. k + 1 = n - m + 2 /\ m + (k + 1) - 1 = n + 1 /\ m + 1 - 1 = m /\ 1 \in 1 .. k + 1 /\ k + 1 \in 1 .. k + 1
  BY <1>1
<1>6. \A i \in 1 .. k : i \in 1 .. k + 1 /\ i + 1 \in 1 .. k + 1 /\ m + (i + 1) - 1 = (m + i - 1) + 1
  BY <1>1
<1> HIDE DEF b, s, k, N
<1>7. \A i \in 1 .. k : BlockApplies(s[i], b[i]) /\ s[i + 1] = AfterBlock(s[i], b[i])
  <2> SUFFICES ASSUME NEW i \in 1 .. k
               PROVE  BlockApplies(s[i], b[i]) /\ s[i + 1] = AfterBlock(s[i], b[i])
    OBVIOUS
  <2> DEFINE j == m + i - 1
  <2>1. j \in 1 .. N /\ b[i] = bs[j] /\ s[i] = ss[j] /\ s[i + 1] = ss[j + 1]
    BY <1>2, <1>3, <1>6
  <2> HIDE DEF j
  <2> QED BY <1>4, <2>1
<1>8. Chained(b, s)
  BY <1>2, <1>3, <1>7 DEF Chained
<1>9. s[1] = ss[m] /\ s[k + 1] = ss[n + 1]
  BY <1>3, <1>5
<1> QED BY <1>2, <1>3, <1>5, <1>8, <1>9 DEF b, s


-----------------------------------------------------------------------------
(* The pool.                                                               *)

Sessions == {<< >>} \cup {<<s>> : s \in State}
PoolRecord == [base : State, session : Sessions, list : Seq(Tx)]

\* The state that the next transaction is tried on.
StOf(p) == IF p.session = << >> THEN p.base ELSE p.session[1]

\* The session is what the list makes of the base, and starts with its first
\* transaction.
PoolGood(p) ==
    /\ p.session = << >> => p.list = << >>
    /\ Run(p.base, p.list) = [ok |-> TRUE, st |-> StOf(p)]

LEMMA SessionFacts ==
    /\ << >> \in Sessions
    /\ \A s \in State : <<s>> \in Sessions /\ <<s>> # << >> /\ <<s>>[1] = s
    /\ \A q \in Sessions : q # << >> => q[1] \in State /\ q = <<q[1]>>
BY DEF Sessions

LEMMA PoolFields ==
    /\ \A p \in PoolRecord :
          /\ p.base \in State /\ p.session \in Sessions /\ p.list \in Seq(Tx)
          /\ p = [base |-> p.base, session |-> p.session, list |-> p.list]
    /\ \A b \in State, q \in Sessions, l \in Seq(Tx) :
          LET p == [base |-> b, session |-> q, list |-> l] IN
          p \in PoolRecord /\ p.base = b /\ p.session = q /\ p.list = l
BY DEF PoolRecord

LEMMA StOfType ==
    ASSUME NEW p \in PoolRecord
    PROVE  StOf(p) \in State
<1>1. p.base \in State /\ p.session \in Sessions
  BY PoolFields
<1> QED BY <1>1, SessionFacts DEF StOf

\* What one transaction makes of a pool.
LEMMA PushToFacts ==
    ASSUME NEW p \in PoolRecord, NEW t \in Tx
    PROVE  LET q == PushTo(p, t) IN
           /\ q \in PoolRecord /\ q.base = p.base /\ q.session # << >>
           /\ CanApply(StOf(p), t) => q.list = Append(p.list, t) /\ StOf(q) = Applied(StOf(p), t)
           /\ ~CanApply(StOf(p), t) => q.list = p.list /\ StOf(q) = StOf(p)
<1> DEFINE q == PushTo(p, t)
           st == StOf(p)
           a == Applied(st, t)
<1>1. st \in State /\ a \in State
  BY StOfType, AppliedFields
<1>2. p.base \in State /\ p.list \in Seq(Tx) /\ Append(p.list, t) \in Seq(Tx)
  BY PoolFields
<1>3. q = IF CanApply(st, t)
          THEN [p EXCEPT !.session = <<a>>, !.list = Append(p.list, t)]
          ELSE [p EXCEPT !.session = <<st>>]
  BY DEF PushTo, StOf
<1> HIDE DEF q, a, st
<1>4. [p EXCEPT !.session = <<a>>, !.list = Append(p.list, t)]
        = [base |-> p.base, session |-> <<a>>, list |-> Append(p.list, t)]
  <2> DEFINE x == <<a>>
             l == Append(p.list, t)
  <2> HIDE DEF x, l
  <2>1. [p EXCEPT !.session = x, !.list = l] = [base |-> p.base, session |-> x, list |-> l]
    <3> DEFINE e == [p EXCEPT !.session = x]
    <3>1. e = [base |-> p.base, session |-> x, list |-> p.list]
      BY DEF PoolRecord
    <3> HIDE DEF e
    <3>2. [e EXCEPT !.list = l] = [base |-> p.base, session |-> x, list |-> l]
      BY <3>1
    <3> QED BY <3>2, Zenon DEF e
  <2> QED BY <2>1 DEF x, l
<1>5. [p EXCEPT !.session = <<st>>] = [base |-> p.base, session |-> <<st>>, list |-> p.list]
  BY DEF PoolRecord
<1>6. <<a>> \in Sessions /\ <<st>> \in Sessions /\ <<a>> # << >> /\ <<st>> # << >> /\ <<a>>[1] = a /\ <<st>>[1] = st
  BY <1>1, SessionFacts
<1>7. CASE CanApply(st, t)
  <2>1. q = [base |-> p.base, session |-> <<a>>, list |-> Append(p.list, t)]
    <3>1. q = [p EXCEPT !.session = <<a>>, !.list = Append(p.list, t)]
      BY <1>3, <1>7
    <3> QED BY <1>4, <3>1, Zenon
  <2>2. q \in PoolRecord /\ q.base = p.base /\ q.session = <<a>> /\ q.list = Append(p.list, t)
    BY <1>2, <1>6, <2>1, PoolFields
  <2>3. StOf(q) = a
    BY <1>6, <2>2 DEF StOf
  <2> QED BY <1>6, <1>7, <2>2, <2>3 DEF q, a, st
<1>8. CASE ~CanApply(st, t)
  <2>1. q = [base |-> p.base, session |-> <<st>>, list |-> p.list]
    BY <1>3, <1>5, <1>8
  <2>2. q \in PoolRecord /\ q.base = p.base /\ q.session = <<st>> /\ q.list = p.list
    BY <1>2, <1>6, <2>1, PoolFields
  <2>3. StOf(q) = st
    BY <1>6, <2>2 DEF StOf
  <2> QED BY <1>6, <1>8, <2>2, <2>3 DEF q, st
<1> QED BY <1>7, <1>8

LEMMA PushToGood ==
    ASSUME NEW p \in PoolRecord, NEW t \in Tx, PoolGood(p)
    PROVE  PoolGood(PushTo(p, t))
<1> DEFINE q == PushTo(p, t)
           st == StOf(p)
<1>1. p.base \in State /\ p.list \in Seq(Tx) /\ st \in State
  BY PoolFields, StOfType
<1>2. Run(p.base, p.list) = [ok |-> TRUE, st |-> st]
  BY DEF PoolGood
<1>3. /\ q.base = p.base /\ q.session # << >>
      /\ CanApply(st, t) => q.list = Append(p.list, t) /\ StOf(q) = Applied(st, t)
      /\ ~CanApply(st, t) => q.list = p.list /\ StOf(q) = st
  BY PushToFacts
<1> HIDE DEF q, st
<1>4. CASE CanApply(st, t)
  <2> DEFINE r == Run(p.base, p.list)
  <2>1. Run(p.base, Append(p.list, t)) = RunStep(r, t) /\ r \in RunResult
    BY <1>1, RunFolds
  <2>2. r.ok /\ r.st = st
    BY <1>2
  <2> HIDE DEF r
  <2>3. RunStep(r, t) = [ok |-> TRUE, st |-> Applied(st, t)]
    BY <1>4, <2>1, <2>2, RunStepType
  <2> QED BY <1>3, <1>4, <2>1, <2>3 DEF PoolGood, q
<1>5. CASE ~CanApply(st, t)
  BY <1>2, <1>3, <1>5 DEF PoolGood, q
<1> QED BY <1>4, <1>5

\* One transaction of the restorer.
PoolStep(p, t) == IF Known(p, t) THEN p ELSE PushTo(p, t)

LEMMA PoolStepFacts ==
    ASSUME NEW p \in PoolRecord, NEW t \in Tx
    PROVE  LET q == PoolStep(p, t) IN
           /\ q \in PoolRecord /\ q.base = p.base
           /\ PoolGood(p) => PoolGood(q)
           /\ CanApply(StOf(p), t) => q.list = Append(p.list, t) /\ StOf(q) = Applied(StOf(p), t)
           /\ ~CanApply(StOf(p), t) => q.list = p.list /\ StOf(q) = StOf(p)
<1>1. Known(p, t) <=> t \in StOf(p).dedupe
  BY DEF Known, StOf
<1>2. CASE Known(p, t)
  <2>1. ~CanApply(StOf(p), t)
    BY <1>1, <1>2 DEF CanApply
  <2> QED BY <1>2, <2>1 DEF PoolStep
<1>3. CASE ~Known(p, t)
  <2>1. PoolStep(p, t) = PushTo(p, t)
    BY <1>3 DEF PoolStep
  <2> QED BY <2>1, PushToFacts, PushToGood
<1> QED BY <1>2, <1>3


Restores(h, base, txs) ==
    /\ h[0] = [base |-> base, session |-> << >>, list |-> << >>]
    /\ \A n \in 1 .. Len(txs) : h[n] = PoolStep(h[n - 1], txs[n])

\* The fold of Restored goes by these steps.
LEMMA RestoredIs ==
    ASSUME NEW base \in State, NEW txs \in Seq(Tx)
    PROVE  \E h \in [0 .. Len(txs) -> PoolRecord] :
              Restores(h, base, txs) /\ Restored(base, txs) = h[Len(txs)]
<1> DEFINE N == Len(txs)
           D == DOMAIN txs
           b == [base |-> base, session |-> << >>, list |-> << >>]
           Raw(g) == g = [s \in SUBSET D |->
                            IF s = {} THEN b ELSE PoolStep(g[s \ {LargestOf(s)}], txs[LargestOf(s)])]
           F == [n \in 1 .. N |-> [r \in PoolRecord |-> PoolStep(r, txs[n])]]
<1>1. Restored(base, txs) = (CHOOSE g : Raw(g))[D]
  BY DEF Restored, FoldLeft, MapThenFoldSet, Max, LargestOf, PoolStep
<1>2. N \in Nat /\ D = 1 .. N /\ \A n \in 1 .. N : txs[n] \in Tx /\ n - 1 \in 0 .. N
  OBVIOUS
<1>3. b \in PoolRecord
  <2>1. << >> \in Sessions /\ << >> \in Seq(Tx)
    BY SessionFacts
  <2> QED BY <2>1, PoolFields
<1>4. F \in [1 .. N -> [PoolRecord -> PoolRecord]]
  BY <1>2, PoolStepFacts
<1>5. \A n \in 1 .. N, r \in PoolRecord : F[n][r] = PoolStep(r, txs[n])
  OBVIOUS
<1> HIDE DEF N, D, F, b
<1>6. PICK g0 \in [SUBSET (1 .. N) -> PoolRecord] : FoldsOver(g0, b, F, N)
  BY <1>2, <1>3, <1>4, FoldExists
<1>a. PICK h \in [0 .. N -> PoolRecord] : Follows(h, b, F, N)
  BY <1>2, <1>3, <1>4, Recursion
<1>b. Restores(h, base, txs)
  <2>1. \A n \in 1 .. N : h[n] = PoolStep(h[n - 1], txs[n])
    BY <1>2, <1>5, <1>a DEF Follows
  <2> QED BY <1>a, <2>1 DEF Restores, Follows, N, b
<1>7. Raw(g0)
  <2>1. ASSUME NEW s \in SUBSET D
        PROVE  g0[s] = IF s = {} THEN b ELSE PoolStep(g0[s \ {LargestOf(s)}], txs[LargestOf(s)])
    <3>1. CASE s = {}
      BY <1>2, <1>6, <3>1 DEF FoldsOver
    <3>2. CASE s # {}
      <4>1. LargestOf(s) \in 1 .. N /\ s \ {LargestOf(s)} \in SUBSET (1 .. N)
        BY <1>2, <3>2, LargestIs
      <4>2. g0[s] = F[LargestOf(s)][g0[s \ {LargestOf(s)}]]
        BY <1>2, <1>6, <3>2 DEF FoldsOver
      <4> QED BY <1>5, <3>2, <4>1, <4>2
    <3> QED BY <3>1, <3>2
  <2> QED BY <1>2, <2>1
<1>8. ASSUME NEW g, Raw(g)
      PROVE  g[D] = h[N]
  <2>1. \A s \in SUBSET D : g[s] = IF s = {} THEN b ELSE PoolStep(g[s \ {LargestOf(s)}], txs[LargestOf(s)])
    BY <1>8
  <2> HIDE DEF Raw
  <2>2. g[{}] = h[0]
    BY <1>b, <2>1 DEF Restores, b
  <2>3. ASSUME NEW n \in 1 .. N, g[1 .. n - 1] = h[n - 1]
        PROVE  g[1 .. n] = h[n]
    <3>1. n \in Nat /\ n # 0 /\ 1 .. n \in SUBSET D
      BY <1>2
    <3>2. g[1 .. n] = PoolStep(g[1 .. n - 1], txs[n])
      BY <2>1, <3>1, LargestUpTo
    <3>3. h[n] = PoolStep(h[n - 1], txs[n])
      BY <1>b DEF Restores, N
    <3> QED BY <2>3, <3>2, <3>3
  <2> QED BY <1>2, <2>2, <2>3, FoldAlong
<1>9. Raw(CHOOSE g : Raw(g))
  <2> HIDE DEF Raw
  <2> QED BY <1>7
<1>10. (CHOOSE g : Raw(g))[D] = h[N]
  <2> HIDE DEF Raw
  <2> QED BY <1>8, <1>9
<1> QED BY <1>1, <1>10, <1>b DEF N

\* The states that the transactions of a list were tried on.
Tried(s, txs) ==
    \A k \in 1 .. Len(txs) :
        /\ CanApply(s[k - 1], txs[k]) => s[k] = Applied(s[k - 1], txs[k])
        /\ ~CanApply(s[k - 1], txs[k]) => s[k] = s[k - 1]

LEMMA TriedGrows ==
    ASSUME NEW txs \in Seq(Tx), NEW s \in [0 .. Len(txs) -> State], Tried(s, txs),
           NEW m \in 0 .. Len(txs)
    PROVE  \A k \in m .. Len(txs) : /\ s[m].applied \subseteq s[k].applied
                                    /\ s[k].num = s[m].num /\ s[k].time = s[m].time
<1> DEFINE N == Len(txs)
           Good(k) == /\ s[m].applied \subseteq s[k].applied
                      /\ s[k].num = s[m].num /\ s[k].time = s[m].time
           Z == {k \in 0 .. N : k >= m => Good(k)}
<1>1. N \in Nat /\ m \in 0 .. N /\ s \in [0 .. N -> State] /\ \A k \in 1 .. N : txs[k] \in Tx
  OBVIOUS
<1>2. \A k \in 1 .. N : /\ CanApply(s[k - 1], txs[k]) => s[k] = Applied(s[k - 1], txs[k])
                        /\ ~CanApply(s[k - 1], txs[k]) => s[k] = s[k - 1]
  BY DEF Tried
<1>3. \A k \in 0 .. N : k = m => Good(k)
  OBVIOUS
<1> HIDE DEF N, Good
<1>4. 0 \in Z
  BY <1>1, <1>3
<1>5. ASSUME NEW k \in 1 .. N, k - 1 \in Z
      PROVE  k \in Z
  <2>1. k \in 0 .. N /\ k - 1 \in 0 .. N /\ (k >= m => k = m \/ k - 1 >= m)
    BY <1>1
  <2>2. ASSUME Good(k - 1)
        PROVE  Good(k)
    <3>1. s[k - 1] \in State /\ txs[k] \in Tx
      BY <1>1, <2>1
    <3>2. s[k] = Applied(s[k - 1], txs[k]) \/ s[k] = s[k - 1]
      BY <1>2
    <3>3. s[k - 1].applied \subseteq s[k].applied /\ s[k].num = s[k - 1].num /\ s[k].time = s[k - 1].time
      <4> DEFINE a == s[k - 1]
                 q == Applied(a, txs[k])
      <4>1. q.num = a.num /\ q.time = a.time /\ q.applied = a.applied \cup {txs[k]}
        BY <3>1, AppliedFields
      <4>2. s[k] = q \/ s[k] = a
        BY <3>2
      <4> HIDE DEF q, a
      <4>3. a.applied \subseteq s[k].applied /\ s[k].num = a.num /\ s[k].time = a.time
        BY <4>1, <4>2
      <4> QED BY <4>3 DEF a
    <3> QED BY <2>2, <3>3 DEF Good
  <2> QED BY <1>3, <1>5, <2>1, <2>2
<1> HIDE DEF Z
<1>6. \A k \in 0 .. N : k \in Z
  BY <1>1, <1>4, <1>5, Upwards
<1>7. \A k \in m .. N : k \in 0 .. N /\ k >= m
  BY <1>1
<1>8. \A k \in m .. N : Good(k)
  BY <1>6, <1>7 DEF Z
<1> QED BY <1>8 DEF Good, N

LEMMA NeverApplied ==
    ASSUME NEW txs \in Seq(Tx), NEW s \in [0 .. Len(txs) -> State], Tried(s, txs),
           NEW m \in 0 .. Len(txs), NEW t, t \notin s[m].applied,
           \A k \in m .. Len(txs) : ~CanApply(s[k], t)
    PROVE  \A k \in m .. Len(txs) : t \notin s[k].applied
<1> DEFINE N == Len(txs)
           Z == {k \in 0 .. N : k >= m => t \notin s[k].applied}
<1>1. N \in Nat /\ m \in 0 .. N /\ s \in [0 .. N -> State] /\ \A k \in 1 .. N : txs[k] \in Tx
  OBVIOUS
<1>2. \A k \in 1 .. N : /\ CanApply(s[k - 1], txs[k]) => s[k] = Applied(s[k - 1], txs[k])
                        /\ ~CanApply(s[k - 1], txs[k]) => s[k] = s[k - 1]
  BY DEF Tried
<1>3. \A k \in m .. N : ~CanApply(s[k], t)
  OBVIOUS
<1> HIDE DEF N
<1>4. 0 \in Z
  BY <1>1
<1>5. ASSUME NEW k \in 1 .. N, k - 1 \in Z
      PROVE  k \in Z
  <2>1. k \in 0 .. N /\ k - 1 \in 0 .. N /\ (k >= m => k = m \/ (k - 1 >= m /\ k - 1 \in m .. N))
    BY <1>1
  <2>2. ASSUME k - 1 \in m .. N, t \notin s[k - 1].applied
        PROVE  t \notin s[k].applied
    <3>1. s[k - 1] \in State /\ txs[k] \in Tx
      BY <1>1, <2>1
    <3>2. CASE CanApply(s[k - 1], txs[k])
      <4>1. txs[k] # t
        BY <1>3, <2>2, <3>2
      <4>2. s[k].applied = s[k - 1].applied \cup {txs[k]}
        BY <1>2, <3>1, <3>2, AppliedFields
      <4> QED BY <2>2, <4>1, <4>2
    <3>3. CASE ~CanApply(s[k - 1], txs[k])
      BY <1>2, <2>2, <3>3
    <3> QED BY <3>2, <3>3
  <2> QED BY <1>5, <2>1, <2>2
<1> HIDE DEF Z
<1>6. \A k \in 0 .. N : k \in Z
  BY <1>1, <1>4, <1>5, Upwards
<1>7. \A k \in m .. N : k \in 0 .. N /\ k >= m
  BY <1>1
<1> QED BY <1>6, <1>7 DEF Z, N


\* A transaction that does not apply at its turn, and was not applied before,
\* does not apply later: it is too early, too late or in conflict with one that
\* was applied, or it needs one that itself was tried in vain.
LEMMA Kept ==
    ASSUME PoolConstants, NEW txs \in Seq(Tx), NEW s \in [0 .. Len(txs) -> State], Tried(s, txs),
           \A k \in 0 .. Len(txs) : s[k].dedupe \subseteq s[k].applied,
           Ordered(s[0].applied, txs)
    PROVE  \A i \in 1 .. Len(txs) :
              txs[i] \in s[Len(txs)].applied \/ ~CanApply(s[Len(txs)], txs[i])
<1> DEFINE N == Len(txs)
           Dead(i) == \A k \in i - 1 .. N : ~CanApply(s[k], txs[i]) /\ txs[i] \notin s[k].applied
           Z == {i \in 1 .. N : txs[i] \in s[i].applied \/ Dead(i)}
<1>1. N \in Nat /\ s \in [0 .. N -> State] /\ \A k \in 1 .. N : txs[k] \in Tx
  OBVIOUS
<1>2. \A k \in 1 .. N : /\ CanApply(s[k - 1], txs[k]) => s[k] = Applied(s[k - 1], txs[k])
                        /\ ~CanApply(s[k - 1], txs[k]) => s[k] = s[k - 1]
  BY DEF Tried
<1>3. \A m \in 0 .. N : \A k \in m .. N :
         s[m].applied \subseteq s[k].applied /\ s[k].num = s[m].num /\ s[k].time = s[m].time
  BY TriedGrows
<1>4. \A m \in 0 .. N : \A t : t \notin s[m].applied /\ (\A k \in m .. N : ~CanApply(s[k], t))
         => \A k \in m .. N : t \notin s[k].applied
  BY NeverApplied
<1>5. \A i \in 1 .. N : Needs[txs[i]] \subseteq s[0].applied \cup FirstOf(txs, i - 1)
  BY DEF Ordered
<1>6. \A k \in 0 .. N : s[k].dedupe \subseteq s[k].applied
  OBVIOUS
<1> HIDE DEF N, Dead
<1>7. ASSUME NEW i \in 1 .. N, \A j \in 1 .. i - 1 : j \in Z
      PROVE  i \in Z
  <2> DEFINE m == i - 1
             t == txs[i]
  <2>1. m \in 0 .. N /\ i \in m .. N /\ t \in Tx /\ 0 \in 0 .. N /\ m \in 0 .. N
    BY <1>1
  <2>2. s[m] \in State /\ \A k \in m .. N : k \in 0 .. N
    BY <1>1, <2>1
  <2>a. \A k \in m .. N :
           s[m].applied \subseteq s[k].applied /\ s[k].num = s[m].num /\ s[k].time = s[m].time
    BY <1>3, <2>1
  <2>3. CASE t \in s[m].applied
    BY <2>1, <2>3, <2>a
  <2>4. CASE CanApply(s[m], t)
    <3>1. s[i].applied = s[m].applied \cup {t}
      <4>1. s[i] = Applied(s[m], t)
        BY <1>2, <2>4
      <4>2. Applied(s[m], t).applied = s[m].applied \cup {t}
        BY <2>1, <2>2, AppliedFields
      <4> QED BY <4>1, <4>2
    <3> QED BY <3>1
  <2>5. CASE t \notin s[m].applied /\ ~CanApply(s[m], t)
    <3>1. t \notin s[m].dedupe
      BY <1>6, <2>1, <2>5
    <3>2. \/ s[m].num > 0 /\ ~(/\ Expiration[t] <= s[m].time + MaxTimeUntilExpiration
                               /\ s[m].time < Expiration[t])
          \/ \E u \in s[m].applied \ {t} : Spends[u] = Spends[t]
          \/ \E u \in Needs[t] : u \notin s[m].applied
      BY <2>5, <3>1 DEF CanApply, Acceptable
    <3>3. \A k \in m .. N : ~CanApply(s[k], t)
      <4>1. CASE s[m].num > 0 /\ ~(/\ Expiration[t] <= s[m].time + MaxTimeUntilExpiration
                                   /\ s[m].time < Expiration[t])
        <5> SUFFICES ASSUME NEW k \in m .. N, CanApply(s[k], t)
                     PROVE  FALSE
          OBVIOUS
        <5>1. s[k].num > 0 => /\ Expiration[t] <= s[k].time + MaxTimeUntilExpiration
                              /\ s[k].time < Expiration[t]
          BY DEF CanApply
        <5>2. s[k].num = s[m].num /\ s[k].time = s[m].time
          BY <2>a
        <5> QED BY <4>1, <5>1, <5>2
      <4>2. CASE \E u \in s[m].applied \ {t} : Spends[u] = Spends[t]
        BY <2>a, <4>2 DEF CanApply, Acceptable
      <4>3. ASSUME NEW u \in Needs[t], u \notin s[m].applied
            PROVE  \A k \in m .. N : ~CanApply(s[k], t)
        <5>1. u \in FirstOf(txs, m)
          <6>1. m \in 0 .. N /\ s[0].applied \subseteq s[m].applied
            BY <1>1, <1>3, <2>1
          <6> QED BY <1>5, <4>3, <6>1
        <5>2. PICK j \in 1 .. m : u = txs[j]
          BY <5>1 DEF FirstOf
        <5>3. j \in 1 .. i - 1 /\ j \in 1 .. N /\ j \in 0 .. N /\ m \in j .. N /\ \A k \in m .. N : k \in j - 1 .. N
          BY <1>1, <2>1
        <5>4. j \in Z
          BY <1>7, <5>3
        <5>5. txs[j] \notin s[j].applied
          BY <1>3, <4>3, <5>2, <5>3
        <5>6. Dead(j)
          BY <5>4, <5>5
        <5>7. \A k \in m .. N : u \notin s[k].applied
          BY <5>2, <5>3, <5>6 DEF Dead
        <5> QED BY <4>3, <5>7 DEF CanApply, Acceptable
      <4> QED BY <3>2, <4>1, <4>2, <4>3
    <3>4. \A k \in m .. N : t \notin s[k].applied
      BY <1>4, <2>1, <2>5, <3>3
    <3>5. Dead(i)
      BY <3>3, <3>4 DEF Dead
    <3> QED BY <3>5
  <2> QED BY <2>3, <2>4, <2>5
<1> HIDE DEF Z
<1>8. \A i \in 1 .. N : i \in Z
  BY <1>1, <1>7, Downwards
<1>9. \A i \in 1 .. N : txs[i] \in s[N].applied \/ ~CanApply(s[N], txs[i])
  <2> SUFFICES ASSUME NEW i \in 1 .. N
               PROVE  txs[i] \in s[N].applied \/ ~CanApply(s[N], txs[i])
    OBVIOUS
  <2>1. i \in 0 .. N /\ N \in i .. N /\ N \in i - 1 .. N
    BY <1>1
  <2>2. CASE txs[i] \in s[i].applied
    BY <1>3, <2>1, <2>2
  <2>3. CASE Dead(i)
    BY <2>1, <2>3 DEF Dead
  <2> QED BY <1>8, <2>2, <2>3 DEF Z
<1> QED BY <1>9 DEF N


\* What the restorer makes of a list: the pool is good, and what it leaves out
\* does not apply.
LEMMA RestoredFacts ==
    ASSUME PoolConstants, NEW base \in State, Fresh(base), NEW txs \in Seq(Tx)
    PROVE  LET p == Restored(base, txs) IN
           /\ p \in PoolRecord /\ p.base = base /\ PoolGood(p)
           /\ Ordered(base.applied, txs)
                 => \A i \in 1 .. Len(txs) : txs[i] \in StOf(p).applied \/ ~CanApply(StOf(p), txs[i])
<1> DEFINE N == Len(txs)
<1>1. PICK h \in [0 .. N -> PoolRecord] : Restores(h, base, txs) /\ Restored(base, txs) = h[N]
  BY RestoredIs
<1> DEFINE s == [k \in 0 .. N |-> StOf(h[k])]
           Good(k) == h[k].base = base /\ PoolGood(h[k]) /\ Fresh(s[k])
           Z == {k \in 0 .. N : Good(k)}
<1>2. N \in Nat /\ N \in 0 .. N /\ \A k \in 1 .. N : txs[k] \in Tx /\ k - 1 \in 0 .. N /\ k \in 0 .. N
  OBVIOUS
<1>3. /\ h[0] = [base |-> base, session |-> << >>, list |-> << >>]
      /\ \A k \in 1 .. N : h[k] = PoolStep(h[k - 1], txs[k])
  BY <1>1 DEF Restores
<1>4. \A k \in 0 .. N : h[k] \in PoolRecord /\ s[k] = StOf(h[k]) /\ s[k] \in State
  BY <1>1, StOfType
<1>5. s \in [0 .. N -> State]
  BY <1>4
<1> HIDE DEF N, s
<1>6. \A k \in 1 .. N :
         /\ h[k].base = h[k - 1].base /\ (PoolGood(h[k - 1]) => PoolGood(h[k]))
         /\ CanApply(s[k - 1], txs[k]) => s[k] = Applied(s[k - 1], txs[k])
         /\ ~CanApply(s[k - 1], txs[k]) => s[k] = s[k - 1]
  <2> SUFFICES ASSUME NEW k \in 1 .. N
               PROVE  /\ h[k].base = h[k - 1].base /\ (PoolGood(h[k - 1]) => PoolGood(h[k]))
                      /\ CanApply(s[k - 1], txs[k]) => s[k] = Applied(s[k - 1], txs[k])
                      /\ ~CanApply(s[k - 1], txs[k]) => s[k] = s[k - 1]
    OBVIOUS
  <2> DEFINE p == h[k - 1]
             t == txs[k]
  <2>1. p \in PoolRecord /\ t \in Tx /\ h[k] = PoolStep(p, t) /\ s[k - 1] = StOf(p) /\ s[k] = StOf(h[k])
    BY <1>2, <1>3, <1>4
  <2> HIDE DEF p, t
  <2>2. /\ PoolStep(p, t).base = p.base
        /\ PoolGood(p) => PoolGood(PoolStep(p, t))
        /\ CanApply(StOf(p), t) => StOf(PoolStep(p, t)) = Applied(StOf(p), t)
        /\ ~CanApply(StOf(p), t) => StOf(PoolStep(p, t)) = StOf(p)
    BY <2>1, PoolStepFacts
  <2> QED BY <2>1, <2>2 DEF p, t
<1>7. h[0].base = base /\ h[0].session = << >> /\ h[0].list = << >> /\ s[0] = base
  <2>1. h[0].base = base /\ h[0].session = << >> /\ h[0].list = << >>
    BY <1>3
  <2>2. 0 \in 0 .. N
    BY <1>2
  <2> QED BY <1>4, <2>1, <2>2 DEF StOf
<1>8. 0 \in Z
  <2>1. 0 \in 0 .. N
    BY <1>2
  <2>2. Run(base, << >>) = [ok |-> TRUE, st |-> base]
    BY RunFolds
  <2>3. PoolGood(h[0])
    BY <1>4, <1>7, <2>1, <2>2 DEF PoolGood
  <2> QED BY <1>7, <2>1, <2>3
<1>9. ASSUME NEW k \in 1 .. N, k - 1 \in Z
      PROVE  k \in Z
  <2>1. s[k - 1] \in State /\ txs[k] \in Tx /\ Fresh(s[k - 1]) /\ k \in 0 .. N
    BY <1>2, <1>4, <1>9
  <2>2. Fresh(Applied(s[k - 1], txs[k]))
    BY <2>1, FreshFacts
  <2>3. Fresh(s[k])
    BY <1>6, <2>1, <2>2
  <2> QED BY <1>6, <1>9, <2>1, <2>3
<1> HIDE DEF Z
<1>10. \A k \in 0 .. N : k \in Z
  BY <1>2, <1>8, <1>9, Upwards
<1>11. h[N].base = base /\ PoolGood(h[N]) /\ h[N] \in PoolRecord /\ s[N] = StOf(h[N])
  BY <1>2, <1>4, <1>10 DEF Z
<1>12. \A k \in 0 .. N : s[k].dedupe \subseteq s[k].applied
  BY <1>10 DEF Z, Fresh
<1>13. Tried(s, txs)
  BY <1>6 DEF Tried, N
<1>14. ASSUME Ordered(base.applied, txs)
       PROVE  \A i \in 1 .. N : txs[i] \in s[N].applied \/ ~CanApply(s[N], txs[i])
  <2>1. Ordered(s[0].applied, txs)
    BY <1>7, <1>14
  <2> QED BY <1>5, <1>12, <1>13, <2>1, Kept DEF N
<1> QED BY <1>1, <1>11, <1>14 DEF N

\* The state of a good pool has what its base has and what is on its list.
LEMMA PoolApplied ==
    ASSUME PoolConstants, NEW p \in PoolRecord, PoolGood(p)
    PROVE  /\ StOf(p).applied = p.base.applied \cup All(p.list)
           /\ Ordered(p.base.applied, p.list)
<1>1. p.base \in State /\ p.list \in Seq(Tx)
  BY PoolFields
<1> DEFINE r == Run(p.base, p.list)
<1>2. r = [ok |-> TRUE, st |-> StOf(p)]
  BY DEF PoolGood
<1>3. r.ok /\ r.st = StOf(p)
  BY <1>2
<1> QED BY <1>1, <1>3, RunOk DEF All


-----------------------------------------------------------------------------
(* Block production.                                                       *)

\* One transaction of the loop of _generate_block().
CollectStep(when, r, t) ==
    IF \/ Expiration[t] < when
       \/ r.size + Size[t] >= MaxBlockSize
       \/ ~CanApply(r.st, t)
    THEN r
    ELSE [st |-> Applied(r.st, t), size |-> r.size + Size[t], txs |-> Append(r.txs, t)]

CollectResult == [st : State, size : Nat, txs : Seq(Tx)]

LEMMA CollectStepFacts ==
    ASSUME PoolConstants, NEW when, NEW r \in CollectResult, NEW t \in Tx
    PROVE  LET q == CollectStep(when, r, t) IN
           /\ q \in CollectResult
           /\ q = r \/ (CanApply(r.st, t) /\ q.st = Applied(r.st, t) /\ q.txs = Append(r.txs, t))
<1> DEFINE a == Applied(r.st, t)
           z == r.size + Size[t]
           l == Append(r.txs, t)
           q == CollectStep(when, r, t)
<1>1. r.st \in State /\ r.size \in Nat /\ r.txs \in Seq(Tx)
  BY DEF CollectResult
<1>2. a \in State /\ z \in Nat /\ l \in Seq(Tx)
  <2>1. a \in State
    BY <1>1, AppliedFields
  <2>2. Size[t] \in Nat
    BY PoolNumbers
  <2>3. l \in Seq(Tx)
    BY <1>1
  <2> QED BY <1>1, <2>1, <2>2, <2>3
<1>3. q = r \/ (CanApply(r.st, t) /\ q = [st |-> a, size |-> z, txs |-> l])
  BY DEF CollectStep
<1> HIDE DEF q, a, z, l
<1>4. [st |-> a, size |-> z, txs |-> l] \in CollectResult
  BY <1>2 DEF CollectResult
<1>5. q \in CollectResult /\ (q = r \/ (CanApply(r.st, t) /\ q.st = a /\ q.txs = l))
  BY <1>3, <1>4
<1> QED BY <1>5 DEF q, a, l

Collects(h, when) ==
    /\ h[0] = [st |-> HeadState, size |-> HeaderEstimate, txs |-> << >>]
    /\ \A n \in 1 .. Len(pending) : h[n] = CollectStep(when, h[n - 1], pending[n])

\* The fold of Collected goes by these steps.
LEMMA CollectedIs ==
    ASSUME PoolConstants, HeadState \in State, pending \in Seq(Tx), NEW when
    PROVE  \E h \in [0 .. Len(pending) -> CollectResult] :
              Collects(h, when) /\ Collected(when) = h[Len(pending)]
<1> DEFINE N == Len(pending)
           D == DOMAIN pending
           b == [st |-> HeadState, size |-> HeaderEstimate, txs |-> << >>]
           Raw(g) == g = [s \in SUBSET D |->
                            IF s = {} THEN b
                            ELSE CollectStep(when, g[s \ {LargestOf(s)}], pending[LargestOf(s)])]
           F == [n \in 1 .. N |-> [r \in CollectResult |-> CollectStep(when, r, pending[n])]]
<1>1. Collected(when) = (CHOOSE g : Raw(g))[D]
  BY DEF Collected, FoldLeft, MapThenFoldSet, Max, LargestOf, CollectStep
<1>2. N \in Nat /\ D = 1 .. N /\ \A n \in 1 .. N : pending[n] \in Tx /\ n - 1 \in 0 .. N
  OBVIOUS
<1>3. b \in CollectResult
  <2>1. HeaderEstimate \in Nat /\ << >> \in Seq(Tx)
    BY PoolNumbers
  <2> QED BY <2>1 DEF CollectResult
<1>4. F \in [1 .. N -> [CollectResult -> CollectResult]]
  BY <1>2, CollectStepFacts
<1>5. \A n \in 1 .. N, r \in CollectResult : F[n][r] = CollectStep(when, r, pending[n])
  OBVIOUS
<1> HIDE DEF N, D, F, b
<1>6. PICK g0 \in [SUBSET (1 .. N) -> CollectResult] : FoldsOver(g0, b, F, N)
  BY <1>2, <1>3, <1>4, FoldExists
<1>a. PICK h \in [0 .. N -> CollectResult] : Follows(h, b, F, N)
  BY <1>2, <1>3, <1>4, Recursion
<1>b. Collects(h, when)
  <2>1. \A n \in 1 .. N : h[n] = CollectStep(when, h[n - 1], pending[n])
    BY <1>2, <1>5, <1>a DEF Follows
  <2> QED BY <1>a, <2>1 DEF Collects, Follows, N, b
<1>7. Raw(g0)
  <2>1. ASSUME NEW s \in SUBSET D
        PROVE  g0[s] = IF s = {} THEN b
                       ELSE CollectStep(when, g0[s \ {LargestOf(s)}], pending[LargestOf(s)])
    <3>1. CASE s = {}
      BY <1>2, <1>6, <3>1 DEF FoldsOver
    <3>2. CASE s # {}
      <4>1. LargestOf(s) \in 1 .. N /\ s \ {LargestOf(s)} \in SUBSET (1 .. N)
        BY <1>2, <3>2, LargestIs
      <4>2. g0[s] = F[LargestOf(s)][g0[s \ {LargestOf(s)}]]
        BY <1>2, <1>6, <3>2 DEF FoldsOver
      <4> QED BY <1>5, <3>2, <4>1, <4>2
    <3> QED BY <3>1, <3>2
  <2> QED BY <1>2, <2>1
<1>8. ASSUME NEW g, Raw(g)
      PROVE  g[D] = h[N]
  <2>1. \A s \in SUBSET D : g[s] = IF s = {} THEN b
                                   ELSE CollectStep(when, g[s \ {LargestOf(s)}], pending[LargestOf(s)])
    BY <1>8
  <2> HIDE DEF Raw
  <2>2. g[{}] = h[0]
    BY <1>b, <2>1 DEF Collects, b
  <2>3. ASSUME NEW n \in 1 .. N, g[1 .. n - 1] = h[n - 1]
        PROVE  g[1 .. n] = h[n]
    <3>1. n \in Nat /\ n # 0 /\ 1 .. n \in SUBSET D
      BY <1>2
    <3>2. g[1 .. n] = CollectStep(when, g[1 .. n - 1], pending[n])
      BY <2>1, <3>1, LargestUpTo
    <3>3. h[n] = CollectStep(when, h[n - 1], pending[n])
      BY <1>b DEF Collects, N
    <3> QED BY <2>3, <3>2, <3>3
  <2> QED BY <1>2, <2>2, <2>3, FoldAlong
<1>9. Raw(CHOOSE g : Raw(g))
  <2> HIDE DEF Raw
  <2> QED BY <1>7
<1>10. (CHOOSE g : Raw(g))[D] = h[N]
  <2> HIDE DEF Raw
  <2> QED BY <1>8, <1>9
<1> QED BY <1>1, <1>10, <1>b DEF N

\* What the producer collects applies to the head, one after the other.
LEMMA CollectedApplies ==
    ASSUME PoolConstants, HeadState \in State, pending \in Seq(Tx), NEW when
    PROVE  /\ Collected(when).txs \in Seq(Tx)
           /\ Run(HeadState, Collected(when).txs).ok
           /\ pending = << >> => Collected(when).txs = << >>
<1> DEFINE N == Len(pending)
<1>1. PICK h \in [0 .. N -> CollectResult] : Collects(h, when) /\ Collected(when) = h[N]
  BY CollectedIs
<1> DEFINE Good(k) == Run(HeadState, h[k].txs) = [ok |-> TRUE, st |-> h[k].st]
           Z == {k \in 0 .. N : Good(k)}
<1>2. N \in Nat /\ N \in 0 .. N /\ \A k \in 1 .. N : pending[k] \in Tx /\ k - 1 \in 0 .. N /\ k \in 0 .. N
  OBVIOUS
<1>3. /\ h[0] = [st |-> HeadState, size |-> HeaderEstimate, txs |-> << >>]
      /\ \A k \in 1 .. N : h[k] = CollectStep(when, h[k - 1], pending[k])
  BY <1>1 DEF Collects
<1>4. \A k \in 0 .. N : h[k] \in CollectResult /\ h[k].st \in State /\ h[k].txs \in Seq(Tx)
  <2>1. \A r \in CollectResult : r.st \in State /\ r.txs \in Seq(Tx)
    BY DEF CollectResult
  <2> QED BY <1>1, <2>1
<1>a. pending = << >> => N = 0
  OBVIOUS
<1> HIDE DEF N
<1>5. 0 \in Z
  <2>1. h[0].txs = << >> /\ h[0].st = HeadState
    BY <1>3
  <2>2. Run(HeadState, << >>) = [ok |-> TRUE, st |-> HeadState]
    BY RunFolds
  <2>3. Good(0) /\ 0 \in 0 .. N
    BY <1>2, <2>1, <2>2
  <2> HIDE DEF Good
  <2> QED BY <2>3
<1>6. ASSUME NEW k \in 1 .. N, k - 1 \in Z
      PROVE  k \in Z
  <2> DEFINE r == h[k - 1]
             q == h[k]
             t == pending[k]
             u == Run(HeadState, r.txs)
  <2>1. r \in CollectResult /\ t \in Tx /\ q = CollectStep(when, r, t) /\ r.txs \in Seq(Tx) /\ k \in 0 .. N
    BY <1>2, <1>3, <1>4
  <2>2. u = [ok |-> TRUE, st |-> r.st]
    BY <1>6
  <2> HIDE DEF r, q, t
  <2>3. q = r \/ (CanApply(r.st, t) /\ q.st = Applied(r.st, t) /\ q.txs = Append(r.txs, t))
    BY <2>1, CollectStepFacts
  <2>4. CASE q = r
    BY <2>1, <2>2, <2>4 DEF q
  <2>5. CASE CanApply(r.st, t) /\ q.st = Applied(r.st, t) /\ q.txs = Append(r.txs, t)
    <3>1. u \in RunResult /\ Run(HeadState, Append(r.txs, t)) = RunStep(u, t)
      BY <2>1, RunFolds
    <3>2. u.ok /\ u.st = r.st
      BY <2>2
    <3> HIDE DEF u
    <3>3. RunStep(u, t) = [ok |-> TRUE, st |-> Applied(r.st, t)]
      BY <2>1, <2>5, <3>1, <3>2, RunStepType
    <3>4. Run(HeadState, q.txs) = [ok |-> TRUE, st |-> q.st]
      BY <2>5, <3>1, <3>3
    <3> QED BY <2>1, <3>4 DEF q
  <2> QED BY <2>3, <2>4, <2>5
<1> HIDE DEF Z
<1>7. N \in Z
  BY <1>2, <1>5, <1>6, Upwards
<1>8. Run(HeadState, h[N].txs) = [ok |-> TRUE, st |-> h[N].st]
  BY <1>7 DEF Z
<1>9. Run(HeadState, h[N].txs).ok
  BY <1>8
<1>10. ASSUME pending = << >>
       PROVE  h[N].txs = << >>
  BY <1>3, <1>a, <1>10
<1> QED BY <1>1, <1>2, <1>4, <1>9, <1>10

\* A block without transactions fits.
LEMMA EmptyBlockSize ==
    ASSUME PoolConstants
    PROVE  BlockSize(<< >>) = HeaderSize
<1> DEFINE D == DOMAIN << >>
           Raw(g) == g = [s \in SUBSET D |->
                            IF s = {} THEN 0 ELSE g[s \ {LargestOf(s)}] + Size[<< >>[LargestOf(s)]]]
           g0 == [s \in SUBSET D |-> 0]
<1>1. TotalSize(<< >>) = (CHOOSE g : Raw(g))[D]
  BY DEF TotalSize, FoldLeft, MapThenFoldSet, Max, LargestOf
<1>2. D = {} /\ SUBSET D = {{}}
  OBVIOUS
<1> HIDE DEF D
<1>3. Raw(g0)
  BY <1>2
<1>4. ASSUME NEW g, Raw(g)
      PROVE  g[D] = 0
  BY <1>2, <1>4
<1> HIDE DEF Raw
<1>5. (CHOOSE g : Raw(g))[D] = 0
  BY <1>3, <1>4
<1>6. HeaderSize \in Nat
  BY PoolNumbers
<1> QED BY <1>1, <1>5, <1>6 DEF BlockSize


-----------------------------------------------------------------------------
(* The invariant of the pool.                                              *)

PoolTypes ==
    /\ chain \in Seq(PoolBlock) /\ states \in Seq(State)
    /\ pending \in Seq(Tx) /\ session \in Sessions
    /\ attempt \in 0 .. 1 /\ slot \in 0 .. LastTime
    /\ failed \in {"no", "size", "rejected"}

\* The states are those that the blocks of the chain make, from the genesis on.
ChainGood(bs, ss) == Chained(bs, ss) /\ ss[1] = GenesisState

PoolNow == [base |-> HeadState, session |-> session, list |-> pending]

\* Where the producer tries a second time nothing is pending.
PoolInv ==
    /\ PoolTypes
    /\ ChainGood(chain, states)
    /\ failed # "size" => PoolGood(PoolNow)
    /\ attempt > 0 => pending = << >> /\ session = << >>
    /\ SlotIsFilled

LEMMA ChainHead ==
    ASSUME PoolConstants, NEW bs \in Seq(PoolBlock), NEW ss \in Seq(State), ChainGood(bs, ss)
    PROVE  /\ Len(ss) = Len(bs) + 1 /\ Len(bs) \in Nat
           /\ Last(ss) = ss[Len(ss)] /\ Last(ss) \in State /\ Fresh(Last(ss))
           /\ TxsOf(bs) \in Seq(Tx) /\ Distinct(TxsOf(bs))
           /\ Last(ss).applied = All(TxsOf(bs))
<1>1. Chained(bs, ss) /\ ss[1] = GenesisState
  BY DEF ChainGood
<1>2. Fresh(GenesisState) /\ GenesisState.applied = {}
  BY GenesisFields DEF Fresh
<1>3. Len(ss) = Len(bs) + 1 /\ Len(bs) \in Nat
  BY <1>1 DEF Chained
<1>4. /\ TxsOf(bs) \in Seq(Tx) /\ ss[Len(ss)] \in State
      /\ ss[Len(ss)].applied = ss[1].applied \cup All(TxsOf(bs))
      /\ Fresh(ss[1]) => Fresh(ss[Len(ss)]) /\ Distinct(TxsOf(bs))
  BY <1>1, ChainedFacts
<1> QED BY <1>1, <1>2, <1>3, <1>4 DEF Last

LEMMA Extends ==
    ASSUME NEW bs \in Seq(PoolBlock), NEW ss \in Seq(State), Chained(bs, ss),
           NEW b \in PoolBlock, BlockApplies(ss[Len(ss)], b)
    PROVE  LET s == AfterBlock(ss[Len(ss)], b) IN
           /\ Append(bs, b) \in Seq(PoolBlock) /\ Append(ss, s) \in Seq(State)
           /\ Chained(Append(bs, b), Append(ss, s))
           /\ Append(ss, s)[1] = ss[1]
<1> DEFINE N == Len(bs)
           s == AfterBlock(ss[Len(ss)], b)
           p == Append(ss, s)
           c == Append(bs, b)
<1>1. N \in Nat /\ Len(ss) = N + 1 /\ ss[N + 1] \in State
  <2>1. N \in Nat /\ Len(ss) = N + 1
    BY DEF Chained
  <2>2. N + 1 \in 1 .. Len(ss)
    BY <2>1
  <2> QED BY <2>1, <2>2
<1>2. s \in State /\ s = AfterBlock(ss[N + 1], b) /\ BlockApplies(ss[N + 1], b)
  BY <1>1, AfterBlockType
<1>3. \A i \in 1 .. N : BlockApplies(ss[i], bs[i]) /\ ss[i + 1] = AfterBlock(ss[i], bs[i])
  BY DEF Chained
<1> HIDE DEF s
<1>4. c \in Seq(PoolBlock) /\ Len(c) = N + 1 /\ c[N + 1] = b /\ \A i \in 1 .. N : c[i] = bs[i]
  OBVIOUS
<1>5. p \in Seq(State) /\ Len(p) = N + 2 /\ p[N + 2] = s /\ \A i \in 1 .. N + 1 : p[i] = ss[i]
  BY <1>1, <1>2
<1> HIDE DEF c, p, N
<1>6. ASSUME NEW i \in 1 .. N + 1
      PROVE  BlockApplies(p[i], c[i]) /\ p[i + 1] = AfterBlock(p[i], c[i])
  <2>1. CASE i = N + 1
    <3>1. i + 1 = N + 2
      BY <1>1, <2>1
    <3> QED BY <1>2, <1>4, <1>5, <2>1, <3>1
  <2>2. CASE i # N + 1
    <3>1. i \in 1 .. N /\ i + 1 \in 1 .. N + 1
      BY <1>1, <2>2
    <3> QED BY <1>3, <1>4, <1>5, <3>1
  <2> QED BY <2>1, <2>2
<1>7. Len(p) = Len(c) + 1 /\ 1 \in 1 .. N + 1
  BY <1>1, <1>4, <1>5
<1>8. Chained(c, p)
  BY <1>4, <1>6, <1>7 DEF Chained
<1> QED BY <1>4, <1>5, <1>7, <1>8 DEF c, p, s

\* The blocks of others are blocks.
LEMMA BranchType ==
    ASSUME PoolConstants, NEW start \in Nat, NEW len \in Nat, NEW br \in Branches(start, len)
    PROVE  br \in Seq(PoolBlock) /\ Len(br) = len
<1> DEFINE Made(gap, lists) == [i \in 1 .. len |-> [time |-> start + gap + i - 1, txs |-> lists[i]]]
<1>l. Branches(start, len) = {Made(gap, lists) : gap \in 1 .. MaxSlotGap, lists \in [1 .. len -> TxLists]}
  BY DEF Branches
<1> HIDE DEF Made
<1>m. PICK gap \in 1 .. MaxSlotGap, lists \in [1 .. len -> TxLists] : br = Made(gap, lists)
  BY <1>l
<1>1. br = [i \in 1 .. len |-> [time |-> start + gap + i - 1, txs |-> lists[i]]]
  BY <1>m DEF Made
<1>2. ASSUME NEW l \in TxLists
      PROVE  l \in Seq(Tx)
  <2>1. MaxForeign \in Nat
    BY PoolNumbers
  <2>2. PICK n \in 0 .. MaxForeign : l \in [1 .. n -> Tx]
    BY DEF TxLists
  <2>3. n \in Nat
    BY <2>1
  <2> QED BY <2>2, <2>3
<1>3. gap \in Nat
  BY DEF MaxSlotGap
<1>4. \A i \in 1 .. len : start + gap + i - 1 \in Nat /\ lists[i] \in Seq(Tx)
  BY <1>2, <1>3
<1>5. \A i \in 1 .. len : [time |-> start + gap + i - 1, txs |-> lists[i]] \in PoolBlock
  BY <1>4 DEF PoolBlock
<1> QED BY <1>1, <1>5

\* What a call leaves of the pool, over the state `base' and with `w' to restore.
Repooled(base, w) ==
    /\ pending' = Restored(base, w).list
    /\ session' = Restored(base, w).session

LEMMA RepooledFacts ==
    ASSUME PoolConstants, NEW base \in State, Fresh(base), NEW w \in Seq(Tx), Repooled(base, w)
    PROVE  LET p == [base |-> base, session |-> session', list |-> pending'] IN
           /\ pending' \in Seq(Tx) /\ session' \in Sessions /\ PoolGood(p)
           /\ Ordered(base.applied, w)
                 => \A t \in All(w) : t \in base.applied \cup All(pending') \/ ~CanApply(StOf(p), t)
<1> DEFINE p == Restored(base, w)
<1>1. p \in PoolRecord /\ p.base = base /\ PoolGood(p)
  BY RestoredFacts
<1>2. Ordered(base.applied, w)
         => \A i \in 1 .. Len(w) : w[i] \in StOf(p).applied \/ ~CanApply(StOf(p), w[i])
  BY RestoredFacts
<1>3. pending' = p.list /\ session' = p.session
  BY DEF Repooled
<1> HIDE DEF p
<1>4. p = [base |-> base, session |-> session', list |-> pending'] /\ p.list \in Seq(Tx) /\ p.session \in Sessions
  BY <1>1, <1>3, PoolFields
<1>5. StOf(p).applied = base.applied \cup All(pending')
  BY <1>1, <1>3, PoolApplied
<1>6. ASSUME Ordered(base.applied, w), NEW t \in All(w)
      PROVE  t \in base.applied \cup All(pending') \/ ~CanApply(StOf(p), t)
  <2>1. PICK i \in 1 .. Len(w) : t = w[i]
    BY DEF All, FirstOf
  <2> QED BY <1>2, <1>5, <1>6, <2>1
<1> QED BY <1>1, <1>3, <1>4, <1>6


\* What a call may not lose.
NoneLost ==
    \A t \in All(pending) \cup All(TxsOf(chain)) :
        t \in All(pending') \cup All(TxsOf(chain')) \/ ~CanApply(InSession', t)

\* The pool after a call that has left the chain `chain'' and has `w' to restore.
LEMMA AfterCall ==
    ASSUME PoolConstants, chain' \in Seq(PoolBlock), states' \in Seq(State),
           ChainGood(chain', states'), NEW w \in Seq(Tx), Repooled(HeadState', w)
    PROVE  /\ pending' \in Seq(Tx) /\ session' \in Sessions /\ PoolGood(PoolNow')
           /\ Ordered(HeadState'.applied, w)
                 => \A t \in All(w) : \/ t \in All(pending') \cup All(TxsOf(chain'))
                                      \/ ~CanApply(InSession', t)
<1> DEFINE base == HeadState'
           p == [base |-> base, session |-> session', list |-> pending']
<1>1. base = Last(states')
  BY DEF HeadState
<1>2. base \in State /\ Fresh(base) /\ base.applied = All(TxsOf(chain'))
  BY <1>1, ChainHead
<1>3. /\ pending' \in Seq(Tx) /\ session' \in Sessions /\ PoolGood(p)
      /\ Ordered(base.applied, w)
            => \A t \in All(w) : t \in base.applied \cup All(pending') \/ ~CanApply(StOf(p), t)
  <2> HIDE DEF base
  <2> QED BY <1>2, RepooledFacts DEF base
<1>4. PoolNow' = p
  BY DEF PoolNow
<1>5. InSession' = StOf(p)
  BY DEF InSession, StOf
<1> HIDE DEF base, p
<1> QED BY <1>2, <1>3, <1>4, <1>5 DEF base

\* What stays what it was.
LEMMA HeadNow ==
    ASSUME PoolConstants, PoolInv
    PROVE  /\ HeadState = states[Len(states)] /\ HeadState \in State /\ Fresh(HeadState)
           /\ HeadState.applied = All(TxsOf(chain)) /\ TxsOf(chain) \in Seq(Tx)
           /\ PoolNow \in PoolRecord /\ PoolNow.base = HeadState
           /\ PoolNow.session = session /\ PoolNow.list = pending
           /\ chain \in Seq(PoolBlock) /\ states \in Seq(State)
           /\ Chained(chain, states) /\ states[1] = GenesisState
           /\ Len(states) = Len(chain) + 1 /\ Len(chain) \in Nat
           /\ pending \in Seq(Tx) /\ session \in Sessions
<1>1. /\ chain \in Seq(PoolBlock) /\ states \in Seq(State) /\ ChainGood(chain, states)
      /\ pending \in Seq(Tx) /\ session \in Sessions
  BY DEF PoolInv, PoolTypes
<1>2. /\ HeadState = states[Len(states)] /\ HeadState \in State /\ Fresh(HeadState)
      /\ HeadState.applied = All(TxsOf(chain)) /\ TxsOf(chain) \in Seq(Tx)
      /\ Len(states) = Len(chain) + 1 /\ Len(chain) \in Nat
  BY <1>1, ChainHead DEF HeadState
<1>3. /\ PoolNow \in PoolRecord /\ PoolNow.base = HeadState
      /\ PoolNow.session = session /\ PoolNow.list = pending
  BY <1>1, <1>2, PoolFields DEF PoolNow
<1> QED BY <1>1, <1>2, <1>3 DEF ChainGood

\* What is pending was applied over the head, in this order.
LEMMA PendingOrdered ==
    ASSUME PoolConstants, PoolInv, failed # "size"
    PROVE  /\ Ordered(HeadState.applied, pending)
           /\ InSession = StOf(PoolNow)
           /\ InSession.applied = HeadState.applied \cup All(pending)
<1>1. PoolGood(PoolNow)
  BY DEF PoolInv
<1>2. /\ PoolNow \in PoolRecord /\ PoolNow.base = HeadState
      /\ PoolNow.session = session /\ PoolNow.list = pending
  BY HeadNow
<1>3. InSession = StOf(PoolNow)
  BY <1>2 DEF InSession, StOf
<1> QED BY <1>1, <1>2, <1>3, PoolApplied

LEMMA PoolStarts ==
    ASSUME PoolConstants, PoolInit
    PROVE  PoolInv
<1>1. /\ chain = << >> /\ states = <<GenesisState>> /\ pending = << >> /\ session = << >>
      /\ attempt = 0 /\ slot = 0 /\ failed = "no"
  BY DEF PoolInit
<1>2. GenesisState \in State
  BY GenesisFields
<1>3. chain \in Seq(PoolBlock) /\ Len(chain) = 0
  BY <1>1
<1> DEFINE g == GenesisState
<1> HIDE DEF g
<1>4. <<g>> \in Seq(State) /\ Len(<<g>>) = 1 /\ <<g>>[1] = g
  BY <1>2 DEF g
<1>5. states \in Seq(State) /\ Len(states) = 1 /\ states[1] = g
  BY <1>1, <1>4 DEF g
<1>6. HeadState = g
  BY <1>5 DEF HeadState, Last
<1>7. ChainGood(chain, states)
  BY <1>3, <1>5 DEF ChainGood, Chained, g
<1>8. PoolTypes
  <2>1. LastTime \in Nat /\ << >> \in Seq(Tx) /\ << >> \in Sessions
    BY PoolNumbers, SessionFacts
  <2>2. 0 \in 0 .. LastTime
    BY <2>1
  <2> QED BY <1>1, <1>3, <1>5, <2>1, <2>2 DEF PoolTypes
<1>9. PoolGood(PoolNow)
  <2>1. << >> \in Seq(Tx) /\ << >> \in Sessions /\ g \in State
    BY <1>2, SessionFacts DEF g
  <2>2. PoolNow.base = g /\ PoolNow.session = << >> /\ PoolNow.list = << >>
    BY <1>1, <1>6 DEF PoolNow
  <2>3. StOf(PoolNow) = g
    BY <2>2 DEF StOf
  <2>4. Run(g, << >>) = [ok |-> TRUE, st |-> g]
    BY <2>1, RunFolds
  <2> QED BY <2>2, <2>3, <2>4 DEF PoolGood
<1>10. SlotIsFilled
  BY <1>1 DEF SlotIsFilled
<1> QED BY <1>1, <1>7, <1>8, <1>9, <1>10 DEF PoolInv


-----------------------------------------------------------------------------
(* What each call does to the invariant, and that it loses nothing.        *)

PoolKept == PoolInv' /\ (failed = "no" => NoneLost)

\* A list that its state allows is one that a state with more in it allows.
LEMMA OrderedGrows ==
    ASSUME NEW A, NEW B, A \subseteq B, NEW u \in Seq(Tx), Ordered(A, u)
    PROVE  Ordered(B, u)
BY DEF Ordered

\* A call that restores the pool, in terms of what it restores.
LEMMA CallKeeps ==
    ASSUME PoolConstants, PoolInv,
           chain' \in Seq(PoolBlock), states' \in Seq(State), ChainGood(chain', states'),
           NEW w \in Seq(Tx), Repooled(HeadState', w), Ordered(HeadState'.applied, w),
           All(pending) \cup All(TxsOf(chain)) \subseteq All(w) \cup All(TxsOf(chain')),
           attempt' = 0, slot' \in 0 .. LastTime, failed' = "no"
    PROVE  PoolKept
<1>1. pending' \in Seq(Tx) /\ session' \in Sessions /\ PoolGood(PoolNow')
  BY AfterCall
<1>2. \A t \in All(w) : \/ t \in All(pending') \cup All(TxsOf(chain'))
                        \/ ~CanApply(InSession', t)
  BY AfterCall
<1>3. NoneLost
  BY <1>2 DEF NoneLost
<1>4. PoolTypes'
  BY <1>1 DEF PoolTypes
<1>5. SlotIsFilled'
  BY DEF SlotIsFilled
<1>6. ChainGood(chain, states)'
  OBVIOUS
<1>7. PoolInv'
  BY <1>1, <1>4, <1>5, <1>6 DEF PoolInv
<1> QED BY <1>3, <1>7 DEF PoolKept

LEMMA StutterKeeps ==
    ASSUME PoolConstants, PoolInv, UNCHANGED poolVars
    PROVE  PoolInv'
<1>1. /\ chain' = chain /\ states' = states /\ pending' = pending /\ session' = session
      /\ attempt' = attempt /\ slot' = slot /\ failed' = failed
  BY DEF poolVars, producer
<1> QED BY <1>1 DEF PoolInv, PoolTypes, PoolNow, HeadState, SlotIsFilled

LEMMA PushTransactionKeeps ==
    ASSUME PoolConstants, PoolInv, NEW t \in Tx, PushTransaction(t)
    PROVE  PoolKept
<1> DEFINE q == PushTo(PoolNow, t)
<1>1. /\ attempt = 0 /\ failed = "no" /\ pending' = q.list /\ session' = q.session
      /\ chain' = chain /\ states' = states /\ attempt' = attempt /\ slot' = slot /\ failed' = failed
  BY DEF PushTransaction, Settled, producer, PoolNow
<1>2. /\ PoolNow \in PoolRecord /\ PoolNow.base = HeadState
      /\ PoolNow.session = session /\ PoolNow.list = pending /\ pending \in Seq(Tx)
  BY HeadNow
<1>3. PoolGood(PoolNow)
  BY <1>1 DEF PoolInv
<1>4. /\ q \in PoolRecord /\ q.base = PoolNow.base /\ PoolGood(q)
      /\ CanApply(StOf(PoolNow), t) => q.list = Append(PoolNow.list, t)
      /\ ~CanApply(StOf(PoolNow), t) => q.list = PoolNow.list
  BY <1>2, <1>3, PushToFacts, PushToGood
<1> HIDE DEF q
<1>5. q.list \in Seq(Tx) /\ q.session \in Sessions /\ q = [base |-> q.base, session |-> q.session, list |-> q.list]
  BY <1>4, PoolFields
<1>6. HeadState' = HeadState
  BY <1>1 DEF HeadState
<1>7. PoolNow' = q
  BY <1>1, <1>2, <1>4, <1>5, <1>6 DEF PoolNow
<1>8. PoolTypes'
  BY <1>1, <1>5 DEF PoolInv, PoolTypes
<1>9. PoolInv'
  BY <1>1, <1>4, <1>7, <1>8 DEF PoolInv, SlotIsFilled
<1>10. All(pending) \subseteq All(pending')
  <2> DEFINE m == Append(pending, t)
             n == Len(pending)
  <2>1. m \in Seq(Tx) /\ Len(m) = n + 1 /\ n \in Nat /\ \A i \in 1 .. n : m[i] = pending[i] /\ i \in 1 .. n + 1
    BY <1>2
  <2>2. pending' = m \/ pending' = pending
    BY <1>1, <1>2, <1>4
  <2> HIDE DEF m, n
  <2>3. FirstOf(pending, n) \subseteq FirstOf(m, n + 1)
    BY <2>1 DEF FirstOf
  <2> QED BY <2>1, <2>2, <2>3 DEF All, n
<1>11. NoneLost
  BY <1>1, <1>10 DEF NoneLost
<1> QED BY <1>9, <1>11 DEF PoolKept

\* The list to restore when nothing was popped.
LEMMA NothingPopped ==
    ASSUME pending \in Seq(Tx), NEW base, SetPool(base, << >>)
    PROVE  Repooled(base, pending)
<1>1. << >> \o pending = pending
  OBVIOUS
<1> QED BY <1>1 DEF SetPool, Repooled

\* A block on top of the head, or none.
OneBlockMore(b) ==
    \/ /\ BlockApplies(HeadState, b)
       /\ chain' = Append(chain, b) /\ states' = Append(states, AfterBlock(HeadState, b))
    \/ chain' = chain /\ states' = states

LEMMA BlockExtends ==
    ASSUME PoolConstants, PoolInv, NEW b \in PoolBlock, OneBlockMore(b)
    PROVE  /\ chain' \in Seq(PoolBlock) /\ states' \in Seq(State) /\ ChainGood(chain', states')
           /\ HeadState.applied \subseteq HeadState'.applied
           /\ All(TxsOf(chain)) \subseteq All(TxsOf(chain'))
<1> DEFINE s == AfterBlock(HeadState, b)
<1> USE HeadNow
<1>1. CASE /\ BlockApplies(HeadState, b)
           /\ chain' = Append(chain, b) /\ states' = Append(states, s)
  <2>1. /\ Append(chain, b) \in Seq(PoolBlock) /\ Append(states, s) \in Seq(State)
        /\ Chained(Append(chain, b), Append(states, s)) /\ Append(states, s)[1] = states[1]
    BY <1>1, Extends
  <2>2. chain' \in Seq(PoolBlock) /\ states' \in Seq(State) /\ ChainGood(chain', states')
    BY <1>1, <2>1 DEF ChainGood
  <2>3. s.applied = HeadState.applied \cup All(b.txs)
    BY <1>1, AfterBlockFacts
  <2>4. HeadState' = Last(states') /\ Last(states').applied = All(TxsOf(chain'))
    BY <2>2, ChainHead DEF HeadState
  <2>5. Last(Append(states, s)) = s
    <3>1. states \in StateList /\ s \in State
      BY AfterBlockType DEF StateList
    <3> HIDE DEF s
    <3> QED BY <3>1, StateListFacts
  <2> QED BY <1>1, <2>2, <2>3, <2>4, <2>5
<1>2. CASE chain' = chain /\ states' = states
  BY <1>2 DEF HeadState, ChainGood
<1> QED BY <1>1, <1>2 DEF OneBlockMore

LEMMA ReceiveBlockKeeps ==
    ASSUME PoolConstants, PoolInv, NEW b \in PoolBlock, ReceiveBlock(b)
    PROVE  PoolKept
<1>1. /\ attempt = 0 /\ failed = "no" /\ SetPool(HeadState', << >>)
      /\ attempt' = attempt /\ slot' = slot /\ failed' = failed
  BY DEF ReceiveBlock, Settled, producer
<1>2. OneBlockMore(b)
  BY DEF ReceiveBlock, OneBlockMore
<1>3. /\ chain' \in Seq(PoolBlock) /\ states' \in Seq(State) /\ ChainGood(chain', states')
      /\ HeadState.applied \subseteq HeadState'.applied
      /\ All(TxsOf(chain)) \subseteq All(TxsOf(chain'))
  BY <1>2, BlockExtends
<1>4. pending \in Seq(Tx) /\ slot \in 0 .. LastTime
  BY DEF PoolInv, PoolTypes
<1>5. Repooled(HeadState', pending)
  BY <1>1, <1>4, NothingPopped
<1>6. Ordered(HeadState'.applied, pending)
  <2>1. Ordered(HeadState.applied, pending)
    BY <1>1, PendingOrdered
  <2> QED BY <1>3, <1>4, <2>1, OrderedGrows
<1> QED BY <1>1, <1>3, <1>4, <1>5, <1>6, CallKeeps


\* Blocks that apply one after the other to a state that the pool's head is
\* above of, and what they leave to restore.
LEMMA OverBranch ==
    ASSUME PoolConstants, NEW bs \in Seq(PoolBlock), NEW ss \in Seq(State), Chained(bs, ss)
    PROVE  /\ Popped(bs) \in Seq(Tx) /\ Ordered(ss[1].applied, Popped(bs))
           /\ ss[Len(ss)].applied = ss[1].applied \cup All(Popped(bs))
BY ChainedFacts DEF Popped

\* The blocks of a branch up to the first that fails.
LEMMA BranchRuns ==
    ASSUME NEW st \in State, NEW br \in Seq(PoolBlock)
    PROVE  LET q == RunBlocks(st, br).seq
               m == Len(q) - 1 IN
           /\ q \in Seq(State) /\ q[1] = st
           /\ SubSeq(br, 1, m) \in Seq(PoolBlock) /\ Chained(SubSeq(br, 1, m), q)
           /\ RunBlocks(st, br).ok => Chained(br, q)
<1> DEFINE r == RunBlocks(st, br)
           q == r.seq
           m == Len(q) - 1
           p == SubSeq(br, 1, m)
<1>1. /\ q \in StateList /\ q[1] = st /\ m \in 0 .. Len(br)
      /\ r.ok => Len(q) = Len(br) + 1
      /\ \A i \in 1 .. m : BlockApplies(q[i], br[i]) /\ q[i + 1] = AfterBlock(q[i], br[i])
  BY RunBlocksFacts
<1>2. q \in Seq(State) /\ Len(q) \in Nat
  BY <1>1, StateListFacts
<1> HIDE DEF r, q
<1>3. m \in Nat /\ Len(q) = m + 1
  BY <1>1, <1>2
<1> HIDE DEF m
<1>4. p \in Seq(PoolBlock) /\ Len(p) = m /\ \A i \in 1 .. m : p[i] = br[i]
  BY <1>1, <1>3
<1> HIDE DEF p
<1>5. Chained(p, q)
  BY <1>1, <1>3, <1>4 DEF Chained
<1>6. ASSUME r.ok
      PROVE  Chained(br, q)
  <2>1. m = Len(br)
    BY <1>1, <1>3, <1>6
  <2> QED BY <1>1, <1>6, <2>1 DEF Chained
<1> QED BY <1>1, <1>2, <1>4, <1>5, <1>6 DEF p, m, q, r

LEMMA ReceiveBranchKeeps ==
    ASSUME PoolConstants, PoolInv, NEW k \in Nat, NEW br \in Seq(PoolBlock), ReceiveBranch(k, br)
    PROVE  PoolKept
<1> DEFINE N == Len(chain)
           n == N - k
           old == SubSeq(chain, n + 1, N)
           olds == SubSeq(states, n + 1, N + 1)
           fork == states[n + 1]
           new == RunBlocks(fork, br)
           part == SubSeq(br, 1, Len(new.seq) - 1)
           o == Popped(old)
           f == Popped(part)
           H == HeadState.applied
<1> USE HeadNow
<1>1. N \in Nat /\ n \in 1 .. N - 1
  BY DEF ReceiveBranch
<1>2. Len(SubSeq(chain, 1, n)) = n
  BY <1>1
<1>3. /\ attempt = 0 /\ failed = "no" /\ attempt' = attempt /\ slot' = slot /\ failed' = failed
      /\ IF new.ok
         THEN /\ chain' = SubSeq(chain, 1, n) \o br
              /\ states' = SubSeq(states, 1, n) \o new.seq
              /\ SetPool(HeadState', o)
         ELSE /\ chain' = chain /\ states' = states
              /\ SetPool(HeadState, f \o o)
  BY <1>2 DEF ReceiveBranch, Settled, producer, Undone
<1>4. n + 1 \in 1 .. N + 1 /\ N \in (n + 1) - 1 .. N /\ n \in 0 .. N /\ n + 1 \in 1 .. Len(states)
  BY <1>1
<1>5. fork \in State
  BY <1>4
<1> HIDE DEF n, N
<1>6. /\ old \in Seq(PoolBlock) /\ olds \in Seq(State) /\ Chained(old, olds)
      /\ olds[1] = fork /\ olds[Len(olds)] = HeadState
  <2> DEFINE m == n + 1
  <2>1. m \in 1 .. Len(chain) + 1 /\ N \in m - 1 .. Len(chain) /\ Chained(chain, states)
    BY <1>4 DEF N
  <2> HIDE DEF m
  <2>2. /\ SubSeq(chain, m, N) \in Seq(PoolBlock) /\ SubSeq(states, m, N + 1) \in Seq(State)
        /\ Chained(SubSeq(chain, m, N), SubSeq(states, m, N + 1))
        /\ SubSeq(states, m, N + 1)[1] = states[m]
        /\ Len(SubSeq(states, m, N + 1)) = N - m + 2
        /\ SubSeq(states, m, N + 1)[N - m + 2] = states[N + 1]
    BY <2>1, PartChained
  <2>3. olds[Len(olds)] = states[N + 1]
    BY <2>2 DEF m
  <2> QED BY <2>2, <2>3 DEF N, m
<1>7. /\ new.seq \in Seq(State) /\ new.seq[1] = fork
      /\ part \in Seq(PoolBlock) /\ Chained(part, new.seq)
      /\ new.ok => Chained(br, new.seq)
  BY <1>5, BranchRuns
<1> HIDE DEF old, olds, new, part, fork
<1>8. o \in Seq(Tx) /\ Ordered(fork.applied, o) /\ H = fork.applied \cup All(o)
  BY <1>6, OverBranch
<1>9. f \in Seq(Tx) /\ Ordered(fork.applied, f)
  BY <1>7, OverBranch
<1>10. Ordered(H, pending) /\ pending \in Seq(Tx) /\ slot \in 0 .. LastTime
  BY <1>3, PendingOrdered DEF PoolInv, PoolTypes
<1>11. H = All(TxsOf(chain))
  OBVIOUS
<1> HIDE DEF o, f, H
<1>12. CASE new.ok
  <2> DEFINE q == new.seq
             ds == SubSeq(chain, 1, n) \o br
             ts == SubSeq(states, 1, n) \o q
  <2>a. n \in 0 .. Len(chain) /\ q \in Seq(State) /\ Chained(br, q) /\ q[1] = states[n + 1]
    BY <1>4, <1>7, <1>12 DEF N, fork
  <2>b. chain' = ds /\ states' = ts
    BY <1>3, <1>12
  <2> HIDE DEF q
  <2>c. /\ ds \in Seq(PoolBlock) /\ ts \in Seq(State) /\ Chained(ds, ts)
        /\ Len(ts) = n + Len(q) /\ ts[n + Len(q)] = q[Len(q)] /\ ts[1] = states[1]
    <3>1. SwitchedTo(chain, states, n, br, q)
      BY <2>a, Switched
    <3> QED BY <3>1 DEF SwitchedTo
  <2> HIDE DEF ds, ts
  <2>1. /\ chain' \in Seq(PoolBlock) /\ states' \in Seq(State) /\ Chained(chain', states')
        /\ states'[1] = states[1]
    BY <2>b, <2>c
  <2>2. states'[Len(states')] = new.seq[Len(new.seq)]
    BY <2>b, <2>c DEF q
  <2>3. ChainGood(chain', states')
    BY <2>1 DEF ChainGood
  <2>4. HeadState' = states'[Len(states')] /\ HeadState'.applied = All(TxsOf(chain'))
    BY <2>1, <2>3, ChainHead DEF HeadState
  <2>5. fork.applied \subseteq HeadState'.applied
    <3>1. new.seq[Len(new.seq)].applied = fork.applied \cup All(Popped(br))
      BY <1>7, <1>12, OverBranch
    <3> QED BY <2>2, <2>4, <3>1
  <2> DEFINE w == o \o pending
  <2>6. Repooled(HeadState', w)
    BY <1>3, <1>12 DEF SetPool, Repooled
  <2>7. w \in Seq(Tx) /\ All(w) = All(o) \cup All(pending)
    BY <1>8, <1>10, Joined
  <2>8. Ordered(fork.applied, w)
    BY <1>8, <1>10, JoinedOrdered
  <2> HIDE DEF w
  <2>9. Ordered(HeadState'.applied, w)
    BY <2>5, <2>7, <2>8, OrderedGrows
  <2>10. All(pending) \cup All(TxsOf(chain)) \subseteq All(w) \cup All(TxsOf(chain'))
    BY <1>8, <1>11, <2>4, <2>5, <2>7
  <2> QED BY <1>3, <1>10, <2>1, <2>3, <2>6, <2>7, <2>9, <2>10, CallKeeps
<1>13. CASE ~new.ok
  <2>1. chain' = chain /\ states' = states /\ SetPool(HeadState, f \o o)
    BY <1>3, <1>13
  <2>2. HeadState' = HeadState /\ ChainGood(chain', states')
    BY <2>1 DEF HeadState, ChainGood
  <2> DEFINE u == f \o o
             w == u \o pending
  <2>3. u \in Seq(Tx) /\ All(u) = All(f) \cup All(o)
    BY <1>8, <1>9, Joined
  <2>4. Ordered(H, u)
    <3>1. Ordered(fork.applied \cup All(f), o)
      BY <1>8, OrderedGrows
    <3>2. Ordered(fork.applied, u)
      BY <1>8, <1>9, <3>1, JoinedOrdered
    <3>3. fork.applied \subseteq H
      BY <1>8
    <3> HIDE DEF u
    <3> QED BY <2>3, <3>2, <3>3, OrderedGrows
  <2>5. Repooled(HeadState', w)
    BY <2>1, <2>2 DEF SetPool, Repooled
  <2> HIDE DEF u
  <2>6. w \in Seq(Tx) /\ All(w) = All(u) \cup All(pending)
    BY <1>10, <2>3, Joined
  <2>7. Ordered(H \cup All(u), pending)
    BY <1>10, OrderedGrows
  <2>8. Ordered(H, w)
    BY <1>10, <2>3, <2>4, <2>7, JoinedOrdered
  <2> HIDE DEF w
  <2>9. Ordered(HeadState'.applied, w)
    BY <2>2, <2>8 DEF H
  <2>10. All(pending) \cup All(TxsOf(chain)) \subseteq All(w) \cup All(TxsOf(chain'))
    BY <2>1, <2>6
  <2> QED BY <1>3, <1>10, <2>1, <2>2, <2>5, <2>6, <2>9, <2>10, CallKeeps
<1> QED BY <1>12, <1>13

\* The producer's own block fits or is thrown away; where it fits it applies.
LEMMA GenerateBlockKeeps ==
    ASSUME PoolConstants, PoolInv, NEW when \in 1 .. LastTime, GenerateBlock(when)
    PROVE  PoolKept
<1> DEFINE c == Collected(when).txs
           b == [time |-> when, txs |-> c]
           fits == BlockSize(c) <= MaxBlockSize
<1> USE HeadNow
<1>1. LastTime \in Nat /\ when \in Nat /\ when \in 0 .. LastTime /\ 0 \in 0 .. LastTime
  BY PoolNumbers
<1>2. c \in Seq(Tx) /\ Run(HeadState, c).ok /\ (pending = << >> => c = << >>)
  BY CollectedApplies
<1> HIDE DEF c
<1>3. b \in PoolBlock /\ b.time = when /\ b.txs = c
  BY <1>1, <1>2 DEF PoolBlock
<1>4. failed = "no" /\ HeadState.time < when
  BY DEF GenerateBlock
<1>5. fits => BlockApplies(HeadState, b)
  BY <1>2, <1>3, <1>4 DEF BlockApplies
<1>6. attempt \in {0, 1} /\ (attempt > 0 => fits)
  <2>1. attempt \in 0 .. 1 /\ (attempt > 0 => pending = << >>)
    BY DEF PoolInv, PoolTypes
  <2>2. pending = << >> => fits
    BY <1>2, EmptyBlockSize, PoolNumbers
  <2> HIDE DEF fits
  <2> QED BY <2>1, <2>2
<1>7. CASE fits
  <2>1. /\ chain' = Append(chain, b) /\ states' = Append(states, AfterBlock(HeadState, b))
        /\ SetPool(HeadState', << >>)
        /\ failed' = "no" /\ attempt' = 0 /\ slot' = 0
    BY <1>3, <1>5, <1>7 DEF GenerateBlock, c
  <2>2. OneBlockMore(b)
    BY <1>5, <1>7, <2>1 DEF OneBlockMore
  <2> HIDE DEF b
  <2>3. /\ chain' \in Seq(PoolBlock) /\ states' \in Seq(State) /\ ChainGood(chain', states')
        /\ HeadState.applied \subseteq HeadState'.applied
        /\ All(TxsOf(chain)) \subseteq All(TxsOf(chain'))
    BY <1>3, <2>2, BlockExtends
  <2>4. Repooled(HeadState', pending)
    BY <2>1, NothingPopped
  <2>5. Ordered(HeadState'.applied, pending)
    <3>1. Ordered(HeadState.applied, pending)
      BY <1>4, PendingOrdered
    <3> QED BY <2>3, <3>1, OrderedGrows
  <2> QED BY <1>1, <2>1, <2>3, <2>4, <2>5, CallKeeps
<1>8. CASE ~fits
  <2>1. /\ chain' = chain /\ states' = states /\ session' = << >> /\ pending' = pending
        /\ failed' = "size" /\ attempt' = attempt /\ slot' = when
    BY <1>3, <1>8 DEF GenerateBlock, c
  <2>2. attempt = 0
    BY <1>6, <1>8
  <2>3. PoolTypes'
    BY <1>1, <2>1, SessionFacts DEF PoolInv, PoolTypes
  <2>4. SlotIsFilled' /\ ~(attempt' > 0)
    BY <2>1, <2>2 DEF SlotIsFilled
  <2>5. PoolInv'
    BY <2>1, <2>3, <2>4 DEF PoolInv
  <2>6. NoneLost
    BY <2>1 DEF NoneLost
  <2> QED BY <2>5, <2>6 DEF PoolKept
<1> QED BY <1>7, <1>8

LEMMA ClearPendingKeeps ==
    ASSUME PoolConstants, PoolInv, ClearPending
    PROVE  PoolKept
<1> USE HeadNow
<1>1. attempt \in 0 .. 1 /\ ~(attempt > 0)
  BY DEF PoolInv, PoolTypes, ClearPending, SlotIsFilled
<1>2. attempt = 0
  BY <1>1
<1>3. /\ failed # "no" /\ failed' = "no" /\ pending' = << >> /\ session' = << >>
      /\ attempt' = 1 /\ slot' = slot /\ chain' = chain /\ states' = states
  BY <1>2 DEF ClearPending, Retries
<1>4. HeadState' = HeadState
  BY <1>3 DEF HeadState
<1>5. PoolTypes'
  <2>1. << >> \in Seq(Tx) /\ << >> \in Sessions
    BY SessionFacts
  <2> QED BY <1>3, <2>1 DEF PoolInv, PoolTypes
<1>6. PoolGood(PoolNow')
  <2> DEFINE g == HeadState
  <2>1. PoolNow' = [base |-> g, session |-> << >>, list |-> << >>] /\ g \in State
    BY <1>3, <1>4 DEF PoolNow
  <2> HIDE DEF g
  <2>2. PoolNow'.base = g /\ PoolNow'.session = << >> /\ PoolNow'.list = << >>
    BY <2>1
  <2>3. StOf(PoolNow') = g
    BY <2>2 DEF StOf
  <2>4. Run(g, << >>) = [ok |-> TRUE, st |-> g]
    BY <2>1, RunFolds
  <2> QED BY <2>2, <2>3, <2>4 DEF PoolGood
<1>7. SlotIsFilled'
  BY <1>3 DEF SlotIsFilled
<1>8. PoolInv'
  BY <1>3, <1>5, <1>6, <1>7 DEF PoolInv
<1> QED BY <1>3, <1>8 DEF PoolKept


LEMMA FirstBlock ==
    ASSUME NEW bs \in Seq(PoolBlock), Len(bs) = 1
    PROVE  bs[1] \in PoolBlock
<1>1. 1 \in 1 .. Len(bs)
  OBVIOUS
<1> QED BY <1>1

LEMMA PoolGoesOn ==
    ASSUME PoolConstants, PoolInv, [PoolNext]_poolVars
    PROVE  /\ PoolInv'
           /\ PoolNext /\ failed = "no" => NoneLost
<1> USE HeadNow
<1>1. CASE UNCHANGED poolVars /\ ~PoolNext
  BY <1>1, StutterKeeps
<1>2. CASE PoolNext
  <2>1. ASSUME NEW t \in Tx, PushTransaction(t)
        PROVE  PoolKept
    BY <2>1, PushTransactionKeeps
  <2>2. ASSUME NEW br \in Branches(HeadState.time, 1), ReceiveBlock(br[1])
        PROVE  PoolKept
    <3>1. HeadState.time \in Nat /\ 1 \in Nat
      BY StateFields
    <3>2. br \in Seq(PoolBlock) /\ Len(br) = 1
      BY <3>1, BranchType
    <3>3. br[1] \in PoolBlock
      BY <3>2, FirstBlock
    <3> QED BY <2>2, <3>3, ReceiveBlockKeeps
  <2>3. ASSUME NEW k \in 1 .. MaxPop, k < Len(chain),
               NEW br \in Branches(chain[Len(chain) - k].time, k + 1), ReceiveBranch(k, br)
        PROVE  PoolKept
    <3>1. MaxPop \in Nat
      BY DEF PoolConstants
    <3>2. k \in Nat /\ k + 1 \in Nat /\ Len(chain) - k \in 1 .. Len(chain)
      BY <2>3, <3>1
    <3>3. chain[Len(chain) - k] \in PoolBlock
      BY <3>2
    <3>4. chain[Len(chain) - k].time \in Nat
      BY <3>3, BlockFields
    <3>5. br \in Seq(PoolBlock)
      BY <3>2, <3>4, BranchType
    <3> QED BY <2>3, <3>2, <3>5, ReceiveBranchKeeps
  <2>4. ASSUME NEW when \in 1 .. LastTime, GenerateBlock(when)
        PROVE  PoolKept
    BY <2>4, GenerateBlockKeeps
  <2>5. ClearPending => PoolKept
    BY ClearPendingKeeps
  <2>6. PoolKept
    BY <1>2, <2>1, <2>2, <2>3, <2>4, <2>5 DEF PoolNext
  <2> QED BY <2>6 DEF PoolKept
<1> QED BY <1>1, <1>2

\* The invariant of the pool holds in every state: the pool is typed, its
\* session is the head with what is pending on top, and the chain's states are
\* those its blocks make.
THEOREM PoolSafety == PoolSpec => []PoolInv
<1>1. PoolInit => PoolInv
  BY PoolAssumption, PoolStarts
<1>2. PoolInv /\ [PoolNext]_poolVars => PoolInv'
  BY PoolAssumption, PoolGoesOn
<1> QED BY <1>1, <1>2, PTL DEF PoolSpec

\* The variables of the pool keep their types.
THEOREM PoolTypeCorrect == PoolSpec => []PoolTypeOK
<1>1. PoolInv => PoolTypeOK
  <2> SUFFICES ASSUME PoolConstants, PoolInv
               PROVE  PoolTypeOK
    BY PoolAssumption
  <2>1. session = << >> \/ (Len(session) = 1 /\ session[1] \in State)
    <3>1. session \in Sessions
      BY HeadNow
    <3>2. ASSUME session # << >>
          PROVE  Len(session) = 1 /\ session[1] \in State
      <4>1. session[1] \in State /\ session = <<session[1]>>
        BY <3>1, <3>2, SessionFacts
      <4> QED BY <4>1
    <3> QED BY <3>2
  <2>2. chain \in Seq([time : Nat, txs : Seq(Tx)]) /\ Len(states) = Len(chain) + 1
    BY HeadNow DEF PoolBlock
  <2> QED BY <2>1, <2>2 DEF PoolInv, PoolTypes, PoolTypeOK, Retries
<1> QED BY <1>1, PoolSafety, PTL

\* _pending_tx_session is what _pending_tx makes of the head, after any calls.
THEOREM SessionHoldsPending == PoolSpec => []SessionIsPending
<1>1. PoolInv => SessionIsPending
  <2> SUFFICES ASSUME PoolConstants, PoolInv, failed # "size"
               PROVE  IF session = << >> THEN pending = << >>
                      ELSE Run(HeadState, pending) = [ok |-> TRUE, st |-> session[1]]
    BY PoolAssumption DEF SessionIsPending
  <2>1. PoolGood(PoolNow) /\ PoolNow.base = HeadState /\ PoolNow.session = session /\ PoolNow.list = pending
    BY HeadNow DEF PoolInv
  <2> QED BY <2>1 DEF PoolGood, StOf
<1> QED BY <1>1, PoolSafety, PTL

\* No transaction is in the chain twice, however blocks came, were switched
\* away and came back: where its dedupe object is gone it has expired.
THEOREM NoneAppliedTwice == PoolSpec => []AppliedOnce
<1>1. PoolInv => AppliedOnce
  <2> SUFFICES ASSUME PoolConstants, PoolInv
               PROVE  AppliedOnce
    BY PoolAssumption
  <2>1. TxsOf(chain) \in Seq(Tx) /\ Distinct(TxsOf(chain))
    BY ChainHead DEF PoolInv, PoolTypes
  <2>2. DOMAIN TxsOf(chain) = 1 .. Len(TxsOf(chain))
    BY <2>1
  <2> QED BY <2>1, <2>2 DEF AppliedOnce, IsInjective, Distinct
<1> QED BY <1>1, PoolSafety, PTL

\* The producer's own block is never rejected, and its second attempt fills
\* the slot.
THEOREM ProducerFillsSlot == PoolSpec => []SlotIsFilled
<1>1. PoolInv => SlotIsFilled
  BY DEF PoolInv
<1> QED BY <1>1, PoolSafety, PTL

\* No call loses a transaction that still applies: neither one that was
\* pending nor one that a switch took off the chain.
THEOREM PoolDropsNothing == PoolSpec => NothingDropped
<1> DEFINE A == failed = "no" =>
                  \A t \in Range(pending) \cup Range(TxsOf(chain)) :
                     t \in Range(pending') \cup Range(TxsOf(chain')) \/ ~CanApply(InSession', t)
<1>c. PoolConstants
  BY PoolAssumption
<1>1. ASSUME PoolInv, PoolNext, PoolInv'
      PROVE  A
  <2>1. failed = "no" => NoneLost
    BY <1>c, <1>1, PoolGoesOn
  <2>2. /\ Range(pending) = All(pending)
        /\ Range(TxsOf(chain)) = All(TxsOf(chain))
    BY <1>c, <1>1, HeadNow, AllIsRange
  <2>3. Range(pending') = All(pending')
    BY <1>1, AllIsRange DEF PoolInv, PoolTypes
  <2>4. Range(TxsOf(chain')) = All(TxsOf(chain'))
    <3>1. chain' \in Seq(PoolBlock)
      BY <1>1 DEF PoolInv, PoolTypes
    <3>2. TxsOf(chain') \in Seq(Tx)
      BY <3>1, TxsOfMembers
    <3> QED BY <3>2, AllIsRange
  <2> QED BY <2>1, <2>2, <2>3, <2>4 DEF NoneLost
<1>2. PoolInv /\ PoolInv' /\ [PoolNext]_poolVars => [A]_poolVars
  BY <1>1
<1> QED BY <1>2, PoolSafety, PTL DEF PoolSpec, NothingDropped

-----------------------------------------------------------------------------
(* The blocks a node fetches.                                              *)


NoneOr(b) == b \in Block \/ b = NoBlock

\* A path leads from number 1 to its block, through the block it builds on.
LEMMA TreeFacts ==
    ASSUME SyncConstants
    PROVE  /\ NoBlock \notin Block
           /\ \A b \in Block :
                 /\ Path[b] \in Seq(Block) /\ Num(b) = Len(Path[b]) /\ Chain(b) = Path[b]
                 /\ Num(b) \in Nat /\ Num(b) > 0 /\ Path[b][Num(b)] = b
                 /\ NoneOr(Parent(b))
                 /\ Path[b] = Append(Chain(Parent(b)), b)
                 /\ Num(b) = 1 => Parent(b) = NoBlock
           /\ Num(NoBlock) = 0 /\ Chain(NoBlock) = << >>
<1>1. NoBlock \notin Block
  BY DEF SyncConstants
<1>2. Num(NoBlock) = 0 /\ Chain(NoBlock) = << >>
  BY DEF Num, Chain
<1>3. ASSUME NEW b \in Block
      PROVE  /\ Path[b] \in Seq(Block) /\ Num(b) = Len(Path[b]) /\ Chain(b) = Path[b]
             /\ Num(b) \in Nat /\ Num(b) > 0 /\ Path[b][Num(b)] = b
             /\ NoneOr(Parent(b))
             /\ Path[b] = Append(Chain(Parent(b)), b)
             /\ Num(b) = 1 => Parent(b) = NoBlock
  <2>1. Path[b] \in Seq(Block) /\ Path[b] # << >> /\ Path[b][Len(Path[b])] = b
    BY DEF SyncConstants, Last
  <2>2. Num(b) = Len(Path[b]) /\ Chain(b) = Path[b]
    BY <1>1 DEF Num, Chain
  <2>3. Num(b) \in Nat /\ Num(b) > 0
    BY <2>1, <2>2
  <2>4. Num(b) = 1 => Parent(b) = NoBlock
    BY DEF Parent
  <2>5. ASSUME Num(b) # 1
        PROVE  Parent(b) \in Block
    <3> DEFINE n == Num(b)
    <3>a. n \in Nat /\ n > 0 /\ n # 1 /\ Len(Path[b]) = n
      BY <2>2, <2>3, <2>5
    <3> HIDE DEF n
    <3>b. n - 1 \in 1 .. n
      BY <3>a
    <3>1. Num(b) - 1 \in 1 .. Len(Path[b])
      BY <3>a, <3>b DEF n
    <3>2. Path[b][Num(b) - 1] \in Block
      BY <2>1, <3>1
    <3> QED BY <2>5, <3>2 DEF Parent
  <2>6. Path[b] = Append(Chain(Parent(b)), b)
    BY <2>2 DEF SyncConstants
  <2> QED BY <2>1, <2>2, <2>3, <2>4, <2>5, <2>6 DEF NoneOr
<1> QED BY <1>1, <1>2, <1>3


\* Block i of the path has number i, and builds on the one before.
OnPath(b) ==
    \A i \in 1 .. Num(b) :
        /\ Num(Path[b][i]) = i
        /\ Parent(Path[b][i]) = IF i = 1 THEN NoBlock ELSE Path[b][i - 1]

\* A path that extends a path in order is in order.
LEMMA PathStep ==
    ASSUME SyncConstants, NEW b \in Block,
           \A c \in Block : Num(c) < Num(b) => OnPath(c)
    PROVE  OnPath(b)
<1> DEFINE p == Parent(b)
           n == Num(b)
<1>1. /\ Path[b] \in Seq(Block) /\ n = Len(Path[b]) /\ n \in Nat /\ n > 0 /\ Path[b][n] = b
      /\ NoneOr(p) /\ Path[b] = Append(Chain(p), b)
      /\ n = 1 => p = NoBlock
  BY TreeFacts
<1>2. CASE p = NoBlock
  <2>1. Path[b] = <<b>>
    BY <1>1, <1>2, TreeFacts
  <2>2. n = 1
    BY <1>1, <2>1
  <2>3. \A i \in 1 .. 1 : i = 1
    OBVIOUS
  <2> QED BY <1>1, <1>2, <2>2, <2>3 DEF OnPath
<1>3. CASE p \in Block
  <2> DEFINE q == Path[p]
             m == Num(p)
  <2>1. q \in Seq(Block) /\ m = Len(q) /\ m \in Nat /\ m > 0 /\ q[m] = p /\ Path[b] = Append(q, b)
    BY <1>1, <1>3, TreeFacts
  <2> HIDE DEF q
  <2>2. n = m + 1 /\ \A i \in 1 .. m : Path[b][i] = q[i]
    BY <1>1, <2>1
  <2>3. OnPath(p)
    BY <1>3, <2>1, <2>2
  <2>4. ASSUME NEW i \in 1 .. n
        PROVE  /\ Num(Path[b][i]) = i
               /\ Parent(Path[b][i]) = IF i = 1 THEN NoBlock ELSE Path[b][i - 1]
    <3>1. CASE i = n
      <4>1. n # 1 /\ n - 1 = m /\ m \in 1 .. m
        BY <2>1, <2>2
      <4>2. Path[b][n - 1] = p
        BY <2>1, <2>2, <4>1
      <4> QED BY <1>1, <3>1, <4>1, <4>2
    <3>2. CASE i # n
      <4>1. i \in 1 .. m /\ (i # 1 => i - 1 \in 1 .. m)
        BY <2>1, <2>2, <3>2
      <4>2. Path[b][i] = q[i] /\ (i # 1 => Path[b][i - 1] = q[i - 1])
        BY <2>2, <4>1
      <4>3. Num(q[i]) = i /\ Parent(q[i]) = IF i = 1 THEN NoBlock ELSE q[i - 1]
        BY <2>3, <4>1 DEF OnPath, q
      <4> QED BY <4>2, <4>3
    <3> QED BY <3>1, <3>2
  <2> QED BY <2>4 DEF OnPath
<1> QED BY <1>1, <1>2, <1>3 DEF NoneOr

\* Every path is in order.
LEMMA PathFacts ==
    ASSUME SyncConstants
    PROVE  \A b \in Block : OnPath(b)
<1> SUFFICES ASSUME NEW b \in Block
             PROVE  OnPath(b)
  OBVIOUS
<1> DEFINE N == Num(b)
           Z == {n \in 1 .. N : \A c \in Block : Num(c) = n => OnPath(c)}
<1>1. N \in Nat /\ N > 0
  BY TreeFacts
<1> HIDE DEF N
<1>2. ASSUME NEW m \in 1 .. N, \A i \in 1 .. m - 1 : i \in Z
      PROVE  m \in Z
  <2>1. ASSUME NEW c \in Block, Num(c) = m
        PROVE  OnPath(c)
    <3>1. ASSUME NEW d \in Block, Num(d) < Num(c)
          PROVE  OnPath(d)
      <4>1. Num(d) \in Nat /\ Num(d) > 0
        BY TreeFacts
      <4>2. Num(d) \in 1 .. m - 1
        BY <1>1, <2>1, <3>1, <4>1
      <4> QED BY <1>2, <4>2
    <3> QED BY <3>1, PathStep
  <2> QED BY <2>1
<1> HIDE DEF Z
<1>3. N \in Z
  <2>1. \A n \in 1 .. N : n \in Z
    BY <1>1, <1>2, Downwards
  <2>2. N \in 1 .. N
    BY <1>1
  <2> QED BY <2>1, <2>2
<1> QED BY <1>3 DEF Z, N

\* Each block of the list builds on the one before.
Linked(l) == \A i \in 1 .. Len(l) - 1 : Parent(l[i + 1]) = l[i]

\* The blocks from `from' to `to' of a path.
LEMMA PartOfPath ==
    ASSUME SyncConstants, NEW h, NoneOr(h),
           NEW from \in Nat, NEW to \in Nat, 0 < from, to <= Num(h)
    PROVE  LET ids == SubSeq(Chain(h), from, to) IN
           /\ ids \in Seq(Block) /\ Linked(ids)
           /\ \A i \in 1 .. Len(ids) : Num(ids[i]) \in Nat /\ Num(ids[i]) <= Num(h)
<1> DEFINE c == Chain(h)
           n == Num(h)
           ids == SubSeq(c, from, to)
<1>1. c \in Seq(Block) /\ Len(c) = n /\ n \in Nat
  <2>1. CASE h \in Block
    BY <2>1, TreeFacts
  <2>2. CASE h = NoBlock
    BY <2>2, TreeFacts
  <2> QED BY <2>1, <2>2 DEF NoneOr
<1>2. \A i \in 1 .. n : /\ Num(c[i]) = i
                        /\ Parent(c[i]) = IF i = 1 THEN NoBlock ELSE c[i - 1]
  <2>1. CASE h \in Block
    BY <2>1, TreeFacts, PathFacts DEF OnPath
  <2>2. CASE h = NoBlock
    BY <2>2, TreeFacts
  <2> QED BY <2>1, <2>2 DEF NoneOr
<1> HIDE DEF c, n
<1>3. CASE from <= to
  <2>1. from \in 1 .. Len(c) + 1 /\ to \in from - 1 .. Len(c)
    BY <1>1, <1>3 DEF n
  <2>2. /\ ids \in Seq(Block) /\ Len(ids) = to - from + 1
        /\ \A i \in 1 .. to - from + 1 : ids[i] = c[from + i - 1] /\ from + i - 1 \in 1 .. Len(c)
    BY <1>1, <2>1, PartOfSeq
  <2> HIDE DEF ids
  <2>3. \A i \in 1 .. Len(ids) : Num(ids[i]) \in Nat /\ Num(ids[i]) <= n
    BY <1>1, <1>2, <2>2
  <2>4. ASSUME NEW i \in 1 .. Len(ids) - 1
        PROVE  Parent(ids[i + 1]) = ids[i]
    <3>1. i \in 1 .. to - from + 1 /\ i + 1 \in 1 .. to - from + 1 /\ from + (i + 1) - 1 = (from + i - 1) + 1
      BY <2>2
    <3>2. ids[i] = c[from + i - 1] /\ ids[i + 1] = c[(from + i - 1) + 1]
          /\ from + i - 1 \in 1 .. n /\ (from + i - 1) + 1 \in 1 .. n
      BY <1>1, <2>2, <3>1
    <3>3. (from + i - 1) + 1 # 1 /\ ((from + i - 1) + 1) - 1 = from + i - 1
      BY <3>2
    <3> QED BY <1>2, <3>2, <3>3
  <2> QED BY <2>2, <2>3, <2>4 DEF Linked, ids, c, n
<1>4. CASE ~(from <= to)
  <2>1. ids = << >>
    BY <1>1, <1>4
  <2>2. Len(<< >>) = 0 /\ << >> \in Seq(Block)
    OBVIOUS
  <2> HIDE DEF ids
  <2>3. ids \in Seq(Block) /\ Len(ids) = 0
    BY <2>1, <2>2
  <2> QED BY <2>3 DEF Linked, ids, c
<1> QED BY <1>3, <1>4


-----------------------------------------------------------------------------
(* The synopsis, and the ids for it.                                       *)

PickStep(s, A, r, i) == IF i \in A THEN Append(r, s[i]) ELSE r
Indices(s) == [i \in DOMAIN s |-> i]
PartsOf(s) == {r \in Seq(Block) : \A k \in 1 .. Len(r) : \E i \in 1 .. Len(s) : r[k] = s[i]}

LEMMA IndicesFacts ==
    ASSUME NEW s \in Seq(Block)
    PROVE  /\ Len(Indices(s)) = Len(s) /\ DOMAIN Indices(s) = 1 .. Len(s) /\ Len(s) \in Nat
           /\ \A n \in 1 .. Len(s) : Indices(s)[n] = n
<1>1. DOMAIN s = 1 .. Len(s) /\ Len(s) \in Nat
  OBVIOUS
<1> DEFINE n == Len(s)
<1> HIDE DEF n
<1>2. [i \in 1 .. n |-> i] \in Seq(Nat) /\ Len([i \in 1 .. n |-> i]) = n
  BY <1>1 DEF n
<1>3. Indices(s) = [i \in 1 .. n |-> i]
  BY <1>1 DEF Indices, n
<1> QED BY <1>1, <1>2, <1>3 DEF n

LEMMA PartsGrow ==
    ASSUME NEW s \in Seq(Block), NEW r \in PartsOf(s), NEW i \in 1 .. Len(s)
    PROVE  Append(r, s[i]) \in PartsOf(s)
<1> DEFINE x == s[i]
           q == Append(r, x)
<1>1. x \in Block /\ r \in Seq(Block) /\ \A k \in 1 .. Len(r) : \E j \in 1 .. Len(s) : r[k] = s[j]
  BY DEF PartsOf
<1> HIDE DEF x
<1>2. q \in Seq(Block) /\ Len(q) = Len(r) + 1 /\ q[Len(r) + 1] = x /\ Len(r) \in Nat
      /\ \A k \in 1 .. Len(r) : q[k] = r[k]
  BY <1>1
<1> HIDE DEF q
<1>3. \A k \in 1 .. Len(q) : k \in 1 .. Len(r) \/ k = Len(r) + 1
  BY <1>2
<1>4. \A k \in 1 .. Len(q) : \E j \in 1 .. Len(s) : q[k] = s[j]
  BY <1>1, <1>2, <1>3 DEF x
<1>5. q \in PartsOf(s)
  BY <1>2, <1>4 DEF PartsOf
<1> QED BY <1>5 DEF q, x

\* FoldIs, with what it needs as one fact.
Folding(g, h, b, F, N, S) ==
    /\ N \in Nat /\ b \in S /\ F \in [1 .. N -> [S -> S]] /\ h \in [0 .. N -> S]
    /\ Follows(h, b, F, N) /\ FoldsWithin(g, b, F, N, S)

EndsAlike(g, h, N) == g[1 .. N] = h[N]

LEMMA FoldEnds ==
    ASSUME NEW g, NEW h, NEW b, NEW F, NEW N, NEW S, Folding(g, h, b, F, N, S)
    PROVE  EndsAlike(g, h, N)
BY FoldIs DEF Folding, EndsAlike

\* What the fold of Pick has after each index.
LEMMA PickIs ==
    ASSUME NEW s \in Seq(Block), NEW A
    PROVE  \E h \in [0 .. Len(Indices(s)) -> PartsOf(s)] :
              /\ h[0] = << >>
              /\ \A n \in 1 .. Len(Indices(s)) : h[n] = PickStep(s, A, h[n - 1], Indices(s)[n])
              /\ Pick(s, A) = h[Len(Indices(s))]
<1> DEFINE N == Len(Indices(s))
           D == DOMAIN Indices(s)
           b == << >>
           R == PartsOf(s)
           Raw(g) == g = [t \in SUBSET D |->
                            IF t = {} THEN b
                            ELSE PickStep(s, A, g[t \ {LargestOf(t)}], Indices(s)[LargestOf(t)])]
           F == [n \in 1 .. N |-> [r \in R |-> PickStep(s, A, r, Indices(s)[n])]]
<1>1. Pick(s, A) = (CHOOSE g : Raw(g))[D]
  BY DEF Pick, FoldLeft, MapThenFoldSet, Max, LargestOf, PickStep, Indices
<1>2. N \in Nat /\ D = 1 .. N
  BY IndicesFacts
<1>3. b \in R
  <2>1. << >> \in Seq(Block) /\ Len(<< >>) = 0
    OBVIOUS
  <2> QED BY <2>1 DEF PartsOf
<1>4. \A n \in 1 .. N, r \in R : PickStep(s, A, r, Indices(s)[n]) \in R
  <2>1. ASSUME NEW n \in 1 .. N, NEW r \in R
        PROVE  PickStep(s, A, r, Indices(s)[n]) \in R
    <3>1. n \in 1 .. Len(s) /\ Indices(s)[n] = n
      BY IndicesFacts
    <3> QED BY <3>1, PartsGrow DEF PickStep
  <2> QED BY <2>1
<1>5. F \in [1 .. N -> [R -> R]] /\ \A n \in 1 .. N, r \in R : F[n][r] = PickStep(s, A, r, Indices(s)[n])
  BY <1>4
<1> HIDE DEF N, D, F, b, R
<1>6. PICK h \in [0 .. N -> R] : Follows(h, b, F, N)
  BY <1>2, <1>3, <1>5, Recursion
<1>7. PICK g0 \in [SUBSET (1 .. N) -> R] : FoldsOver(g0, b, F, N)
  BY <1>2, <1>3, <1>5, FoldExists
<1>8. Raw(g0)
  <2>1. ASSUME NEW t \in SUBSET D
        PROVE  g0[t] = IF t = {} THEN b
                       ELSE PickStep(s, A, g0[t \ {LargestOf(t)}], Indices(s)[LargestOf(t)])
    <3>1. CASE t = {}
      BY <1>2, <1>7, <3>1 DEF FoldsOver
    <3>2. CASE t # {}
      <4>1. LargestOf(t) \in 1 .. N /\ t \ {LargestOf(t)} \in SUBSET (1 .. N)
        BY <1>2, <3>2, LargestIs
      <4>2. g0[t] = F[LargestOf(t)][g0[t \ {LargestOf(t)}]]
        BY <1>2, <1>7, <3>2 DEF FoldsOver
      <4> QED BY <1>5, <1>7, <3>2, <4>1, <4>2
    <3> QED BY <3>1, <3>2
  <2> QED BY <1>2, <1>7, <2>1
<1>9. ASSUME NEW g, Raw(g)
      PROVE  g[D] = h[N]
  <2>1. \A t \in SUBSET D : g[t] = IF t = {} THEN b
                                  ELSE PickStep(s, A, g[t \ {LargestOf(t)}], Indices(s)[LargestOf(t)])
    BY <1>9
  <2> HIDE DEF Raw
  <2>2. g[{}] = b
    BY <2>1
  <2>3. ASSUME NEW t \in SUBSET (1 .. N), t # {}, g[t \ {LargestOf(t)}] \in R
        PROVE  g[t] = F[LargestOf(t)][g[t \ {LargestOf(t)}]]
    <3>1. LargestOf(t) \in 1 .. N
      BY <1>2, <2>3, LargestIs
    <3> QED BY <1>2, <1>5, <2>1, <2>3, <3>1
  <2>4. FoldsWithin(g, b, F, N, R)
    BY <2>2, <2>3 DEF FoldsWithin
  <2>5. Folding(g, h, b, F, N, R)
    BY <1>2, <1>3, <1>5, <1>6, <2>4 DEF Folding
  <2>6. EndsAlike(g, h, N)
    BY <2>5, FoldEnds
  <2> QED BY <1>2, <2>6 DEF EndsAlike
<1> HIDE DEF Raw
<1>10. (CHOOSE g : Raw(g))[D] = h[N]
  BY <1>8, <1>9
<1>11. \A n \in 1 .. N : h[n] = PickStep(s, A, h[n - 1], Indices(s)[n])
  <2>1. ASSUME NEW n \in 1 .. N
        PROVE  h[n] = PickStep(s, A, h[n - 1], Indices(s)[n])
    <3>1. n - 1 \in 0 .. N
      BY <1>2
    <3>2. h[n] = F[n][h[n - 1]] /\ h[n - 1] \in R
      BY <1>6, <3>1 DEF Follows
    <3> QED BY <1>5, <3>2
  <2> QED BY <2>1
<1>12. h[0] = b
  BY <1>6 DEF Follows
<1>13. Pick(s, A) = h[N]
  BY <1>1, <1>10
<1> QED BY <1>6, <1>11, <1>12, <1>13 DEF N, b, R

\* What is picked of a list is of the list, and its first element is picked.
LEMMA PickFacts ==
    ASSUME NEW s \in Seq(Block), NEW A
    PROVE  /\ Pick(s, A) \in Seq(Block)
           /\ Range(Pick(s, A)) \subseteq Range(s)
           /\ 1 \in A /\ s # << >> => Pick(s, A) # << >>
<1> DEFINE N == Len(s)
           q == Pick(s, A)
<1>1. Len(Indices(s)) = N /\ N \in Nat /\ \A n \in 1 .. N : Indices(s)[n] = n
  BY IndicesFacts
<1>0. PICK h \in [0 .. Len(Indices(s)) -> PartsOf(s)] :
         /\ h[0] = << >>
         /\ \A n \in 1 .. Len(Indices(s)) : h[n] = PickStep(s, A, h[n - 1], Indices(s)[n])
         /\ q = h[Len(Indices(s))]
  BY PickIs
<1>2. /\ h \in [0 .. N -> PartsOf(s)]
      /\ h[0] = << >> /\ (\A n \in 1 .. N : h[n] = PickStep(s, A, h[n - 1], n)) /\ q = h[N]
  BY <1>0, <1>1
<1>3. q \in PartsOf(s)
  BY <1>1, <1>2
<1>4. q \in Seq(Block) /\ \A k \in 1 .. Len(q) : \E i \in 1 .. N : q[k] = s[i]
  BY <1>3 DEF PartsOf
<1> HIDE DEF q
<1>5. Range(q) \subseteq Range(s)
  <2>1. DOMAIN q = 1 .. Len(q) /\ DOMAIN s = 1 .. N
    BY <1>4
  <2> QED BY <1>4, <2>1 DEF Range
<1>6. ASSUME 1 \in A, s # << >>
      PROVE  q # << >>
  <2> DEFINE Z == {n \in 0 .. N : n = 0 \/ h[n] # << >>}
  <2>1. N > 0
    BY <1>1, <1>6
  <2>2. \A n \in 0 .. N : h[n] \in Seq(Block)
    BY <1>2 DEF PartsOf
  <2>3. ASSUME NEW n \in 1 .. N, n - 1 \in Z
        PROVE  n \in Z
    <3>1. h[n] = PickStep(s, A, h[n - 1], n) /\ n - 1 \in 0 .. N /\ n \in 0 .. N /\ n # 0 /\ s[n] \in Block
      BY <1>1, <1>2
    <3>2. ASSUME NEW r \in Seq(Block), NEW x \in Block
          PROVE  Append(r, x) # << >>
      <4> DEFINE e == Append(r, x)
      <4>1. e \in Seq(Block) /\ Len(e) = Len(r) + 1 /\ Len(r) \in Nat
        OBVIOUS
      <4> HIDE DEF e
      <4>2. Len(e) # 0
        BY <4>1
      <4>3. e # << >>
        BY <4>2
      <4> QED BY <4>3 DEF e
    <3>3. CASE n \in A
      BY <2>2, <3>1, <3>2, <3>3 DEF PickStep
    <3>4. CASE n \notin A
      <4>1. n - 1 # 0
        BY <1>6, <3>4
      <4>2. h[n - 1] # << >>
        BY <2>3, <4>1
      <4> QED BY <3>1, <3>4, <4>2 DEF PickStep
    <3> QED BY <3>3, <3>4
  <2>4. 0 \in Z
    BY <1>1
  <2> HIDE DEF Z
  <2>5. N \in Z
    <3>1. \A n \in 0 .. N : n \in Z
      BY <1>1, <2>3, <2>4, Upwards
    <3>2. N \in 0 .. N
      BY <1>1
    <3> QED BY <3>1, <3>2
  <2> QED BY <1>2, <2>1, <2>5 DEF Z
<1> QED BY <1>4, <1>5, <1>6 DEF q

\* The first number is visited.
LEMMA VisitsFirst ==
    ASSUME NEW high \in Nat
    PROVE  1 \in Visited(high)
<1> DEFINE F == [n \in 1 .. high |-> [x \in Int |-> x + (high - x + 2) \div 2]]
           Raw(g) == g = [i \in 0 .. high |->
                            IF i = 0 THEN 1 ELSE g[i - 1] + (high - g[i - 1] + 2) \div 2]
           step == CHOOSE g : Raw(g)
           one == 1
           I == Int
<1>1. Visited(high) = {step[i] : i \in 0 .. high}
  BY DEF Visited
<1>2. \A x \in Int : x + (high - x + 2) \div 2 \in Int
  OBVIOUS
<1>3. F \in [1 .. high -> [Int -> Int]] /\ \A n \in 1 .. high, x \in Int : F[n][x] = x + (high - x + 2) \div 2
  BY <1>2
<1> HIDE DEF F
<1>4. PICK h \in [0 .. high -> Int] : Follows(h, 1, F, high)
  <2>1. one \in I /\ F \in [1 .. high -> [I -> I]]
    BY <1>3
  <2> HIDE DEF one, I
  <2>2. \E h \in [0 .. high -> I] : Follows(h, one, F, high)
    BY <2>1, Recursion
  <2> QED BY <2>2 DEF one, I
<1>5. Raw(h)
  <2>1. ASSUME NEW i \in 0 .. high
        PROVE  h[i] = IF i = 0 THEN 1 ELSE h[i - 1] + (high - h[i - 1] + 2) \div 2
    <3>1. CASE i = 0
      BY <1>4, <3>1 DEF Follows
    <3>2. CASE i # 0
      <4>1. i \in 1 .. high /\ i - 1 \in 0 .. high
        BY <3>2
      <4>2. h[i] = F[i][h[i - 1]] /\ h[i - 1] \in Int
        BY <1>4, <4>1 DEF Follows
      <4> QED BY <1>3, <3>2, <4>1, <4>2
    <3> QED BY <3>1, <3>2
  <2> QED BY <1>4, <2>1
<1>6. \A g : Raw(g) => g[0] = 1
  <2>1. 0 \in 0 .. high
    OBVIOUS
  <2> QED BY <2>1
<1> HIDE DEF Raw
<1>7. Raw(step)
  BY <1>5
<1>8. step[0] = 1 /\ 0 \in 0 .. high
  BY <1>6, <1>7
<1> QED BY <1>1, <1>8

-----------------------------------------------------------------------------
(* Lists, connections and calls.                                           *)

LEMMA RangeIs ==
    ASSUME NEW S, NEW s \in Seq(S)
    PROVE  /\ Range(s) \subseteq S
           /\ \A x : x \in Range(s) <=> \E i \in 1 .. Len(s) : s[i] = x
<1>1. DOMAIN s = 1 .. Len(s) /\ \A i \in 1 .. Len(s) : s[i] \in S
  OBVIOUS
<1> QED BY <1>1 DEF Range

LEMMA RangeOfTail ==
    ASSUME NEW S, NEW s \in Seq(S), s # << >>
    PROVE  /\ Head(s) \in S /\ Tail(s) \in Seq(S) /\ Head(s) = s[1] /\ Len(s) \in Nat /\ Len(s) > 0
           /\ Len(Tail(s)) = Len(s) - 1 /\ \A i \in 1 .. Len(s) - 1 : Tail(s)[i] = s[i + 1]
           /\ Range(s) = Range(Tail(s)) \cup {Head(s)}
<1> DEFINE t == Tail(s)
<1>1. Len(s) \in Nat /\ Len(s) > 0 /\ Head(s) = s[1] /\ Head(s) \in S
  OBVIOUS
<1>2. t \in Seq(S) /\ Len(t) = Len(s) - 1 /\ \A i \in 1 .. Len(s) - 1 : t[i] = s[i + 1]
  BY <1>1
<1> HIDE DEF t
<1>3. ASSUME NEW x \in Range(s)
      PROVE  x \in Range(t) \/ x = s[1]
  <2>1. PICK i \in 1 .. Len(s) : s[i] = x
    BY RangeIs
  <2>2. CASE i # 1
    <3>1. i - 1 \in 1 .. Len(s) - 1 /\ (i - 1) + 1 = i
      BY <1>1, <2>2
    <3>2. t[i - 1] = x
      BY <1>2, <2>1, <3>1
    <3> QED BY <1>2, <3>1, <3>2, RangeIs
  <2> QED BY <2>1, <2>2
<1>4. ASSUME NEW x \in Range(t)
      PROVE  x \in Range(s)
  <2>1. PICK i \in 1 .. Len(t) : t[i] = x
    BY <1>2, RangeIs
  <2>2. i \in 1 .. Len(s) - 1 /\ i + 1 \in 1 .. Len(s)
    BY <1>1, <1>2
  <2>3. s[i + 1] = x
    BY <1>2, <2>1, <2>2
  <2> QED BY <2>2, <2>3, RangeIs
<1>5. s[1] \in Range(s)
  <2>1. 1 \in 1 .. Len(s)
    BY <1>1
  <2> QED BY <2>1, RangeIs
<1> QED BY <1>1, <1>2, <1>3, <1>4, <1>5 DEF t

LEMMA RangeOfAppend ==
    ASSUME NEW S, NEW s \in Seq(S), NEW x \in S
    PROVE  Append(s, x) \in Seq(S) /\ Range(Append(s, x)) = Range(s) \cup {x}
<1> DEFINE t == Append(s, x)
<1>1. t \in Seq(S) /\ Len(t) = Len(s) + 1 /\ Len(s) \in Nat /\ t[Len(s) + 1] = x
      /\ \A i \in 1 .. Len(s) : t[i] = s[i]
  OBVIOUS
<1> HIDE DEF t
<1>2. \A i \in 1 .. Len(t) : i \in 1 .. Len(s) \/ i = Len(s) + 1
  BY <1>1
<1>3. \A i \in 1 .. Len(s) : i \in 1 .. Len(t)
  BY <1>1
<1>4. Len(s) + 1 \in 1 .. Len(t)
  BY <1>1
<1>5. \A y : y \in Range(t) <=> y \in Range(s) \cup {x}
  BY <1>1, <1>2, <1>3, <1>4, RangeIs
<1> QED BY <1>1, <1>5 DEF t

LEMMA RangeOfJoin ==
    ASSUME NEW S, NEW s \in Seq(S), NEW t \in Seq(S)
    PROVE  s \o t \in Seq(S) /\ Range(s \o t) = Range(s) \cup Range(t)
<1> DEFINE w == s \o t
<1>1. w \in Seq(S) /\ JoinOf(w, s, t) /\ Len(s) \in Nat /\ Len(t) \in Nat
  BY JoinedSeq
<1> HIDE DEF w
<1>2. Len(w) = Len(s) + Len(t) /\ (\A i \in 1 .. Len(s) : w[i] = s[i])
      /\ \A i \in 1 .. Len(t) : w[Len(s) + i] = t[i]
  BY <1>1 DEF JoinOf
<1>3. \A i \in 1 .. Len(s) : i \in 1 .. Len(w)
  BY <1>1, <1>2
<1>4. \A i \in 1 .. Len(t) : Len(s) + i \in 1 .. Len(w)
  BY <1>1, <1>2
<1>5. ASSUME NEW y \in Range(w)
      PROVE  y \in Range(s) \/ y \in Range(t)
  <2>1. PICK i \in 1 .. Len(w) : w[i] = y
    BY <1>1, RangeIs
  <2>2. CASE i \in 1 .. Len(s)
    BY <1>2, <2>1, <2>2, RangeIs
  <2>3. CASE i \notin 1 .. Len(s)
    <3>1. i - Len(s) \in 1 .. Len(t) /\ Len(s) + (i - Len(s)) = i
      BY <1>1, <1>2, <2>3
    <3>2. t[i - Len(s)] = y
      BY <1>2, <2>1, <3>1
    <3> QED BY <3>1, <3>2, RangeIs
  <2> QED BY <2>2, <2>3
<1>6. \A y \in Range(s) : y \in Range(w)
  BY <1>1, <1>2, <1>3, RangeIs, SMTT(30)
<1>7. \A y \in Range(t) : y \in Range(w)
  BY <1>1, <1>2, <1>4, RangeIs
<1>8. \A y : y \in Range(w) <=> y \in Range(s) \cup Range(t)
  BY <1>5, <1>6, <1>7
<1> QED BY <1>1, <1>8 DEF w

LEMMA RangeOfPart ==
    ASSUME NEW S, NEW s \in Seq(S), NEW from \in Nat, NEW to \in Nat, 0 < from, to <= Len(s)
    PROVE  /\ SubSeq(s, from, to) \in Seq(S)
           /\ Range(SubSeq(s, from, to)) \subseteq Range(s)
<1> DEFINE t == SubSeq(s, from, to)
<1>1. CASE from <= to
  <2>1. from \in 1 .. Len(s) + 1 /\ to \in from - 1 .. Len(s)
    BY <1>1
  <2>2. /\ t \in Seq(S) /\ Len(t) = to - from + 1
        /\ \A i \in 1 .. to - from + 1 : t[i] = s[from + i - 1] /\ from + i - 1 \in 1 .. Len(s)
    BY <2>1, PartOfSeq
  <2> HIDE DEF t
  <2>3. ASSUME NEW x \in Range(t)
        PROVE  x \in Range(s)
    <3>1. PICK i \in 1 .. Len(t) : t[i] = x
      BY <2>2, RangeIs
    <3>2. from + i - 1 \in 1 .. Len(s) /\ s[from + i - 1] = x
      BY <2>2, <3>1
    <3> QED BY <3>2, RangeIs
  <2> QED BY <2>2, <2>3 DEF t
<1>2. CASE ~(from <= to)
  <2>1. t = << >>
    BY <1>2
  <2> HIDE DEF t
  <2>2. t \in Seq(S) /\ Range(t) = {}
    <3>1. << >> \in Seq(S) /\ DOMAIN << >> = {}
      OBVIOUS
    <3> QED BY <2>1, <3>1 DEF Range
  <2> QED BY <2>2 DEF t
<1> QED BY <1>1, <1>2

-----------------------------------------------------------------------------
(* The synopsis that is sent, and the list that comes back.                *)

\* The chain that ends with a block is as long as the block's number.
LEMMA ChainFacts ==
    ASSUME SyncConstants, NEW h, NoneOr(h)
    PROVE  /\ Chain(h) \in Seq(Block) /\ Len(Chain(h)) = Num(h) /\ Num(h) \in Nat
           /\ h \in Block => Chain(h) # << >>
<1>1. CASE h \in Block
  <2>1. Chain(h) \in Seq(Block) /\ Len(Chain(h)) = Num(h) /\ Num(h) \in Nat /\ Num(h) > 0
    BY <1>1, TreeFacts
  <2> DEFINE c == Chain(h)
  <2>2. c \in Seq(Block) /\ Len(c) # 0
    BY <2>1
  <2> HIDE DEF c
  <2>3. c # << >>
    BY <2>2
  <2> QED BY <2>1, <2>3 DEF c
<1>2. CASE h = NoBlock
  BY <1>2, TreeFacts
<1> QED BY <1>1, <1>2 DEF NoneOr

\* A set of blocks that has the parents of its blocks has their ancestors.
LEMMA AncestorsIn ==
    ASSUME SyncConstants, NEW K, \A b \in Block : b \in K => Parent(b) \in K,
           NEW b \in Block, b \in K
    PROVE  Range(Path[b]) \subseteq K
<1> DEFINE n == Num(b)
           s == Path[b]
           Z == {i \in 0 .. n - 1 : s[n - i] \in K}
<1>1. s \in Seq(Block) /\ Len(s) = n /\ n \in Nat /\ n > 0 /\ s[n] = b
  BY TreeFacts
<1>2. \A i \in 1 .. n : Parent(s[i]) = IF i = 1 THEN NoBlock ELSE s[i - 1]
  BY PathFacts DEF OnPath
<1> HIDE DEF n, s
<1>3. 0 \in Z
  <2>1. n - 0 = n /\ 0 \in 0 .. n - 1
    BY <1>1
  <2> QED BY <1>1, <2>1
<1>4. ASSUME NEW i \in 1 .. n - 1, i - 1 \in Z
      PROVE  i \in Z
  <2>1. n - (i - 1) \in 1 .. n /\ n - (i - 1) # 1 /\ (n - (i - 1)) - 1 = n - i /\ i \in 0 .. n - 1
    BY <1>1
  <2>2. s[n - (i - 1)] \in Block /\ s[n - (i - 1)] \in K
    BY <1>1, <1>4, <2>1
  <2>3. Parent(s[n - (i - 1)]) = s[n - i]
    BY <1>2, <2>1
  <2> QED BY <2>1, <2>2, <2>3
<1> HIDE DEF Z
<1>5. \A i \in 0 .. n - 1 : i \in Z
  <2>1. n - 1 \in Nat
    BY <1>1
  <2> DEFINE m == n - 1
  <2> HIDE DEF m
  <2>2. m \in Nat /\ \A i \in 1 .. m : i - 1 \in Z => i \in Z
    BY <1>4, <2>1 DEF m
  <2>3. \A i \in 0 .. m : i \in Z
    BY <1>3, <2>2, Upwards
  <2> QED BY <2>3 DEF m
<1>6. ASSUME NEW k \in 1 .. n
      PROVE  s[k] \in K
  <2>1. n - k \in 0 .. n - 1 /\ n - (n - k) = k
    BY <1>1
  <2> QED BY <1>5, <2>1 DEF Z
<1> QED BY <1>1, <1>6, RangeIs DEF s

\* A synopsis is not empty, and consists of the chain up to the reference point
\* and of the list.
LEMMA SynopsisFacts ==
    ASSUME SyncConstants, NEW ref, NoneOr(ref), NEW ids \in Seq(Block), held.head \in Block
    PROVE  LET s == CreateSynopsis(ref, ids)
               r == IF ref = NoBlock THEN held.head ELSE ref
           IN  s \in Seq(Block) /\ s # << >> /\ Range(s) \subseteq Range(Path[r]) \cup Range(ids)
<1> DEFINE r == IF ref = NoBlock THEN held.head ELSE ref
           path == Chain(r)
           mine == GetBlockchainSynopsis(ref, Len(ids))
           s == CreateSynopsis(ref, ids)
<1>1. r \in Block
  BY DEF NoneOr
<1>2. path \in Seq(Block) /\ path # << >> /\ path = Path[r]
  BY <1>1, TreeFacts, ChainFacts DEF NoneOr
<1>3. mine = Pick(path, Visited(Len(path) + Len(ids)))
  BY DEF GetBlockchainSynopsis
<1> HIDE DEF path, mine
<1>4. Len(path) + Len(ids) \in Nat
  BY <1>2
<1>5. 1 \in Visited(Len(path) + Len(ids))
  BY <1>4, VisitsFirst
<1>6. mine \in Seq(Block) /\ mine # << >> /\ Range(mine) \subseteq Range(path)
  BY <1>2, <1>3, <1>5, PickFacts
<1>7. CASE ids = << >>
  <2>1. s = mine
    BY <1>7 DEF CreateSynopsis, mine
  <2> QED BY <1>2, <1>6, <2>1
<1>8. CASE ids # << >>
  <2> DEFINE first == Num(ids[1])
             high == first + Len(ids) - 1
             A == { n - first + 1 : n \in { m \in Visited(high) : m >= first } }
             more == Pick(ids, A)
  <2>1. s = mine \o more
    BY <1>8 DEF CreateSynopsis, mine
  <2> HIDE DEF A
  <2>2. more \in Seq(Block) /\ Range(more) \subseteq Range(ids)
    BY PickFacts
  <2> HIDE DEF more
  <2>3. mine \o more \in Seq(Block) /\ Range(mine \o more) = Range(mine) \cup Range(more)
    BY <1>6, <2>2, RangeOfJoin
  <2>4. mine \o more # << >>
    <3> DEFINE w == mine \o more
    <3>1. w \in Seq(Block) /\ Len(w) = Len(mine) + Len(more) /\ Len(mine) \in Nat /\ Len(more) \in Nat /\ Len(mine) # 0
      BY <1>6, <2>2
    <3> HIDE DEF w
    <3>2. Len(w) # 0
      BY <3>1
    <3>3. w # << >>
      BY <3>2
    <3> QED BY <3>3 DEF w
  <2> QED BY <1>2, <1>6, <2>1, <2>2, <2>3, <2>4
<1> QED BY <1>7, <1>8

\* A list of blocks that build on each other still does without its first.
LEMMA TailLinked ==
    ASSUME NEW l \in Seq(Block), l # << >>, Linked(l)
    PROVE  Tail(l) \in Seq(Block) /\ Linked(Tail(l))
           /\ (Tail(l) # << >> => Parent(Tail(l)[1]) = l[1])
<1> DEFINE t == Tail(l)
<1>1. t \in Seq(Block) /\ Len(t) = Len(l) - 1 /\ Len(l) \in Nat /\ Len(l) > 0 /\ \A i \in 1 .. Len(l) - 1 : t[i] = l[i + 1]
  BY RangeOfTail
<1> HIDE DEF t
<1>2. ASSUME NEW i \in 1 .. Len(t) - 1
      PROVE  Parent(t[i + 1]) = t[i]
  <2>1. i \in 1 .. Len(l) - 1 /\ i + 1 \in 1 .. Len(l) - 1
    BY <1>1
  <2>2. t[i] = l[i + 1] /\ t[i + 1] = l[(i + 1) + 1]
    BY <1>1, <2>1
  <2>3. Parent(l[(i + 1) + 1]) = l[i + 1]
    BY <2>1 DEF Linked
  <2> QED BY <2>2, <2>3
<1>3. ASSUME t # << >>
      PROVE  Parent(t[1]) = l[1]
  <2>1. Len(t) # 0 /\ Len(t) \in Nat
    BY <1>1, <1>3
  <2>2. 1 \in 1 .. Len(l) - 1
    BY <1>1, <2>1
  <2>3. t[1] = l[1 + 1] /\ Parent(l[1 + 1]) = l[1]
    BY <1>1, <2>2 DEF Linked
  <2> QED BY <2>3
<1> QED BY <1>1, <1>2, <1>3 DEF Linked, t

\* So does what is left without its first n blocks.
LEMMA PartLinked ==
    ASSUME NEW l \in Seq(Block), Linked(l), NEW n \in Nat, n < Len(l)
    PROVE  LET t == SubSeq(l, n + 1, Len(l)) IN
           t \in Seq(Block) /\ t # << >> /\ Linked(t) /\ t[1] = l[n + 1]
<1> DEFINE from == n + 1
           to == Len(l)
           t == SubSeq(l, from, to)
<1>1. to \in Nat /\ from \in 1 .. to + 1 /\ to \in from - 1 .. to /\ from <= to /\ from \in Nat
  OBVIOUS
<1>2. /\ t \in Seq(Block) /\ Len(t) = to - from + 1
      /\ \A i \in 1 .. to - from + 1 : t[i] = l[from + i - 1] /\ from + i - 1 \in 1 .. to
  <2>1. to = Len(l)
    OBVIOUS
  <2> HIDE DEF from, to
  <2> QED BY <1>1, <2>1, PartOfSeq
<1> HIDE DEF t, from, to
<1>3. ASSUME NEW i \in 1 .. Len(t) - 1
      PROVE  Parent(t[i + 1]) = t[i]
  <2>1. i \in 1 .. to - from + 1 /\ i + 1 \in 1 .. to - from + 1 /\ from + (i + 1) - 1 = (from + i - 1) + 1
        /\ from + i - 1 \in 1 .. to - 1
    BY <1>1, <1>2
  <2>2. t[i] = l[from + i - 1] /\ t[i + 1] = l[(from + i - 1) + 1]
    BY <1>2, <2>1
  <2>3. Parent(l[(from + i - 1) + 1]) = l[from + i - 1]
    BY <2>1 DEF Linked, to
  <2> QED BY <2>2, <2>3
<1>4. t[1] = l[from] /\ Len(t) # 0
  <2>1. 1 \in 1 .. to - from + 1 /\ from + 1 - 1 = from
    BY <1>1
  <2> QED BY <1>1, <1>2, <2>1
<1>5. t # << >>
  BY <1>4
<1> QED BY <1>2, <1>3, <1>4, <1>5 DEF Linked, t, from, to


\* What GetBlockIds returns is part of the chain.
LEMMA BlockIdsFacts ==
    ASSUME SyncConstants, NEW h, NoneOr(h), NEW s \in Seq(Block)
    PROVE  LET ids == GetBlockIds(Chain(h), s) IN
           /\ ids \in Seq(Block) /\ Linked(ids)
           /\ \A i \in 1 .. Len(ids) : Num(ids[i]) \in Nat /\ Num(ids[i]) <= Num(h)
<1> DEFINE c == Chain(h)
           known == { i \in DOMAIN s : s[i] \in Range(c) }
           from == IF s = << >> THEN 1 ELSE Num(s[Max(known)])
           to == Min({from + Limit - 1, Len(c)})
           ids == GetBlockIds(c, s)
<1>1. c \in Seq(Block) /\ Len(c) = Num(h) /\ Num(h) \in Nat
  BY ChainFacts
<1>2. CASE s # << >> /\ known = {}
  <2>1. ids = << >>
    BY <1>2 DEF GetBlockIds
  <2>2. Len(<< >>) = 0 /\ << >> \in Seq(Block)
    OBVIOUS
  <2> HIDE DEF ids
  <2>3. ids \in Seq(Block) /\ Len(ids) = 0
    BY <2>1, <2>2
  <2> QED BY <2>3 DEF Linked, ids, c
<1>3. CASE ~(s # << >> /\ known = {})
  <2>1. ids = SubSeq(c, from, to)
    BY <1>3 DEF GetBlockIds
  <2>2. from \in Nat /\ 0 < from
    <3>1. CASE s # << >>
      <4>1. known \subseteq 0 .. Len(s) /\ known # {} /\ Len(s) \in Nat
        BY <1>3, <3>1
      <4>2. \E x \in known : \A y \in known : y <= x
        <5> HIDE DEF known
        <5> QED BY <4>1, NatMax
      <4>3. Max(known) \in known
        BY <4>2 DEF Max
      <4>4. s[Max(known)] \in Block
        BY <4>3
      <4> QED BY <3>1, <4>4, TreeFacts
    <3> QED BY <3>1
  <2>3. to \in Nat /\ to <= Num(h)
    <3> HIDE DEF from
    <3> DEFINE x == from + Limit - 1
               y == Len(c)
    <3>1. x \in Nat /\ y \in Nat /\ y = Num(h)
      <4>1. Limit \in Nat /\ Limit > 1
        BY DEF SyncConstants
      <4> QED BY <1>1, <2>2, <4>1
    <3> HIDE DEF x, y
    <3>2. \E m \in {x, y} : \A k \in {x, y} : m <= k
      BY <3>1
    <3>3. to \in {x, y} /\ \A k \in {x, y} : to <= k
      BY <3>2 DEF Min, x, y
    <3> HIDE DEF to
    <3> QED BY <3>1, <3>3
  <2> HIDE DEF from, to
  <2> QED BY <2>1, <2>2, <2>3, PartOfPath
<1> QED BY <1>2, <1>3

\* What comes back is a part of some chain.
LEMMA RepliesFacts ==
    ASSUME SyncConstants, SyncTypeOK, NEW p \in Peer, NEW ids \in Replies(p)
    PROVE  /\ ids \in Seq(Block) /\ Linked(ids)
           /\ Remaining(Chain(tip[p]), ids) \in Nat
           /\ peers[p].sent # << >>
<1> DEFINE c == Chain(tip[p])
           sent == peers[p].sent
           all == GetBlockIds(c, Head(sent))
<1>1. sent # << >> /\ (ids = all \/ (all # << >> /\ ids = Tail(all)))
  BY DEF Replies
<1>2. sent \in Seq(Seq(Block)) /\ tip[p] \in Block \cup {NoBlock}
  <2>1. peers[p] \in Connection /\ tip[p] \in Block \cup {NoBlock}
    BY DEF SyncTypeOK
  <2> QED BY <2>1 DEF Connection
<1>3. NoneOr(tip[p])
  BY <1>2 DEF NoneOr
<1>4. Head(sent) \in Seq(Block)
  BY <1>1, <1>2
<1>5. /\ all \in Seq(Block) /\ Linked(all)
      /\ \A i \in 1 .. Len(all) : Num(all[i]) \in Nat /\ Num(all[i]) <= Num(tip[p])
  <2> DEFINE s == Head(sent)
  <2> HIDE DEF s, sent
  <2> QED BY <1>3, <1>4, BlockIdsFacts DEF s
<1>6. c \in Seq(Block) /\ Len(c) = Num(tip[p]) /\ Num(tip[p]) \in Nat
  BY <1>3, ChainFacts
<1> HIDE DEF all
<1>7. /\ ids \in Seq(Block) /\ Linked(ids)
      /\ \A i \in 1 .. Len(ids) : Num(ids[i]) \in Nat /\ Num(ids[i]) <= Num(tip[p])
  <2>1. CASE ids = all
    BY <1>5, <2>1
  <2>2. CASE all # << >> /\ ids = Tail(all)
    <3>1. ids \in Seq(Block) /\ Linked(ids)
      BY <1>5, <2>2, TailLinked
    <3>2. /\ Len(ids) = Len(all) - 1 /\ Len(all) \in Nat /\ Len(all) > 0
          /\ \A i \in 1 .. Len(all) - 1 : ids[i] = all[i + 1]
      BY <1>5, <2>2, RangeOfTail
    <3>3. \A i \in 1 .. Len(ids) : i \in 1 .. Len(all) - 1 /\ i + 1 \in 1 .. Len(all)
      BY <3>2
    <3> QED BY <1>5, <3>1, <3>2, <3>3
  <2> QED BY <1>1, <2>1, <2>2
<1>8. Remaining(c, ids) \in Nat
  <2>1. CASE ids = << >>
    BY <2>1 DEF Remaining
  <2>2. CASE ids # << >>
    <3>1. Len(ids) \in 1 .. Len(ids)
      BY <1>7, <2>2
    <3>2. Num(ids[Len(ids)]) \in Nat /\ Num(ids[Len(ids)]) <= Num(tip[p])
      BY <1>7, <3>1
    <3>3. Remaining(c, ids) = Len(c) - Num(ids[Len(ids)])
      BY <2>2 DEF Remaining, Last
    <3> QED BY <1>6, <3>2, <3>3
  <2> QED BY <2>1, <2>2
<1> QED BY <1>1, <1>7, <1>8

-----------------------------------------------------------------------------
(* What holds of a connection and the calls made for it.                   *)

\* The blocks among the calls J, those that the delegate has or will have,
\* and with them the invalid ones that build on these.
PendOf(J) == {j.block : j \in {i \in J : i.kind = "sync"}}
HeldBy(H, J) == H \cup {NoBlock} \cup PendOf(J)
SafeBy(K) == K \cup {x \in Block : x \in Invalid /\ Parent(x) \in K}

\* The list of a connection is a part of a path that builds on a block that
\* the delegate will have.
ListOK(c, K) ==
    /\ Linked(c.toGet)
    /\ c.toGet # << >> => Parent(c.toGet[1]) \in K
    /\ c.seen \in SafeBy(K)

\* A call for a synopsis saves a list: what is not in the connection's list any
\* more was passed to the delegate.
AskOK(j, c, J, K) ==
    /\ c.conn # "closed" /\ (j.handler = j.peer \/ j.handler = Nobody)
    /\ j.ref \in SafeBy(K)
    /\ Range(j.ids) \subseteq Range(c.toGet) \cup SafeBy(K)
    /\ j.handler = Nobody => j.ids = << >>
    /\ (\E k \in J : k.kind = "normal" /\ k.handler = j.peer) => j.ids = << >>

AsksOK(p, c, J, K) == \A j \in J : j.kind = "ask" /\ j.peer = p => AskOK(j, c, J, K)

\* So was what is not in the list of the synopsis that was sent, unless the
\* handler of a message of the peer waits for another one.
AskedOK(p, c, J, K) ==
    \A s \in c.asked :
        /\ s # << >>
        /\ (\A j \in J : j.kind = "ask" => j.handler # p)
              => Range(s) \subseteq Range(c.toGet) \cup SafeBy(K)

PeerOK(p, c, J, K) == ListOK(c, K) /\ AsksOK(p, c, J, K) /\ AskedOK(p, c, J, K)

\* Nothing is lost from K but invalid blocks.
Grows(K, L) ==
    /\ SafeBy(K) \subseteq SafeBy(L)
    /\ \A b \in Block : Parent(b) \in K => Parent(b) \in L

\* The calls M are the calls J for p, but for calls that no handler waits for.
CallsFor(p, J, M) ==
    /\ \A j \in M : j \notin J => (j.kind = "ask" => j.peer # p) /\ (j.kind = "normal" => j.handler # p)
    /\ \A j \in J : j.kind = "ask" /\ j.handler = p => j \in M

SameList(c, d) ==
    /\ d.toGet = c.toGet /\ d.seen = c.seen /\ d.asked = c.asked
    /\ c.conn # "closed" => d.conn # "closed"

LEMMA SetGrows ==
    ASSUME NEW K, NEW L, K \subseteq L
    PROVE  Grows(K, L)
BY DEF Grows, SafeBy

LEMMA FirstIn ==
    ASSUME NEW l \in Seq(Block), l # << >>
    PROVE  l[1] \in Block
BY RangeOfTail

\* What holds of a connection holds when its list is the same, the delegate will
\* have more, and its calls are the same but for those that were served.
LEMMA PeerKept ==
    ASSUME NEW p, NEW c, NEW d, NEW J, NEW M, NEW K, NEW L, c.toGet \in Seq(Block),
           PeerOK(p, c, J, K), Grows(K, L), SameList(c, d), CallsFor(p, J, M)
    PROVE  PeerOK(p, d, M, L)
<1>1. ListOK(d, L)
  <2>1. c.toGet # << >> => c.toGet[1] \in Block
    BY FirstIn
  <2> QED BY <2>1 DEF PeerOK, ListOK, Grows, SameList
<1>2. ASSUME NEW j \in M, j.kind = "ask", j.peer = p
      PROVE  AskOK(j, d, M, L)
  <2>1. j \in J /\ AskOK(j, c, J, K)
    BY <1>2 DEF PeerOK, AsksOK, CallsFor
  <2>2. (\E k \in M : k.kind = "normal" /\ k.handler = j.peer) => \E k \in J : k.kind = "normal" /\ k.handler = j.peer
    BY <1>2 DEF CallsFor
  <2>3. Range(j.ids) \subseteq Range(d.toGet) \cup SafeBy(L) /\ j.ref \in SafeBy(L)
    BY <2>1 DEF AskOK, Grows, SameList
  <2> QED BY <2>1, <2>2, <2>3 DEF AskOK, SameList
<1>3. ASSUME NEW s \in d.asked
      PROVE  /\ s # << >>
             /\ (\A j \in M : j.kind = "ask" => j.handler # p)
                   => Range(s) \subseteq Range(d.toGet) \cup SafeBy(L)
  <2>1. s \in c.asked /\ d.toGet = c.toGet
    BY <1>3 DEF SameList
  <2>2. (\A j \in M : j.kind = "ask" => j.handler # p) => \A j \in J : j.kind = "ask" => j.handler # p
    BY DEF CallsFor
  <2> QED BY <2>1, <2>2 DEF PeerOK, AskedOK, Grows
<1> QED BY <1>1, <1>2, <1>3 DEF PeerOK, AsksOK, AskedOK


LEMMA JobFields ==
    \A j \in Job :
          /\ j.kind \in {"ask", "sync", "normal"} /\ j.handler \in Peer \cup {Nobody}
          /\ j.kind = "ask" => /\ j.peer \in Peer \cup {Nobody} /\ NoneOr(j.ref) /\ j.ids \in Seq(Block)
                               /\ j.task \in {"read", "push", "backlog"}
                               /\ j.rest \subseteq Peer /\ j.again \subseteq Peer
          /\ j.kind = "sync" => j.block \in Block /\ j.handler = Nobody
          /\ j.kind = "normal" => j.block \in Block /\ j.peer \in Peer /\ j.handler \in Peer
BY DEF Job, NoneOr

LEMMA ConnectionFields ==
    \A c \in Connection :
          /\ c.conn \in {"closed", "active", "closing"} /\ c.toGet \in Seq(Block)
          /\ c.processing \subseteq Block /\ c.unfetched \in Nat /\ c.requested \in Seq(Block)
          /\ c.asked \subseteq Seq(Block) /\ c.sent \in Seq(Seq(Block))
          /\ c.weNeed \in BOOLEAN /\ c.peerNeeds \in BOOLEAN /\ c.inhibit \in BOOLEAN /\ NoneOr(c.seen)
BY DEF Connection, NoneOr


LEMMA CallFields ==
    ASSUME NEW p \in Peer, NEW c \in Connection, NEW h \in Peer \cup {Nobody},
           NEW t \in {"read", "push", "backlog"}, NEW A \in SUBSET Peer, NEW B \in SUBSET Peer
    PROVE  LET j == Call(p, c, h, t, A, B) IN
           /\ j \in Job /\ j.kind = "ask" /\ j.peer = p /\ j.ref = c.seen /\ j.ids = c.toGet
           /\ j.handler = h /\ j.rest = A /\ j.again = B
<1>1. c.seen \in Block \cup {NoBlock} /\ c.toGet \in Seq(Block)
  BY ConnectionFields DEF NoneOr
<1> QED BY <1>1 DEF Call, Job

LEMMA AskFields ==
    ASSUME NEW p \in Peer, NEW c \in Connection
    PROVE  LET j == Ask(p, c) IN
           /\ j \in Job /\ j.kind = "ask" /\ j.peer = p /\ j.ref = c.seen /\ j.ids = c.toGet
           /\ j.handler = p /\ j.rest = {} /\ j.again = {}
<1> DEFINE t == "read"
           A == {}
<1>1. t \in {"read", "push", "backlog"} /\ A \in SUBSET Peer /\ p \in Peer \cup {Nobody}
      /\ Ask(p, c) = Call(p, c, p, t, A, A)
  BY DEF Ask
<1>2. A = {}
  OBVIOUS
<1> HIDE DEF t, A
<1> QED BY <1>1, <1>2, CallFields

\* A call a for the synopsis of p, whose connection is c, made by h.
CallFor(a, p, c, h) ==
    a.kind = "ask" /\ a.peer = p /\ a.ref = c.seen /\ a.ids = c.toGet /\ a.handler = h

\* One more call for the peer's synopsis.
LEMMA OneMoreAsk ==
    ASSUME NEW p \in Peer, NEW c \in Connection, NEW h, NEW J, NEW K, NEW a, CallFor(a, p, c, h),
           Nobody \notin Peer, PeerOK(p, c, J, K), c.conn # "closed",
           \/ h = p /\ \A k \in J : k.kind = "normal" => k.handler # p
           \/ (h = p \/ h = Nobody) /\ c.toGet = << >>
    PROVE  PeerOK(p, c, J \cup {a}, K)
<1> DEFINE M == J \cup {a}
<1>1. /\ a.kind = "ask" /\ a.peer = p /\ a.ref = c.seen /\ a.ids = c.toGet
      /\ a.handler = h
  BY DEF CallFor
<1>2. \A k \in M : k.kind = "normal" => k \in J
  BY <1>1
<1>3. ASSUME NEW j \in M, j.kind = "ask", j.peer = p
      PROVE  AskOK(j, c, M, K)
  <2>1. CASE j \in J
    <3>1. AskOK(j, c, J, K)
      BY <1>3, <2>1 DEF PeerOK, AsksOK
    <3> QED BY <1>2, <3>1 DEF AskOK
  <2>2. CASE j = a
    <3>1. (\E k \in M : k.kind = "normal" /\ k.handler = p) => c.toGet = << >>
      BY <1>2
    <3>2. c.seen \in SafeBy(K)
      BY DEF PeerOK, ListOK
    <3>3. h = Nobody => c.toGet = << >>
      OBVIOUS
    <3> QED BY <1>1, <2>2, <3>1, <3>2, <3>3 DEF AskOK
  <2> QED BY <2>1, <2>2
<1>4. AskedOK(p, c, M, K)
  BY DEF PeerOK, AskedOK
<1> QED BY <1>3, <1>4 DEF PeerOK, AsksOK


-----------------------------------------------------------------------------
(* The order of the calls.                                                 *)

\* Every block of a call builds on one that the delegate has (H) or gets first.
LinksIn(js, H) ==
    \A i \in 1 .. Len(js) : js[i].kind = "sync" => Parent(js[i].block) \in HeldBy(H, FirstOf(js, i - 1))

LEMMA PendFacts ==
    /\ PendOf({}) = {}
    /\ \A J, M : J \subseteq M => PendOf(J) \subseteq PendOf(M)
    /\ \A J, j : j.kind = "sync" => PendOf(J \cup {j}) = PendOf(J) \cup {j.block}
    /\ \A J, M : (\A j \in M : j.kind = "sync" => j \in J) => PendOf(M) \subseteq PendOf(J)
BY DEF PendOf

LEMMA FirstOfAll ==
    ASSUME NEW s \in Seq(Job)
    PROVE  Range(s) = FirstOf(s, Len(s)) /\ \A i \in 1 .. Len(s) : FirstOf(s, i - 1) \subseteq Range(s)
<1>1. DOMAIN s = 1 .. Len(s) /\ Len(s) \in Nat
  OBVIOUS
<1>2. \A i \in 1 .. Len(s) : \A k \in 1 .. i - 1 : k \in 1 .. Len(s)
  BY <1>1
<1> QED BY <1>1, <1>2 DEF FirstOf, Range

LEMMA SameFirst ==
    ASSUME NEW s, NEW t, NEW n \in Nat, \A i \in 1 .. n : s[i] = t[i]
    PROVE  \A i \in 1 .. n + 1 : FirstOf(s, i - 1) = FirstOf(t, i - 1)
<1>1. ASSUME NEW i \in 1 .. n + 1
      PROVE  FirstOf(s, i - 1) = FirstOf(t, i - 1)
  <2>1. \A k \in 1 .. i - 1 : k \in 1 .. n
    OBVIOUS
  <2>2. \A k \in 1 .. i - 1 : s[k] = t[k]
    BY <2>1
  <2> QED BY <2>2 DEF FirstOf
<1> QED BY <1>1

\* Calls for synopses may be added at the end.
LEMMA LinksJoin ==
    ASSUME NEW s \in Seq(Job), NEW t \in Seq(Job), NEW H, LinksIn(s, H),
           \A i \in 1 .. Len(t) : t[i].kind # "sync"
    PROVE  LinksIn(s \o t, H)
<1> DEFINE w == s \o t
<1>1. w \in Seq(Job) /\ JoinOf(w, s, t) /\ Len(s) \in Nat /\ Len(t) \in Nat
  BY JoinedSeq
<1> HIDE DEF w
<1>2. Len(w) = Len(s) + Len(t) /\ (\A i \in 1 .. Len(s) : w[i] = s[i])
      /\ \A i \in 1 .. Len(t) : w[Len(s) + i] = t[i]
  BY <1>1 DEF JoinOf
<1>3. \A i \in 1 .. Len(s) + 1 : FirstOf(w, i - 1) = FirstOf(s, i - 1)
  BY <1>1, <1>2, SameFirst
<1>4. ASSUME NEW i \in 1 .. Len(w), w[i].kind = "sync"
      PROVE  Parent(w[i].block) \in HeldBy(H, FirstOf(w, i - 1))
  <2>1. CASE i \in 1 .. Len(s)
    <3>1. i \in 1 .. Len(s) + 1
      BY <1>1, <2>1
    <3> QED BY <1>2, <1>3, <1>4, <2>1, <3>1 DEF LinksIn
  <2>2. CASE i \notin 1 .. Len(s)
    <3>1. i - Len(s) \in 1 .. Len(t) /\ Len(s) + (i - Len(s)) = i
      BY <1>1, <1>2, <2>2
    <3>2. w[i] = t[i - Len(s)]
      BY <1>2, <3>1
    <3> QED BY <1>4, <3>1, <3>2
  <2> QED BY <2>1, <2>2
<1> QED BY <1>4 DEF LinksIn, w

\* So may a block whose parent the delegate has or will have.
LEMMA LinksAppend ==
    ASSUME NEW s \in Seq(Job), NEW j \in Job, NEW H, LinksIn(s, H),
           j.kind = "sync" => Parent(j.block) \in HeldBy(H, Range(s))
    PROVE  LinksIn(Append(s, j), H)
<1> DEFINE w == Append(s, j)
           n == Len(s)
<1>1. w \in Seq(Job) /\ Len(w) = n + 1 /\ n \in Nat /\ w[n + 1] = j
      /\ \A i \in 1 .. n : w[i] = s[i]
  OBVIOUS
<1>2. Range(s) = FirstOf(s, n) /\ LinksIn(s, H)
  BY FirstOfAll
<1> HIDE DEF w
<1>3. \A i \in 1 .. n + 1 : FirstOf(w, i - 1) = FirstOf(s, i - 1)
  BY <1>1, SameFirst
<1>4. ASSUME NEW i \in 1 .. Len(w), w[i].kind = "sync"
      PROVE  Parent(w[i].block) \in HeldBy(H, FirstOf(w, i - 1))
  <2>1. CASE i \in 1 .. n
    <3>1. i \in 1 .. n + 1
      BY <1>1, <2>1
    <3> QED BY <1>1, <1>2, <1>3, <1>4, <2>1, <3>1 DEF LinksIn
  <2>2. CASE i \notin 1 .. n
    <3>1. i = n + 1 /\ i - 1 = n /\ i \in 1 .. n + 1
      BY <1>1, <2>2
    <3>2. FirstOf(w, i - 1) = Range(s) /\ w[i] = j
      BY <1>1, <1>2, <1>3, <3>1
    <3> QED BY <1>4, <3>2
  <2> QED BY <2>1, <2>2
<1> QED BY <1>4 DEF LinksIn, w

\* The delegate has served the first call: the rest still links when it has
\* the block now, or when nothing builds on the block.
LEMMA LinksTail ==
    ASSUME NEW s \in Seq(Job), s # << >>, NEW H, NEW I, LinksIn(s, H), H \subseteq I,
           Head(s).kind = "sync" => \/ Head(s).block \in I
                                    \/ \A b \in Block : Parent(b) # Head(s).block
    PROVE  LinksIn(Tail(s), I)
<1> DEFINE t == Tail(s)
           n == Len(t)
<1>1. t \in Seq(Job) /\ Len(t) = Len(s) - 1 /\ Len(s) \in Nat /\ Len(s) > 0 /\ Head(s) = s[1]
      /\ \A i \in 1 .. Len(s) - 1 : t[i] = s[i + 1]
  BY RangeOfTail
<1> HIDE DEF t
<1>2. ASSUME NEW i \in 1 .. n, t[i].kind = "sync"
      PROVE  Parent(t[i].block) \in HeldBy(I, FirstOf(t, i - 1))
  <2>1. i \in 1 .. Len(s) - 1 /\ i + 1 \in 1 .. Len(s) /\ (i + 1) - 1 = i /\ i \in Nat
    BY <1>1
  <2>2. t[i] = s[i + 1] /\ t[i].block \in Block
    <3>1. t[i] \in Job
      BY <1>1
    <3> QED BY <1>1, <1>2, <2>1, <3>1, JobFields
  <2>3. Parent(t[i].block) \in HeldBy(H, FirstOf(s, i))
    BY <1>2, <2>1, <2>2 DEF LinksIn
  <2>4. FirstOf(s, i) \subseteq FirstOf(t, i - 1) \cup {s[1]}
    <3>1. ASSUME NEW k \in 1 .. i, k # 1
          PROVE  s[k] \in FirstOf(t, i - 1)
      <4>1. k - 1 \in 1 .. i - 1 /\ k - 1 \in 1 .. Len(s) - 1 /\ (k - 1) + 1 = k
        BY <1>1, <2>1, <3>1
      <4>2. t[k - 1] = s[k]
        BY <1>1, <4>1
      <4> QED BY <4>1, <4>2 DEF FirstOf
    <3> QED BY <3>1 DEF FirstOf
  <2>5. ASSUME Parent(t[i].block) \in PendOf(FirstOf(s, i))
        PROVE  Parent(t[i].block) \in I \cup PendOf(FirstOf(t, i - 1))
    <3>1. PICK j \in FirstOf(s, i) : j.kind = "sync" /\ j.block = Parent(t[i].block)
      BY <2>5 DEF PendOf
    <3>2. CASE j \in FirstOf(t, i - 1)
      BY <3>1, <3>2 DEF PendOf
    <3>3. CASE j = s[1]
      BY <1>1, <2>2, <3>1, <3>3
    <3> QED BY <2>4, <3>1, <3>2, <3>3
  <2> QED BY <2>3, <2>5 DEF HeldBy
<1> QED BY <1>2 DEF LinksIn, t

\* What the delegate will have contains the parents of its blocks.
LEMMA HeldClosed ==
    ASSUME SyncConstants, NEW s \in Seq(Job), NEW H, LinksIn(s, H),
           \A b \in H : Parent(b) \in H \cup {NoBlock}
    PROVE  \A b \in Block : b \in HeldBy(H, Range(s)) => Parent(b) \in HeldBy(H, Range(s))
<1> SUFFICES ASSUME NEW b \in Block, b \in HeldBy(H, Range(s))
             PROVE  Parent(b) \in HeldBy(H, Range(s))
  OBVIOUS
<1>1. b # NoBlock
  BY TreeFacts
<1>2. CASE b \in H
  BY <1>2 DEF HeldBy
<1>3. CASE b \in PendOf(Range(s))
  <2>1. PICK j \in Range(s) : j.kind = "sync" /\ j.block = b
    BY <1>3 DEF PendOf
  <2>2. PICK i \in 1 .. Len(s) : s[i] = j
    BY RangeIs
  <2>3. Parent(b) \in HeldBy(H, FirstOf(s, i - 1))
    BY <2>1, <2>2 DEF LinksIn
  <2>4. FirstOf(s, i - 1) \subseteq Range(s)
    BY FirstOfAll
  <2> QED BY <2>3, <2>4, PendFacts DEF HeldBy
<1> QED BY <1>1, <1>2, <1>3 DEF HeldBy

\* Nothing builds on an invalid block.
LEMMA SafeFacts ==
    ASSUME SyncConstants, NEW K, \A b \in Block : b \in K => Parent(b) \in K
    PROVE  /\ \A b \in Block : b \in SafeBy(K) => Parent(b) \in K
           /\ \A b, c \in Block : c \in SafeBy(K) /\ Parent(b) = c => c \in K
           /\ \A b \in Block : b \in SafeBy(K) => Range(Path[b]) \subseteq SafeBy(K)
<1>1. \A b \in Block : b \in SafeBy(K) => Parent(b) \in K
  BY DEF SafeBy
<1>2. \A b, c \in Block : c \in SafeBy(K) /\ Parent(b) = c => c \in K
  BY DEF SafeBy, SyncConstants
<1>3. ASSUME NEW b \in Block, b \in SafeBy(K)
      PROVE  Range(Path[b]) \subseteq SafeBy(K)
  <2> DEFINE S == SafeBy(K)
  <2>1. \A c \in Block : c \in S => Parent(c) \in S
    BY <1>1 DEF SafeBy
  <2> HIDE DEF S
  <2>2. b \in S
    BY <1>3 DEF S
  <2>3. Range(Path[b]) \subseteq S
    BY <2>1, <2>2, AncestorsIn
  <2> QED BY <2>3 DEF S
<1> QED BY <1>1, <1>2, <1>3

\* The order of the calls is what BlocksLink says.
LEMMA LinksMeans ==
    ASSUME SyncTypeOK, LinksIn(jobs, held.have)
    PROVE  BlocksLink
<1>1. jobs \in Seq(Job) /\ DOMAIN jobs = 1 .. Len(jobs)
  BY DEF SyncTypeOK
<1>2. ASSUME NEW i \in 1 .. Len(jobs), jobs[i].kind = "sync"
      PROVE  \/ Parent(jobs[i].block) \in held.have \cup {NoBlock}
             \/ \E k \in 1 .. i - 1 : jobs[k].kind = "sync" /\ jobs[k].block = Parent(jobs[i].block)
  <2>1. Parent(jobs[i].block) \in HeldBy(held.have, FirstOf(jobs, i - 1))
    BY <1>2 DEF LinksIn
  <2> QED BY <2>1 DEF HeldBy, PendOf, FirstOf
<1> QED BY <1>1, <1>2 DEF BlocksLink

-----------------------------------------------------------------------------
(* Changes of a connection.                                                *)

\* Each update of a field leaves a connection and its other fields.
LEMMA SetConn ==
    ASSUME NEW c \in Connection, NEW u \in {"closed", "active", "closing"}
    PROVE  LET d == [c EXCEPT !.conn = u] IN
           /\ d \in Connection /\ d.conn = u
           /\ d.toGet = c.toGet /\ d.processing = c.processing /\ d.unfetched = c.unfetched /\ d.requested = c.requested
           /\ d.asked = c.asked /\ d.sent = c.sent /\ d.weNeed = c.weNeed /\ d.peerNeeds = c.peerNeeds /\ d.inhibit = c.inhibit /\ d.seen = c.seen
BY DEF Connection

LEMMA SetSent ==
    ASSUME NEW c \in Connection, NEW u \in Seq(Seq(Block))
    PROVE  LET d == [c EXCEPT !.sent = u] IN
           /\ d \in Connection /\ d.sent = u
           /\ d.conn = c.conn /\ d.toGet = c.toGet /\ d.processing = c.processing /\ d.unfetched = c.unfetched
           /\ d.requested = c.requested /\ d.asked = c.asked /\ d.weNeed = c.weNeed /\ d.peerNeeds = c.peerNeeds /\ d.inhibit = c.inhibit /\ d.seen = c.seen
BY DEF Connection

LEMMA SetAsked ==
    ASSUME NEW c \in Connection, NEW u \in SUBSET Seq(Block)
    PROVE  LET d == [c EXCEPT !.asked = u] IN
           /\ d \in Connection /\ d.asked = u
           /\ d.conn = c.conn /\ d.toGet = c.toGet /\ d.processing = c.processing /\ d.unfetched = c.unfetched
           /\ d.requested = c.requested /\ d.sent = c.sent /\ d.weNeed = c.weNeed /\ d.peerNeeds = c.peerNeeds /\ d.inhibit = c.inhibit /\ d.seen = c.seen
BY DEF Connection

LEMMA SetUnfetched ==
    ASSUME NEW c \in Connection, NEW u \in Nat
    PROVE  LET d == [c EXCEPT !.unfetched = u] IN
           /\ d \in Connection /\ d.unfetched = u
           /\ d.conn = c.conn /\ d.toGet = c.toGet /\ d.processing = c.processing /\ d.requested = c.requested
           /\ d.asked = c.asked /\ d.sent = c.sent /\ d.weNeed = c.weNeed /\ d.peerNeeds = c.peerNeeds /\ d.inhibit = c.inhibit /\ d.seen = c.seen
BY DEF Connection

LEMMA SetWeNeed ==
    ASSUME NEW c \in Connection, NEW u \in BOOLEAN
    PROVE  LET d == [c EXCEPT !.weNeed = u] IN
           /\ d \in Connection /\ d.weNeed = u
           /\ d.conn = c.conn /\ d.toGet = c.toGet /\ d.processing = c.processing /\ d.unfetched = c.unfetched
           /\ d.requested = c.requested /\ d.asked = c.asked /\ d.sent = c.sent /\ d.peerNeeds = c.peerNeeds /\ d.inhibit = c.inhibit /\ d.seen = c.seen
BY DEF Connection

LEMMA SetRequested ==
    ASSUME NEW c \in Connection, NEW u \in Seq(Block)
    PROVE  LET d == [c EXCEPT !.requested = u] IN
           /\ d \in Connection /\ d.requested = u
           /\ d.conn = c.conn /\ d.toGet = c.toGet /\ d.processing = c.processing /\ d.unfetched = c.unfetched
           /\ d.asked = c.asked /\ d.sent = c.sent /\ d.weNeed = c.weNeed /\ d.peerNeeds = c.peerNeeds /\ d.inhibit = c.inhibit /\ d.seen = c.seen
BY DEF Connection

LEMMA SetInhibit ==
    ASSUME NEW c \in Connection, NEW u \in BOOLEAN
    PROVE  LET d == [c EXCEPT !.inhibit = u] IN
           /\ d \in Connection /\ d.inhibit = u
           /\ d.conn = c.conn /\ d.toGet = c.toGet /\ d.processing = c.processing /\ d.unfetched = c.unfetched
           /\ d.requested = c.requested /\ d.asked = c.asked /\ d.sent = c.sent /\ d.weNeed = c.weNeed /\ d.peerNeeds = c.peerNeeds /\ d.seen = c.seen
BY DEF Connection

LEMMA SetSeen ==
    ASSUME NEW c \in Connection, NEW u \in Block \cup {NoBlock}
    PROVE  LET d == [c EXCEPT !.seen = u] IN
           /\ d \in Connection /\ d.seen = u
           /\ d.conn = c.conn /\ d.toGet = c.toGet /\ d.processing = c.processing /\ d.unfetched = c.unfetched
           /\ d.requested = c.requested /\ d.asked = c.asked /\ d.sent = c.sent /\ d.weNeed = c.weNeed /\ d.peerNeeds = c.peerNeeds /\ d.inhibit = c.inhibit
BY DEF Connection

LEMMA SetPeerNeeds ==
    ASSUME NEW c \in Connection, NEW u \in BOOLEAN
    PROVE  LET d == [c EXCEPT !.peerNeeds = u] IN
           /\ d \in Connection /\ d.peerNeeds = u
           /\ d.conn = c.conn /\ d.toGet = c.toGet /\ d.processing = c.processing /\ d.unfetched = c.unfetched
           /\ d.requested = c.requested /\ d.asked = c.asked /\ d.sent = c.sent /\ d.weNeed = c.weNeed /\ d.inhibit = c.inhibit /\ d.seen = c.seen
BY DEF Connection

LEMMA SetProcessing ==
    ASSUME NEW c \in Connection, NEW u \in SUBSET Block
    PROVE  LET d == [c EXCEPT !.processing = u] IN
           /\ d \in Connection /\ d.processing = u
           /\ d.conn = c.conn /\ d.toGet = c.toGet /\ d.unfetched = c.unfetched /\ d.requested = c.requested
           /\ d.asked = c.asked /\ d.sent = c.sent /\ d.weNeed = c.weNeed /\ d.peerNeeds = c.peerNeeds /\ d.inhibit = c.inhibit /\ d.seen = c.seen
BY DEF Connection

LEMMA SetToGet ==
    ASSUME NEW c \in Connection, NEW u \in Seq(Block)
    PROVE  LET d == [c EXCEPT !.toGet = u] IN
           /\ d \in Connection /\ d.toGet = u
           /\ d.conn = c.conn /\ d.processing = c.processing /\ d.unfetched = c.unfetched /\ d.requested = c.requested
           /\ d.asked = c.asked /\ d.sent = c.sent /\ d.weNeed = c.weNeed /\ d.peerNeeds = c.peerNeeds /\ d.inhibit = c.inhibit /\ d.seen = c.seen
BY DEF Connection


LEMMA SetNormal ==
    ASSUME NEW c \in Connection, NEW u \in SUBSET Block
    PROVE  LET d == [c EXCEPT !.normal = u] IN
           /\ d \in Connection /\ d.normal = u /\ d.offered = c.offered
           /\ d.conn = c.conn /\ d.toGet = c.toGet /\ d.requested = c.requested
           /\ d.asked = c.asked /\ d.seen = c.seen
BY DEF Connection

LEMMA SetOffered ==
    ASSUME NEW c \in Connection, NEW u \in SUBSET Block
    PROVE  LET d == [c EXCEPT !.offered = u] IN
           /\ d \in Connection /\ d.offered = u
           /\ d.conn = c.conn /\ d.toGet = c.toGet /\ d.requested = c.requested
           /\ d.asked = c.asked /\ d.seen = c.seen
BY DEF Connection

LEMMA SetInforms ==
    ASSUME NEW c \in Connection, NEW u \in BOOLEAN
    PROVE  LET d == [c EXCEPT !.informs = u] IN
           /\ d \in Connection /\ d.informs = u
           /\ d.conn = c.conn /\ d.toGet = c.toGet /\ d.requested = c.requested
           /\ d.asked = c.asked /\ d.seen = c.seen
BY DEF Connection

\* A connection that is gone, or starts anew.
LEMMA NewFacts ==
    LET d == NewConnection IN
    /\ d \in Connection /\ d.conn = "closed" /\ d.toGet = << >> /\ d.seen = NoBlock
    /\ d.asked = {} /\ d.requested = << >>
BY DEF NewConnection, Connection

\* A connection that starts to synchronize has an empty list.
LEMMA StartFacts ==
    ASSUME NEW c \in Connection
    PROVE  LET d == StartSync(c) IN
           /\ d \in Connection /\ d.conn = c.conn /\ d.toGet = << >> /\ d.seen = NoBlock
           /\ d.asked = c.asked /\ d.requested = c.requested /\ d.processing = c.processing
<1> DEFINE none == << >>
           yes == TRUE
           no == FALSE
           zero == 0
           c1 == [c EXCEPT !.toGet = none]
           c2 == [c1 EXCEPT !.unfetched = zero]
           c3 == [c2 EXCEPT !.weNeed = yes]
           c4 == [c3 EXCEPT !.seen = NoBlock]
           c5 == [c4 EXCEPT !.inhibit = no]
           Alike(d) == d.conn = c.conn /\ d.asked = c.asked /\ d.requested = c.requested
                       /\ d.processing = c.processing
<1>1. StartSync(c) = c5
  BY DEF StartSync
<1>2. none \in Seq(Block) /\ yes \in BOOLEAN /\ no \in BOOLEAN /\ zero \in Nat
      /\ NoBlock \in Block \cup {NoBlock}
  OBVIOUS
<1> HIDE DEF none, yes, no, zero
<1>3. c1 \in Connection /\ c1.toGet = none /\ Alike(c1)
  BY <1>2, SetToGet
<1> HIDE DEF c1
<1>4. c2 \in Connection /\ c2.toGet = none /\ Alike(c2)
  BY <1>2, <1>3, SetUnfetched
<1> HIDE DEF c2
<1>5. c3 \in Connection /\ c3.toGet = none /\ Alike(c3)
  BY <1>2, <1>4, SetWeNeed
<1> HIDE DEF c3
<1>6. c4 \in Connection /\ c4.toGet = none /\ c4.seen = NoBlock /\ Alike(c4)
  BY <1>2, <1>5, SetSeen
<1> HIDE DEF c4
<1>7. c5 \in Connection /\ c5.toGet = none /\ c5.seen = NoBlock /\ Alike(c5)
  BY <1>2, <1>6, SetInhibit
<1> HIDE DEF c5
<1> QED BY <1>1, <1>7 DEF none

\* The peer is asked again, and its list, if it had one, is dropped.
LEMMA Restarted ==
    ASSUME NEW p \in Peer, NEW c \in Connection, NEW d \in Connection, NEW J, NEW K,
           NEW a, CallFor(a, p, d, p), Nobody \notin Peer, NoBlock \in K, PeerOK(p, c, J, K), c.conn # "closed",
           d.conn # "closed", d.toGet = << >>, d.seen = NoBlock, d.asked = c.asked,
           \A j \in J : j.kind = "ask" /\ j.peer = p => j.ids = << >>
    PROVE  PeerOK(p, d, J \cup {a}, K)
<1> DEFINE M == J \cup {a}
<1>1. /\ a.kind = "ask" /\ a.peer = p /\ a.ref = NoBlock /\ a.ids = << >>
      /\ a.handler = p
  BY DEF CallFor
<1>2. NoBlock \in SafeBy(K)
  BY DEF SafeBy
<1>3. ListOK(d, K)
  <2>1. Linked(<< >>)
    BY DEF Linked
  <2> QED BY <1>2, <2>1 DEF ListOK
<1>4. Range(<< >>) = {}
  BY DEF Range
<1>5. ASSUME NEW j \in M, j.kind = "ask", j.peer = p
      PROVE  AskOK(j, d, M, K)
  <2>1. CASE j \in J
    <3>1. AskOK(j, c, J, K) /\ j.ids = << >>
      BY <1>5, <2>1 DEF PeerOK, AsksOK
    <3> QED BY <1>4, <3>1 DEF AskOK
  <2>2. CASE j = a
    BY <1>1, <1>2, <1>4, <2>2 DEF AskOK
  <2> QED BY <2>1, <2>2
<1>6. AskedOK(p, d, M, K)
  <2>1. a \in M
    OBVIOUS
  <2>2. ~ \A j \in M : j.kind = "ask" => j.handler # p
    BY <1>1, <2>1
  <2>3. \A s \in d.asked : s # << >>
    BY DEF PeerOK, AskedOK
  <2> QED BY <2>2, <2>3 DEF AskedOK
<1> QED BY <1>3, <1>5, <1>6 DEF PeerOK, AsksOK


-----------------------------------------------------------------------------
(* The invariant.                                                          *)

\* The delegate has the chain up to each of its blocks, and what was accepted.
HaveOK ==
    /\ held.head \in held.have /\ Range(recent) \subseteq held.have
    /\ \A b \in held.have : Parent(b) \in held.have \cup {NoBlock}

\* The handler of a message waits for what it called, and the connections that a
\* call is for, those behind it in its task included, have not closed.
CallOK(j, cs) ==
    /\ j.kind = "normal" => j.handler = j.peer
    /\ j.handler # Nobody => cs[j.handler].conn # "closed"
    /\ j.kind = "ask" => /\ j.handler = j.peer \/ j.handler = Nobody
                         /\ j.peer # Nobody => cs[j.peer].conn # "closed"
                         /\ \A q \in j.rest \cup j.again : cs[q].conn # "closed"

TasksOf(cs, J) == \A j \in J : CallOK(j, cs)

\* What was refused by a peer is not waited for, nor is anything from one that left.
RefusedApart ==
    \A p \in Peer : /\ lacking \cap Range(peers[p].requested) = {}
                    /\ peers[p].conn = "closed" => peers[p].requested = << >>

AllOK(cs, J, K) == \A p \in Peer : PeerOK(p, cs[p], J, K)

\* The calls link, and the lists of the connections build on what the delegate
\* will have, as long as no task's call came behind a list.
FetchOf(cs, js, H) == LinksIn(js, H) /\ AllOK(cs, Range(js), HeldBy(H, Range(js)))

FetchOK == FetchOf(peers, jobs, held.have)

SyncBase == SyncTypeOK /\ OneRequestEach /\ RefusedApart /\ HaveOK /\ TasksOf(peers, Range(jobs))

SyncInv == SyncBase /\ (overtaken \/ FetchOK)

\* The types of all but the connections and the calls.
RestTyped ==
    /\ tip \in [Peer -> Block \cup {NoBlock}]
    /\ held \in [have : SUBSET Block, head : Block] /\ active \subseteq Block
    /\ arrived \in Seq(Block) /\ received \in Seq(Block) /\ recent \in Seq(Block)
    /\ due \subseteq {"fetch", "backlog"}
    /\ suspended \in BOOLEAN /\ connects \in Nat
    /\ overtaken \in BOOLEAN /\ missed \subseteq Block
    /\ skipped \subseteq Peer /\ lacking \subseteq Block

\* What the types of the variables say.
LEMMA SyncTypes ==
    ASSUME SyncTypeOK
    PROVE  /\ \A p \in Peer : peers[p] \in Connection
           /\ jobs \in Seq(Job) /\ held.have \subseteq Block /\ held.head \in Block
           /\ recent \in Seq(Block) /\ tip \in [Peer -> Block \cup {NoBlock}]
           /\ peers \in [Peer -> Connection] /\ active \subseteq Block /\ RestTyped
BY DEF SyncTypeOK, RestTyped

\* Connections that have not closed.
StillOpen(cs, ds) == \A p \in Peer : cs[p].conn # "closed" => ds[p].conn # "closed"

\* The same requests.
SameRequests(cs, ds) == \A p \in Peer : ds[p].requested = cs[p].requested

LEMMA TasksKept ==
    ASSUME NEW cs, NEW ds, NEW J \in SUBSET Job, StillOpen(cs, ds), TasksOf(cs, J)
    PROVE  TasksOf(ds, J)
<1>1. ASSUME NEW j \in J
      PROVE  CallOK(j, ds)
  <2>1. CallOK(j, cs) /\ j \in Job
    BY DEF TasksOf
  <2>2. /\ j.handler \in Peer \cup {Nobody}
        /\ j.kind = "ask" => j.peer \in Peer \cup {Nobody} /\ j.rest \subseteq Peer /\ j.again \subseteq Peer
    BY <2>1, JobFields
  <2> QED BY <2>1, <2>2 DEF CallOK, StillOpen
<1> QED BY <1>1 DEF TasksOf

\* What _active_sync_requests holds, block by block.
LEMMA ActiveIs ==
    ASSUME NEW a, NEW l, NEW cs
    PROVE  a = l \cup UNION { Range(cs[p].requested) : p \in Peer }
             <=> \A b : b \in a <=> (b \in l \/ \E p \in Peer : b \in Range(cs[p].requested))
OBVIOUS

\* The connections may change but for their requests.
LEMMA BaseKept ==
    ASSUME SyncBase, peers' \in [Peer -> Connection], jobs' \in Seq(Job), RestTyped', HaveOK',
           SameRequests(peers, peers'), StillOpen(peers, peers'), TasksOf(peers', Range(jobs')),
           UNCHANGED << active, lacking >>
    PROVE  SyncBase'
<1>1. SyncTypeOK'
  BY DEF RestTyped, SyncTypeOK
<1>2. \A p \in Peer : peers'[p].requested = peers[p].requested
  BY DEF SameRequests
<1>3. OneRequestEach'
  BY <1>2 DEF SyncBase, OneRequestEach
<1>4. RefusedApart'
  <2>1. \A p \in Peer : peers'[p].conn = "closed" => peers[p].conn = "closed"
    BY DEF StillOpen
  <2> QED BY <1>2, <2>1 DEF SyncBase, RefusedApart
<1>5. (TasksOf(peers, Range(jobs)))'
  OBVIOUS
<1> QED BY <1>1, <1>3, <1>4, <1>5 DEF SyncBase

LEMMA NoOthers == SyncConstants => Nobody \notin Peer /\ \A p \in Peer : p # Nobody
BY DEF SyncConstants

LEMMA EmptyList == Linked(<< >>) /\ Range(<< >>) = {} /\ \A K, J : NoBlock \in HeldBy(K, J)
BY DEF Linked, Range, HeldBy

\* No handler of p waits: the calls for its synopsis saved an empty list.
LEMMA NoneWaits ==
    ASSUME SyncBase, NEW p \in Peer, MayReceive(p)
    PROVE  /\ peers[p].conn # "closed"
           /\ \A j \in Range(jobs) : j.handler # p
           /\ FetchOK => \A j \in Range(jobs) : j.kind = "ask" /\ j.peer = p => j.ids = << >>
<1>1. peers[p].conn # "closed" /\ \A i \in DOMAIN jobs : jobs[i].handler # p
  BY DEF MayReceive, Connected, Handling
<1>2. \A j \in Range(jobs) : j.handler # p
  BY <1>1 DEF Range
<1>3. ASSUME FetchOK, NEW j \in Range(jobs), j.kind = "ask", j.peer = p
      PROVE  j.ids = << >>
  <2>1. AskOK(j, peers[p], Range(jobs), HeldBy(held.have, Range(jobs)))
    BY <1>3 DEF FetchOK, FetchOf, AllOK, PeerOK, AsksOK
  <2> QED BY <1>2, <1>3, <2>1 DEF AskOK
<1> QED BY <1>1, <1>2, <1>3

\* The next call is one that a message of p makes.
CalledFor(p, j) ==
    /\ j \in Job /\ j.handler = p /\ j.peer = p
    /\ \/ j.kind = "ask" /\ j.rest = {} /\ j.again = {}
       \/ j.kind = "normal"

LEMMA AskCalled ==
    ASSUME NEW p \in Peer, NEW c \in Connection
    PROVE  CalledFor(p, Ask(p, c)) /\ CallFor(Ask(p, c), p, c, p)
BY AskFields DEF CalledFor, CallFor

\* The step that concerns one peer leaves jobs as they are, or adds a call of it.
OneCall(p) == jobs' = jobs \/ \E j : CalledFor(p, j) /\ jobs' = Append(jobs, j)

LEMMA OneCallFacts ==
    ASSUME jobs \in Seq(Job), NEW p, OneCall(p)
    PROVE  /\ jobs' \in Seq(Job)
           /\ Range(jobs') = Range(jobs) \/ \E j : CalledFor(p, j) /\ Range(jobs') = Range(jobs) \cup {j}
<1>1. CASE jobs' = jobs
  BY <1>1
<1>2. ASSUME NEW j, CalledFor(p, j), jobs' = Append(jobs, j)
      PROVE  jobs' \in Seq(Job) /\ Range(jobs') = Range(jobs) \cup {j}
  BY <1>2, RangeOfAppend DEF CalledFor
<1> QED BY <1>1, <1>2 DEF OneCall

\* A step that concerns one peer and none of its requests.
LEMMA BaseOfOne ==
    ASSUME SyncConstants, SyncBase, NEW p \in Peer, NEW d \in Connection,
           peers' = [peers EXCEPT ![p] = d], d.requested = peers[p].requested,
           d.conn # "closed", OneCall(p), RestTyped',
           UNCHANGED << held, recent, active, lacking >>
    PROVE  SyncBase'
<1>1. jobs \in Seq(Job) /\ peers \in [Peer -> Connection]
  BY SyncTypes DEF SyncBase
<1>2. /\ peers' \in [Peer -> Connection] /\ SameRequests(peers, peers') /\ StillOpen(peers, peers')
      /\ peers'[p].conn # "closed"
  BY <1>1 DEF SameRequests, StillOpen
<1>3. /\ jobs' \in Seq(Job)
      /\ Range(jobs') = Range(jobs) \/ \E j : CalledFor(p, j) /\ Range(jobs') = Range(jobs) \cup {j}
  BY <1>1, OneCallFacts
<1>4. TasksOf(peers', Range(jobs))
  <2>1. Range(jobs) \in SUBSET Job
    BY <1>1, RangeIs
  <2> QED BY <1>2, <2>1, TasksKept DEF SyncBase
<1>5. \A j : CalledFor(p, j) => CallOK(j, peers')
  BY <1>2 DEF CalledFor, CallOK
<1>6. TasksOf(peers', Range(jobs'))
  BY <1>3, <1>4, <1>5 DEF TasksOf
<1>7. HaveOK'
  BY DEF SyncBase, HaveOK
<1> QED BY <1>2, <1>3, <1>6, <1>7, BaseKept

LEMMA FetchOfOne ==
    ASSUME SyncConstants, SyncTypeOK, FetchOK, NEW p \in Peer, UNCHANGED held,
           NEW d \in Connection, peers' = [peers EXCEPT ![p] = d], OneCall(p),
           PeerOK(p, d, Range(jobs'), HeldBy(held.have, Range(jobs)))
    PROVE  FetchOK'
<1> DEFINE J == Range(jobs)
           M == Range(jobs')
           H == held.have
           K == HeldBy(H, J)
<1>1. jobs \in Seq(Job) /\ peers \in [Peer -> Connection]
  BY SyncTypes
<1>0. LinksIn(jobs, H) /\ AllOK(peers, J, K)
  BY DEF FetchOK, FetchOf
<1>2. M = J \/ \E j : CalledFor(p, j) /\ M = J \cup {j}
  BY <1>1, OneCallFacts
<1>a. LinksIn(jobs', H)
  <2>1. CASE jobs' = jobs
    BY <1>0, <2>1
  <2>2. ASSUME NEW j, CalledFor(p, j), jobs' = Append(jobs, j)
        PROVE  LinksIn(jobs', H)
    <3>1. j \in Job /\ j.kind # "sync"
      BY <2>2 DEF CalledFor
    <3> QED BY <1>0, <1>1, <2>2, <3>1, LinksAppend
  <2> QED BY <2>1, <2>2 DEF OneCall
<1> HIDE DEF J, M
<1>3. /\ \A j \in M : j.kind = "sync" => j \in J
      /\ J \subseteq M
      /\ \A j \in M : j \notin J => CalledFor(p, j)
  BY <1>2 DEF CalledFor
<1>4. PendOf(M) = PendOf(J)
  BY <1>3 DEF PendOf
<1>5. HeldBy(H, M) = K
  BY <1>4 DEF HeldBy
<1>6. ASSUME NEW q \in Peer
      PROVE  PeerOK(q, peers'[q], M, K)
  <2>1. CASE q = p
    BY <1>1, <2>1 DEF J, M
  <2>2. CASE q # p
    <3>1. peers'[q] = peers[q] /\ peers[q].toGet \in Seq(Block)
      BY <1>1, <2>2, ConnectionFields
    <3>2. CallsFor(q, J, M)
      BY <1>3, <2>2 DEF CallsFor, CalledFor
    <3>3. PeerOK(q, peers[q], J, K) /\ SameList(peers[q], peers[q])
      BY <1>0 DEF AllOK, SameList
    <3>4. Grows(K, K)
      BY SetGrows
    <3> HIDE DEF K
    <3> QED BY <3>1, <3>2, <3>3, <3>4, PeerKept
  <2> QED BY <2>1, <2>2
<1>7. AllOK(peers', M, HeldBy(H, M))
  BY <1>5, <1>6 DEF AllOK
<1>8. (LinksIn(jobs, held.have))' /\ (AllOK(peers, Range(jobs), HeldBy(held.have, Range(jobs))))'
  BY <1>7, <1>a DEF M
<1> QED BY <1>8 DEF FetchOK, FetchOf

\* A step that changes the connection but not its list.
LEMMA ListKept ==
    ASSUME SyncConstants, SyncTypeOK, FetchOK, NEW p \in Peer, NEW d \in Connection,
           peers' = [peers EXCEPT ![p] = d], UNCHANGED << held, jobs >>,
           SameList(peers[p], d)
    PROVE  FetchOK'
<1> DEFINE J == Range(jobs)
           K == HeldBy(held.have, J)
           c == peers[p]
<1>1. c \in Connection /\ c.toGet \in Seq(Block)
  BY SyncTypes, ConnectionFields
<1>2. PeerOK(p, c, J, K)
  BY DEF FetchOK, FetchOf, AllOK
<1>3. Grows(K, K) /\ CallsFor(p, J, J)
  BY SetGrows DEF CallsFor
<1> HIDE DEF J, K, c
<1>4. PeerOK(p, d, J, K)
  BY <1>1, <1>2, <1>3, PeerKept DEF c
<1>5. Range(jobs') = J /\ OneCall(p)
  BY DEF J, OneCall
<1> QED BY <1>4, <1>5, FetchOfOne DEF J, K

\* Nothing that the invariant speaks of changes.
LEMMA NothingChanges ==
    ASSUME SyncInv, UNCHANGED << peers, jobs, held, recent, active, lacking, overtaken >>, RestTyped'
    PROVE  SyncInv'
<1>1. SyncBase'
  <2>1. peers \in [Peer -> Connection] /\ jobs \in Seq(Job) /\ HaveOK /\ TasksOf(peers, Range(jobs))
    BY SyncTypes DEF SyncInv, SyncBase
  <2>2. SyncTypeOK'
    BY <2>1 DEF RestTyped, SyncTypeOK
  <2>3. HaveOK' /\ (TasksOf(peers, Range(jobs)))'
    BY <2>1 DEF HaveOK
  <2>4. OneRequestEach' /\ RefusedApart'
    BY DEF SyncInv, SyncBase, OneRequestEach, RefusedApart
  <2> QED BY <2>2, <2>3, <2>4 DEF SyncBase
<1>2. FetchOK => FetchOK'
  BY DEF FetchOK
<1> QED BY <1>1, <1>2 DEF SyncInv

-----------------------------------------------------------------------------
(* Messages and timers.                                                    *)


\* A step that concerns one peer and none of its requests.
LEMMA StepOfOne ==
    ASSUME SyncConstants, SyncInv, NEW p \in Peer, NEW d \in Connection,
           peers' = [peers EXCEPT ![p] = d], d.requested = peers[p].requested,
           d.conn # "closed", OneCall(p), RestTyped',
           UNCHANGED << held, recent, active, lacking, overtaken >>,
           FetchOK => PeerOK(p, d, Range(jobs'), HeldBy(held.have, Range(jobs)))
    PROVE  SyncInv'
<1>1. SyncBase'
  BY BaseOfOne DEF SyncInv
<1>2. FetchOK => FetchOK'
  BY FetchOfOne DEF SyncInv, SyncBase
<1> QED BY <1>1, <1>2 DEF SyncInv

\* Nor its list.
LEMMA StepKeepsList ==
    ASSUME SyncConstants, SyncInv, NEW p \in Peer, NEW d \in Connection,
           peers' = [peers EXCEPT ![p] = d], d.requested = peers[p].requested,
           SameList(peers[p], d), d.conn # "closed", RestTyped',
           UNCHANGED << held, recent, jobs, active, lacking, overtaken >>
    PROVE  SyncInv'
<1>1. OneCall(p)
  BY DEF OneCall
<1>2. SyncBase'
  BY <1>1, BaseOfOne DEF SyncInv
<1>3. FetchOK => FetchOK'
  BY ListKept DEF SyncInv, SyncBase
<1> QED BY <1>2, <1>3 DEF SyncInv

\* A new connection asks for its first ids.
LEMMA ConnectKeeps ==
    ASSUME SyncConstants, SyncInv, NEW p \in Peer, Connect(p)
    PROVE  SyncInv'
<1> DEFINE a == "active"
           b == [NewConnection EXCEPT !.conn = a]
           c == StartSync(b)
           J == Range(jobs)
           K == HeldBy(held.have, J)
           j == Ask(p, c)
<1>1. /\ peers[p].conn = "closed" /\ connects' = connects + 1
      /\ peers' = [peers EXCEPT ![p] = c] /\ jobs' = Append(jobs, j)
      /\ UNCHANGED << tip, held, active, arrived, received, recent, due, suspended,
                      overtaken, missed, skipped, lacking >>
  BY DEF Connect, Connected, noted
<1>2. a \in {"closed", "active", "closing"} /\ a # "closed"
  OBVIOUS
<1> HIDE DEF a
<1>3. b \in Connection /\ b.conn = a /\ b.asked = {} /\ b.requested = << >>
  BY <1>2, NewFacts, SetConn
<1> HIDE DEF b
<1>4. /\ c \in Connection /\ c.conn = a /\ c.toGet = << >> /\ c.seen = NoBlock /\ c.asked = {}
      /\ c.requested = << >>
  BY <1>3, StartFacts
<1> HIDE DEF c
<1>5. CalledFor(p, j) /\ CallFor(j, p, c, p)
  BY <1>4, AskCalled
<1> HIDE DEF j
<1>6. j \in Job /\ OneCall(p)
  BY <1>1, <1>5 DEF CalledFor, OneCall
<1>7. jobs \in Seq(Job) /\ RestTyped
  BY SyncTypes DEF SyncInv, SyncBase
<1>8. RestTyped'
  BY <1>1, <1>7 DEF RestTyped
<1>9. Range(jobs') = J \cup {j}
  BY <1>1, <1>6, <1>7, RangeOfAppend
<1>10. \A i \in J : ~(i.kind = "ask" /\ i.peer = p)
  <2>1. \A i \in J : CallOK(i, peers)
    BY DEF SyncInv, SyncBase, TasksOf
  <2> QED BY <1>1, <2>1, NoOthers DEF CallOK
<1>11. PeerOK(p, c, J, K)
  BY <1>4, <1>10, EmptyList DEF PeerOK, ListOK, AsksOK, AskedOK, SafeBy
<1> HIDE DEF J, K
<1>12. PeerOK(p, c, J \cup {j}, K)
  BY <1>2, <1>4, <1>5, <1>11, NoOthers, OneMoreAsk
<1>13. peers[p].requested = << >>
  BY <1>1 DEF SyncInv, SyncBase, RefusedApart
<1> QED BY <1>1, <1>2, <1>4, <1>6, <1>8, <1>9, <1>12, <1>13, StepOfOne DEF J, K

\* A peer that is silent is disconnected.
LEMMA TerminateKeeps ==
    ASSUME SyncConstants, SyncInv, NEW p \in Peer, TerminateInactive(p)
    PROVE  SyncInv'
<1> DEFINE e == "closing"
           d == [peers[p] EXCEPT !.conn = e]
<1>1. peers \in [Peer -> Connection] /\ peers[p] \in Connection /\ RestTyped
  BY SyncTypes DEF SyncInv, SyncBase
<1>2. /\ peers' = [peers EXCEPT ![p] = d]
      /\ UNCHANGED << tip, held, active, arrived, received, recent, jobs, due, suspended, connects,
                      overtaken, missed, skipped, lacking >>
  BY <1>1 DEF TerminateInactive, Disconnect, noted
<1>3. e \in {"closed", "active", "closing"} /\ e # "closed"
  OBVIOUS
<1> HIDE DEF e
<1>4. d \in Connection /\ SameList(peers[p], d) /\ d.requested = peers[p].requested /\ d.conn = e
  BY <1>1, <1>3, SetConn DEF SameList
<1> HIDE DEF d
<1>5. RestTyped'
  BY <1>1, <1>2 DEF RestTyped
<1> QED BY <1>2, <1>3, <1>4, <1>5, StepKeepsList

\* A peer adopts another chain.
LEMMA AdoptKeeps ==
    ASSUME SyncConstants, SyncInv, NEW p \in Peer, AdoptChain(p)
    PROVE  SyncInv'
<1>1. /\ UNCHANGED << peers, held, active, arrived, received, recent, jobs, due, suspended, connects,
                      overtaken, missed, skipped, lacking >>
      /\ \E b \in Block : tip' = [tip EXCEPT ![p] = b]
  BY DEF AdoptChain, noted
<1>2. RestTyped
  BY SyncTypes DEF SyncInv, SyncBase
<1>3. RestTyped'
  BY <1>1, <1>2 DEF RestTyped
<1> QED BY <1>1, <1>3, NothingChanges

\* An advertised block is requested.
LEMMA RequestBlockKeeps ==
    ASSUME SyncConstants, SyncInv, NEW p \in Peer, RequestBlock(p)
    PROVE  SyncInv'
<1> DEFINE b == tip[p]
           u == {b}
           v == peers[p].offered \cup u
           c == [peers[p] EXCEPT !.normal = u]
           d == [c EXCEPT !.offered = v]
<1>1. /\ peers \in [Peer -> Connection] /\ peers[p] \in Connection /\ RestTyped
      /\ tip \in [Peer -> Block \cup {NoBlock}] /\ peers[p].offered \subseteq Block
  BY SyncTypes, ConnectionFields DEF SyncInv, SyncBase, Connection
<1>2. /\ MayReceive(p) /\ b # NoBlock
      /\ peers' = [peers EXCEPT ![p].normal = u, ![p].offered = @ \cup u]
      /\ UNCHANGED << tip, held, active, arrived, received, recent, jobs, due, suspended, connects,
                      overtaken, missed, skipped, lacking >>
  BY DEF RequestBlock, noted
<1>3. u \in SUBSET Block /\ v \in SUBSET Block
  BY <1>1, <1>2
<1>4. peers' = [peers EXCEPT ![p] = d]
  BY <1>1, <1>2 DEF Connection
<1> HIDE DEF u, v
<1>5. c \in Connection /\ SameList(peers[p], c) /\ c.requested = peers[p].requested /\ c.conn = peers[p].conn
  BY <1>1, <1>3, SetNormal DEF SameList
<1> HIDE DEF c
<1>6. d \in Connection /\ SameList(peers[p], d) /\ d.requested = peers[p].requested /\ d.conn = peers[p].conn
  BY <1>1, <1>3, <1>5, SetOffered DEF SameList
<1> HIDE DEF d
<1>7. RestTyped'
  BY <1>1, <1>2 DEF RestTyped
<1>8. peers[p].conn # "closed"
  BY <1>2 DEF MayReceive, Connected
<1> QED BY <1>2, <1>4, <1>6, <1>7, <1>8, StepKeepsList

\* A peer does not have the block it advertised.
LEMMA NormalNotAvailableKeeps ==
    ASSUME SyncConstants, SyncInv, NEW p \in Peer, NEW b, NormalNotAvailable(p, b)
    PROVE  SyncInv'
<1> DEFINE u == peers[p].normal \ {b}
           v == peers[p].offered \ {b}
           c == [peers[p] EXCEPT !.normal = u]
           d == [c EXCEPT !.offered = v]
<1>1. /\ peers \in [Peer -> Connection] /\ peers[p] \in Connection /\ RestTyped
      /\ peers[p].offered \subseteq Block /\ peers[p].normal \subseteq Block
  BY SyncTypes DEF SyncInv, SyncBase, Connection
<1>2. /\ MayReceive(p)
      /\ peers' = [peers EXCEPT ![p].normal = @ \ {b}, ![p].offered = @ \ {b}]
      /\ UNCHANGED << tip, held, active, arrived, received, recent, jobs, due, suspended, connects,
                      overtaken, missed, skipped, lacking >>
  BY DEF NormalNotAvailable, noted
<1>3. u \in SUBSET Block /\ v \in SUBSET Block
  BY <1>1
<1>4. peers' = [peers EXCEPT ![p] = d]
  BY <1>1, <1>2 DEF Connection
<1> HIDE DEF u, v
<1>5. c \in Connection /\ SameList(peers[p], c) /\ c.requested = peers[p].requested /\ c.conn = peers[p].conn
  BY <1>1, <1>3, SetNormal DEF SameList
<1> HIDE DEF c
<1>6. d \in Connection /\ SameList(peers[p], d) /\ d.requested = peers[p].requested /\ d.conn = peers[p].conn
  BY <1>1, <1>3, <1>5, SetOffered DEF SameList
<1> HIDE DEF d
<1>7. RestTyped'
  BY <1>1, <1>2 DEF RestTyped
<1>8. peers[p].conn # "closed"
  BY <1>2 DEF MayReceive, Connected
<1> QED BY <1>2, <1>4, <1>6, <1>7, <1>8, StepKeepsList

\* The first request is answered.
LEMMA FirstRequest ==
    ASSUME NEW s \in Seq(Block), s # << >>, IsInjective(s)
    PROVE  /\ Tail(s) \in Seq(Block) /\ IsInjective(Tail(s))
           /\ Range(Tail(s)) = Range(s) \ {Head(s)}
<1> DEFINE t == Tail(s)
<1>1. t \in Seq(Block) /\ Len(t) = Len(s) - 1 /\ Len(s) \in Nat /\ Len(s) > 0 /\ Head(s) = s[1]
      /\ (\A i \in 1 .. Len(s) - 1 : t[i] = s[i + 1]) /\ Range(s) = Range(t) \cup {Head(s)}
  BY RangeOfTail
<1>2. DOMAIN s = 1 .. Len(s)
  OBVIOUS
<1>3. \A i, k \in 1 .. Len(s) : s[i] = s[k] => i = k
  BY <1>2 DEF IsInjective
<1> HIDE DEF t
<1>4. \A i \in 1 .. Len(t) : i \in 1 .. Len(s) - 1 /\ i + 1 \in 1 .. Len(s) /\ i + 1 # 1
  BY <1>1
<1>5. \A i, k \in 1 .. Len(t) : i + 1 = k + 1 => i = k
  OBVIOUS
<1>6. ASSUME NEW i \in 1 .. Len(t), NEW k \in 1 .. Len(t), t[i] = t[k]
      PROVE  i = k
  BY <1>1, <1>3, <1>4, <1>5, <1>6
<1>7. 1 \in 1 .. Len(s)
  BY <1>1
<1>8. ASSUME NEW i \in 1 .. Len(t)
      PROVE  t[i] # s[1]
  <2>1. t[i] = s[i + 1] /\ i + 1 \in 1 .. Len(s) /\ i + 1 # 1
    BY <1>1, <1>4
  <2> QED BY <1>3, <1>7, <2>1
<1>9. Head(s) \notin Range(t)
  BY <1>1, <1>8, RangeIs
<1>10. DOMAIN t = 1 .. Len(t)
  BY <1>1
<1> QED BY <1>1, <1>6, <1>9, <1>10 DEF IsInjective, t


\* p waits no longer for the blocks X; they leave _active_sync_requests, or stay
\* there as refused.
LEMMA LessRequested ==
    ASSUME OneRequestEach, RefusedApart, NEW p \in Peer, NEW X,
           X \subseteq Range(peers[p].requested),
           \A q \in Peer : q # p => /\ peers'[q].requested = peers[q].requested
                                    /\ peers'[q].conn = peers[q].conn,
           IsInjective(peers'[p].requested),
           Range(peers'[p].requested) = Range(peers[p].requested) \ X,
           peers'[p].conn = "closed" => peers'[p].requested = << >>,
           lacking \subseteq lacking', lacking' \subseteq lacking \cup X,
           \A b : b \in active' <=> (b \in lacking' \/ (b \in active /\ b \notin X))
    PROVE  OneRequestEach' /\ RefusedApart'
<1> DEFINE R(q) == Range(peers[q].requested)
           S(q) == Range(peers'[q].requested)
<1>1. \A b : b \in active <=> (b \in lacking \/ \E q \in Peer : b \in R(q))
  BY ActiveIs DEF OneRequestEach
<1>2. /\ \A q, r \in Peer : q # r => R(q) \cap R(r) = {}
      /\ \A q \in Peer : lacking \cap R(q) = {} /\ IsInjective(peers[q].requested)
  BY DEF OneRequestEach, RefusedApart
<1>3. \A q \in Peer : q # p => S(q) = R(q) /\ IsInjective(peers'[q].requested)
  BY <1>2
<1>4. X \subseteq R(p) /\ S(p) = R(p) \ X /\ IsInjective(peers'[p].requested)
  OBVIOUS
<1>5. \A q \in Peer : peers'[q].conn = "closed" => peers'[q].requested = << >>
  BY DEF RefusedApart
<1>6. \A q \in Peer : IsInjective(peers'[q].requested)
  BY <1>3, <1>4
<1> HIDE DEF R, S
<1>7. \A q \in Peer : S(q) \subseteq R(q) /\ S(q) \cap X = {}
  BY <1>2, <1>3, <1>4
<1>8. \A q, r \in Peer : q # r => S(q) \cap S(r) = {}
  BY <1>2, <1>7
<1>9. \A q \in Peer : lacking' \cap S(q) = {}
  BY <1>2, <1>7
<1>10. ASSUME NEW b
       PROVE  b \in active' <=> (b \in lacking' \/ \E q \in Peer : b \in S(q))
  <2>1. ASSUME b \in active, b \notin X
        PROVE  b \in lacking' \/ \E q \in Peer : b \in S(q)
    <3>1. CASE b \in lacking
      BY <3>1
    <3>2. ASSUME NEW q \in Peer, b \in R(q)
          PROVE  b \in S(q)
      BY <1>3, <1>4, <2>1, <3>2
    <3> QED BY <1>1, <2>1, <3>1, <3>2
  <2>2. ASSUME NEW q \in Peer, b \in S(q)
        PROVE  b \in active /\ b \notin X
    BY <1>1, <1>7, <2>2
  <2> QED BY <2>1, <2>2
<1>11. active' = lacking' \cup UNION { Range(peers'[q].requested) : q \in Peer }
  BY <1>10, ActiveIs DEF S
<1>12. OneRequestEach'
  BY <1>6, <1>8, <1>11 DEF OneRequestEach, S
<1>13. RefusedApart'
  BY <1>5, <1>9 DEF RefusedApart, S
<1> QED BY <1>12, <1>13


LEMMA BaseOfLess ==
    ASSUME SyncConstants, SyncBase, NEW p \in Peer, NEW d \in Connection,
           peers' = [peers EXCEPT ![p] = d], d.conn # "closed", OneCall(p), RestTyped',
           UNCHANGED << held, recent >>,
           NEW X, X \subseteq Range(peers[p].requested), IsInjective(d.requested),
           Range(d.requested) = Range(peers[p].requested) \ X,
           lacking \subseteq lacking', lacking' \subseteq lacking \cup X,
           \A b : b \in active' <=> (b \in lacking' \/ (b \in active /\ b \notin X))
    PROVE  SyncBase'
<1>1. jobs \in Seq(Job) /\ peers \in [Peer -> Connection]
  BY SyncTypes DEF SyncBase
<1>2. /\ peers' \in [Peer -> Connection] /\ StillOpen(peers, peers')
      /\ peers'[p] = d /\ \A q \in Peer : q # p => peers'[q] = peers[q]
  BY <1>1 DEF StillOpen
<1>3. /\ jobs' \in Seq(Job)
      /\ Range(jobs') = Range(jobs) \/ \E j : CalledFor(p, j) /\ Range(jobs') = Range(jobs) \cup {j}
  BY <1>1, OneCallFacts
<1>4. TasksOf(peers', Range(jobs))
  <2>1. Range(jobs) \in SUBSET Job
    BY <1>1, RangeIs
  <2> QED BY <1>2, <2>1, TasksKept DEF SyncBase
<1>5. \A j : CalledFor(p, j) => CallOK(j, peers')
  BY <1>2 DEF CalledFor, CallOK
<1>6. TasksOf(peers', Range(jobs'))
  BY <1>3, <1>4, <1>5 DEF TasksOf
<1>7. HaveOK'
  BY DEF SyncBase, HaveOK
<1>8. OneRequestEach' /\ RefusedApart'
  BY <1>2, LessRequested DEF SyncBase
<1>9. SyncTypeOK'
  BY <1>2, <1>3 DEF RestTyped, SyncTypeOK
<1> QED BY <1>6, <1>7, <1>8, <1>9 DEF SyncBase

\* A block that was requested arrives.
LEMMA SyncBlockKeeps ==
    ASSUME SyncConstants, SyncInv, NEW p \in Peer, SyncBlock(p)
    PROVE  SyncInv'
<1> DEFINE old == peers[p]
           s == old.requested
           b == Head(s)
           t == Tail(s)
           c == [old EXCEPT !.requested = t]
           J == Range(jobs)
           K == HeldBy(held.have, J)
           j == Ask(p, c)
<1>1. /\ MayReceive(p) /\ s # << >>
      /\ peers' = [peers EXCEPT ![p] = c] /\ active' = active \ {b} /\ arrived' = << b >> \o arrived
      /\ jobs' = jobs \/ jobs' = Append(jobs, j)
      /\ due' \subseteq due \cup {"backlog", "fetch"}
      /\ missed' \subseteq missed \cup {b}
      /\ UNCHANGED << tip, held, received, recent, suspended, connects, overtaken, skipped, lacking >>
  BY DEF SyncBlock, TriggerBacklog
<1>2. /\ jobs \in Seq(Job) /\ peers \in [Peer -> Connection] /\ old \in Connection
      /\ s \in Seq(Block) /\ OneRequestEach /\ RefusedApart /\ old.toGet \in Seq(Block) /\ RestTyped
      /\ SyncTypeOK /\ SyncBase
  BY SyncTypes, ConnectionFields DEF SyncInv, SyncBase
<1>3. IsInjective(s) /\ Range(s) \subseteq active /\ lacking \cap Range(s) = {}
  BY <1>2 DEF OneRequestEach, RefusedApart
<1>4. t \in Seq(Block) /\ IsInjective(t) /\ Range(t) = Range(s) \ {b} /\ b \in Block /\ b \in Range(s)
  <2>1. b \in Block /\ Range(s) = Range(t) \cup {b}
    BY <1>1, <1>2, RangeOfTail
  <2> QED BY <1>1, <1>2, <1>3, <2>1, FirstRequest
<1> HIDE DEF t, b
<1>5. c \in Connection /\ SameList(old, c) /\ c.requested = t /\ c.conn = old.conn
  BY <1>2, <1>4, SetRequested DEF SameList
<1> HIDE DEF c
<1>6. old.conn # "closed" /\ \A i \in J : i.handler # p
  BY <1>1, <1>2, NoneWaits
<1>7. CalledFor(p, j) /\ CallFor(j, p, c, p)
  BY <1>5, AskCalled
<1> HIDE DEF j
<1>8. OneCall(p) /\ j \in Job
  BY <1>1, <1>7 DEF OneCall, CalledFor
<1>9. RestTyped'
  <2>1. arrived' \in Seq(Block) /\ active' \subseteq Block /\ missed' \subseteq Block /\ due' \subseteq {"fetch", "backlog"}
    BY <1>1, <1>2, <1>4 DEF RestTyped
  <2> QED BY <1>1, <1>2, <2>1 DEF RestTyped
<1>10. SyncBase'
  <2>1. {b} \subseteq Range(peers[p].requested) /\ Range(c.requested) = Range(peers[p].requested) \ {b}
        /\ IsInjective(c.requested) /\ c.conn # "closed"
    BY <1>4, <1>5, <1>6 DEF old
  <2>2. \A x : x \in active' <=> (x \in lacking' \/ (x \in active /\ x \notin {b}))
    <3>1. lacking \subseteq active /\ b \notin lacking
      BY <1>2, <1>3, <1>4 DEF OneRequestEach
    <3> QED BY <1>1, <3>1
  <2>3. lacking \subseteq lacking' /\ lacking' \subseteq lacking \cup {b}
    BY <1>1
  <2> QED BY <1>1, <1>2, <1>5, <1>8, <1>9, <2>1, <2>2, <2>3, BaseOfLess
<1>11. ASSUME FetchOK
       PROVE  FetchOK'
  <2>1. PeerOK(p, old, J, K) /\ Grows(K, K) /\ CallsFor(p, J, J)
    BY <1>11, SetGrows DEF FetchOK, FetchOf, AllOK, CallsFor
  <2> HIDE DEF J, K, old
  <2>2. PeerOK(p, c, J, K)
    BY <1>2, <1>5, <2>1, PeerKept
  <2>3. PeerOK(p, c, J \cup {j}, K)
    BY <1>5, <1>6, <1>7, <2>2, NoOthers, OneMoreAsk
  <2>4. PeerOK(p, c, Range(jobs'), K)
    <3>1. CASE jobs' = jobs
      BY <2>2, <3>1 DEF J
    <3>2. CASE jobs' = Append(jobs, j)
      <4>1. Range(jobs') = J \cup {j}
        BY <1>2, <1>8, <3>2, RangeOfAppend DEF J
      <4> QED BY <2>3, <4>1
    <3> QED BY <1>1, <3>1, <3>2
  <2> QED BY <1>1, <1>2, <1>5, <1>8, <1>11, <2>4, FetchOfOne DEF J, K
<1> QED BY <1>1, <1>10, <1>11 DEF SyncInv

\* A peer does not have what was requested.
LEMMA ItemNotAvailableKeeps ==
    ASSUME SyncConstants, SyncInv, NEW p \in Peer, ItemNotAvailable(p)
    PROVE  SyncInv'
<1> DEFINE old == peers[p]
           s == old.requested
           b == Head(s)
           t == Tail(s)
           c == [old EXCEPT !.requested = t]
           yes == TRUE
           e == "closing"
           d1 == [c EXCEPT !.inhibit = yes]
           d2 == [c EXCEPT !.conn = e]
           d == IF c.peerNeeds THEN d1 ELSE d2
<1>1. /\ MayReceive(p) /\ s # << >> /\ peers' = [peers EXCEPT ![p] = d]
      /\ due' = due \cup {"fetch"} /\ lacking' = lacking \cup {b}
      /\ UNCHANGED << tip, held, active, arrived, received, recent, jobs, suspended, connects,
                      overtaken, missed, skipped >>
  BY DEF ItemNotAvailable, Disconnect
<1>2. /\ peers \in [Peer -> Connection] /\ old \in Connection /\ SyncTypeOK /\ SyncBase
      /\ s \in Seq(Block) /\ OneRequestEach /\ RefusedApart /\ RestTyped
  BY SyncTypes, ConnectionFields DEF SyncInv, SyncBase
<1>3. IsInjective(s) /\ Range(s) \subseteq active
  BY <1>2 DEF OneRequestEach
<1>4. t \in Seq(Block) /\ IsInjective(t) /\ Range(t) = Range(s) \ {b} /\ b \in Block /\ b \in Range(s)
  <2>1. b \in Block /\ Range(s) = Range(t) \cup {b}
    BY <1>1, <1>2, RangeOfTail
  <2> QED BY <1>1, <1>2, <1>3, <2>1, FirstRequest
<1>5. yes \in BOOLEAN /\ e \in {"closed", "active", "closing"} /\ e # "closed"
  OBVIOUS
<1> HIDE DEF t, b, yes, e
<1>6. c \in Connection /\ SameList(old, c) /\ c.requested = t /\ c.conn = old.conn
  BY <1>2, <1>4, SetRequested DEF SameList
<1> HIDE DEF c
<1>7. d \in Connection /\ SameList(old, d) /\ d.requested = t /\ (d.conn = old.conn \/ d.conn = e)
  <2>1. d1 \in Connection /\ SameList(old, d1) /\ d1.requested = t /\ d1.conn = old.conn
    BY <1>5, <1>6, SetInhibit DEF SameList
  <2>2. d2 \in Connection /\ SameList(old, d2) /\ d2.requested = t /\ d2.conn = e
    BY <1>5, <1>6, SetConn DEF SameList
  <2> HIDE DEF d1, d2
  <2> QED BY <2>1, <2>2
<1> HIDE DEF d
<1>8. RestTyped' /\ OneCall(p)
  <2>1. due' \subseteq {"fetch", "backlog"} /\ lacking' \subseteq Block
    BY <1>1, <1>2, <1>4 DEF RestTyped
  <2> QED BY <1>1, <1>2, <2>1 DEF RestTyped, OneCall
<1>9. d.conn # "closed"
  BY <1>1, <1>5, <1>7 DEF MayReceive, Connected
<1>10. SyncBase'
  <2>1. {b} \subseteq Range(peers[p].requested) /\ Range(d.requested) = Range(peers[p].requested) \ {b}
        /\ IsInjective(d.requested)
    BY <1>4, <1>7
  <2>2. \A x : x \in active' <=> (x \in lacking' \/ (x \in active /\ x \notin {b}))
    <3>1. lacking \subseteq active /\ b \in active
      BY <1>2, <1>3, <1>4 DEF OneRequestEach
    <3> QED BY <1>1, <3>1
  <2>3. lacking \subseteq lacking' /\ lacking' \subseteq lacking \cup {b}
    BY <1>1
  <2> QED BY <1>1, <1>2, <1>7, <1>8, <1>9, <2>1, <2>2, <2>3, BaseOfLess
<1>11. FetchOK => FetchOK'
  BY <1>1, <1>2, <1>7, ListKept
<1> QED BY <1>1, <1>10, <1>11 DEF SyncInv

\* The connections that advertised a block that the delegate has.
LEMMA SeenByFacts ==
    ASSUME peers \in [Peer -> Connection], NEW b \in Block, NEW J, NEW K, b \in K
    PROVE  /\ SeenBy(b) \in [Peer -> Connection]
           /\ \A q \in Peer : /\ SeenBy(b)[q].conn = peers[q].conn
                              /\ SeenBy(b)[q].requested = peers[q].requested
                              /\ PeerOK(q, peers[q], J, K) => PeerOK(q, SeenBy(b)[q], J, K)
<1>1. ASSUME NEW q \in Peer
      PROVE  /\ SeenBy(b)[q] \in Connection
             /\ SeenBy(b)[q].conn = peers[q].conn
             /\ SeenBy(b)[q].requested = peers[q].requested
             /\ PeerOK(q, peers[q], J, K) => PeerOK(q, SeenBy(b)[q], J, K)
  <2> DEFINE c == peers[q]
             d == [c EXCEPT !.seen = b]
  <2>1. SeenBy(b)[q] = c \/ SeenBy(b)[q] = d
    BY DEF SeenBy
  <2>2. c \in Connection /\ b \in Block \cup {NoBlock}
    OBVIOUS
  <2> HIDE DEF c
  <2>3. /\ d \in Connection /\ d.seen = b /\ d.toGet = c.toGet /\ d.asked = c.asked
        /\ d.conn = c.conn /\ d.requested = c.requested
    BY <2>2, SetSeen
  <2> HIDE DEF d
  <2>4. ASSUME PeerOK(q, c, J, K)
        PROVE  PeerOK(q, d, J, K)
    <3>1. ListOK(d, K)
      BY <2>3, <2>4 DEF PeerOK, ListOK, SafeBy
    <3>2. AsksOK(q, d, J, K) /\ AskedOK(q, d, J, K)
      BY <2>3, <2>4 DEF PeerOK, AsksOK, AskOK, AskedOK
    <3> QED BY <3>1, <3>2 DEF PeerOK
  <2> QED BY <2>1, <2>2, <2>3, <2>4 DEF c
<1>2. SeenBy(b) \in [Peer -> Connection]
  <2>1. DOMAIN SeenBy(b) = Peer /\ SeenBy(b) = [q \in Peer |-> SeenBy(b)[q]]
    BY DEF SeenBy
  <2> QED BY <1>1, <2>1
<1> QED BY <1>1, <1>2

\* A peer sends a block that it advertised.
LEMMA NormalBlockKeeps ==
    ASSUME SyncConstants, SyncInv, NEW p \in Peer, NEW b, b \in peers[p].normal, NormalBlock(p, b)
    PROVE  SyncInv'
<1> DEFINE J == Range(jobs)
           K == HeldBy(held.have, J)
           n == [kind |-> "normal", block |-> b, peer |-> p, handler |-> p, task |-> "read"]
<1>0. /\ peers \in [Peer -> Connection] /\ peers[p] \in Connection /\ jobs \in Seq(Job)
      /\ RestTyped /\ SyncTypeOK /\ SyncBase /\ peers[p].normal \subseteq Block
  BY SyncTypes DEF SyncInv, SyncBase, Connection
<1>1. /\ MayReceive(p) /\ b \in Block
      /\ UNCHANGED << tip, held, active, arrived, received, recent, due, suspended, connects,
                      overtaken, missed, skipped, lacking >>
      /\ \/ b \in Range(recent) /\ peers' = [SeenBy(b) EXCEPT ![p].normal = @ \ {b}] /\ jobs' = jobs
         \/ peers' = [peers EXCEPT ![p].normal = @ \ {b}] /\ jobs' = Append(jobs, n)
  BY <1>0 DEF NormalBlock, noted
<1>2. RestTyped'
  BY <1>0, <1>1 DEF RestTyped
<1>3. peers[p].conn # "closed"
  BY <1>1 DEF MayReceive, Connected
<1>4. CASE b \in Range(recent) /\ peers' = [SeenBy(b) EXCEPT ![p].normal = @ \ {b}] /\ jobs' = jobs
  <2> DEFINE cs == SeenBy(b)
             c == cs[p]
             u == c.normal \ {b}
             d == [c EXCEPT !.normal = u]
  <2>1. b \in K
    BY <1>4 DEF SyncInv, SyncBase, HaveOK, HeldBy
  <2>2. /\ cs \in [Peer -> Connection]
        /\ \A q \in Peer : /\ cs[q].conn = peers[q].conn /\ cs[q].requested = peers[q].requested
                           /\ PeerOK(q, peers[q], J, K) => PeerOK(q, cs[q], J, K)
    <3> HIDE DEF J, K
    <3> QED BY <1>0, <1>1, <2>1, SeenByFacts
  <2>3. peers' = [cs EXCEPT ![p] = d]
    <3> HIDE DEF cs
    <3>1. peers' = [cs EXCEPT ![p].normal = @ \ {b}]
      BY <1>4 DEF cs
    <3> QED BY <2>2, <3>1
  <2> HIDE DEF cs
  <2>4. c \in Connection /\ u \in SUBSET Block
    BY <2>2 DEF Connection
  <2> HIDE DEF c, u
  <2>5. d \in Connection /\ SameList(c, d) /\ d.requested = c.requested /\ d.conn = c.conn
    BY <2>4, SetNormal DEF SameList
  <2> HIDE DEF d
  <2>6. /\ peers' \in [Peer -> Connection] /\ SameRequests(peers, peers') /\ StillOpen(peers, peers')
    BY <2>2, <2>3, <2>5 DEF SameRequests, StillOpen, c
  <2>7. TasksOf(peers', Range(jobs')) /\ HaveOK' /\ jobs' \in Seq(Job)
    <3>1. J \in SUBSET Job /\ TasksOf(peers, J)
      BY <1>0, RangeIs DEF SyncBase
    <3>2. TasksOf(peers', J)
      <4> HIDE DEF J
      <4> QED BY <2>6, <3>1, TasksKept
    <3> QED BY <1>0, <1>1, <1>4, <3>2 DEF SyncBase, HaveOK
  <2>8. SyncBase'
    BY <1>0, <1>1, <1>2, <2>6, <2>7, BaseKept
  <2>9. ASSUME FetchOK
        PROVE  FetchOK'
    <3>1. \A q \in Peer : PeerOK(q, cs[q], J, K)
      BY <2>2, <2>9 DEF FetchOK, FetchOf, AllOK
    <3>2. Grows(K, K) /\ CallsFor(p, J, J) /\ c.toGet \in Seq(Block)
      BY <2>4, SetGrows, ConnectionFields DEF CallsFor
    <3>3. PeerOK(p, d, J, K)
      <4> HIDE DEF J, K
      <4> QED BY <2>5, <3>1, <3>2, PeerKept DEF c
    <3>4. AllOK(peers', J, K)
      <4> HIDE DEF J, K
      <4> QED BY <2>2, <2>3, <3>1, <3>3 DEF AllOK
    <3>5. LinksIn(jobs, held.have)
      BY <2>9 DEF FetchOK, FetchOf
    <3> QED BY <1>1, <1>4, <3>4, <3>5 DEF FetchOK, FetchOf
  <2> QED BY <1>1, <2>8, <2>9 DEF SyncInv
<1>5. CASE peers' = [peers EXCEPT ![p].normal = @ \ {b}] /\ jobs' = Append(jobs, n)
  <2> DEFINE c == peers[p]
             u == c.normal \ {b}
             d == [c EXCEPT !.normal = u]
  <2>1. /\ n \in Job /\ n.kind = "normal" /\ n.peer = p /\ n.handler = p
    BY <1>1 DEF Job
  <2> HIDE DEF n
  <2>2. Range(jobs') = J \cup {n} /\ CalledFor(p, n) /\ OneCall(p)
    BY <1>0, <1>5, <2>1, RangeOfAppend DEF CalledFor, OneCall
  <2>3. peers' = [peers EXCEPT ![p] = d] /\ u \in SUBSET Block /\ c \in Connection
    BY <1>0, <1>5
  <2>4. d \in Connection /\ SameList(c, d) /\ d.requested = c.requested /\ d.conn = c.conn
    <3> HIDE DEF c, u
    <3> QED BY <2>3, SetNormal DEF SameList
  <2> HIDE DEF d
  <2>5. ASSUME FetchOK
        PROVE  PeerOK(p, d, J \cup {n}, K)
    <3>1. /\ \A i \in J : i.handler # p
          /\ \A i \in J : i.kind = "ask" /\ i.peer = p => i.ids = << >>
      BY <1>0, <1>1, <2>5, NoneWaits
    <3>2. PeerOK(p, c, J, K) /\ Grows(K, K) /\ CallsFor(p, J, J) /\ c.toGet \in Seq(Block)
      BY <1>0, <2>5, SetGrows, ConnectionFields DEF FetchOK, FetchOf, AllOK, CallsFor
    <3> HIDE DEF J, K, c
    <3>3. PeerOK(p, d, J, K)
      BY <2>4, <3>2, PeerKept
    <3>4. ASSUME NEW j \in J \cup {n}, j.kind = "ask", j.peer = p
          PROVE  AskOK(j, d, J \cup {n}, K)
      <4>1. j \in J /\ j.ids = << >>
        BY <2>1, <3>1, <3>4
      <4>2. AskOK(j, d, J, K)
        BY <3>3, <3>4, <4>1 DEF PeerOK, AsksOK
      <4> QED BY <4>1, <4>2 DEF AskOK
    <3>5. AskedOK(p, d, J \cup {n}, K)
      BY <3>3 DEF PeerOK, AskedOK
    <3> QED BY <3>3, <3>4, <3>5 DEF PeerOK, AsksOK
  <2>6. FetchOK => PeerOK(p, d, Range(jobs'), HeldBy(held.have, Range(jobs)))
    BY <2>2, <2>5
  <2>7. d.requested = peers[p].requested /\ d.conn # "closed"
    BY <1>3, <2>4
  <2> QED BY <1>1, <1>2, <2>2, <2>3, <2>4, <2>6, <2>7, StepOfOne
<1> QED BY <1>1, <1>4, <1>5


\* A peer asks for ids, and shows blocks that are not here.
LEMMA FetchIdsKeeps ==
    ASSUME SyncConstants, SyncInv, NEW p \in Peer, FetchBlockchainItemIds(p)
    PROVE  SyncInv'
<1> DEFINE theirs == TipSynopsis[tip[p]]
           ids == IdsFor[held.head, tip[p]]
           single == theirs # << >> /\ Len(ids) = 1 /\ ids[1] \in Range(theirs)
           needs == ids # << >> /\ ~single
           old == peers[p]
           c == [old EXCEPT !.peerNeeds = needs]
           restart == ~c.weNeed /\ tip[p] # NoBlock /\ tip[p] \notin held.have
           new == IF restart THEN StartSync(c) ELSE c
           leave == single /\ old.inhibit
           e == "closing"
           gone == [new EXCEPT !.conn = e]
           d == IF leave THEN gone ELSE new
           J == Range(jobs)
           K == HeldBy(held.have, J)
           j == Ask(p, new)
<1>a. UNCHANGED << tip, held, active, arrived, received, recent, due, suspended, connects,
                   overtaken, missed, skipped, lacking >>
  <2>1. UNCHANGED << tip, held, active, arrived, received, recent, due, suspended, connects, noted >>
    BY ZenonT(30) DEF FetchBlockchainItemIds
  <2> QED BY <2>1 DEF noted
<1>1. /\ MayReceive(p) /\ peers' = [peers EXCEPT ![p] = d]
      /\ jobs' = IF restart THEN Append(jobs, j) ELSE jobs
  BY ZenonT(30) DEF FetchBlockchainItemIds, Disconnect
<1>2. needs \in BOOLEAN /\ e \in {"closed", "active", "closing"} /\ e # "closed"
  OBVIOUS
<1> HIDE DEF needs, single, e
<1>3. /\ peers \in [Peer -> Connection] /\ old \in Connection /\ jobs \in Seq(Job)
      /\ old.toGet \in Seq(Block) /\ RestTyped
  BY SyncTypes, ConnectionFields DEF SyncInv, SyncBase
<1>b. RestTyped'
  BY <1>3, <1>a DEF RestTyped
<1>4. /\ old.conn # "closed" /\ (\A i \in J : i.handler # p)
      /\ FetchOK => \A i \in J : i.kind = "ask" /\ i.peer = p => i.ids = << >>
  BY <1>1, NoneWaits DEF SyncInv
<1>5. (FetchOK => PeerOK(p, old, J, K)) /\ Grows(K, K) /\ CallsFor(p, J, J) /\ NoBlock \in K
  BY SetGrows, EmptyList DEF FetchOK, FetchOf, AllOK, CallsFor
<1>6. c \in Connection /\ SameList(old, c) /\ c.conn = old.conn /\ c.requested = old.requested
  BY <1>2, <1>3, SetPeerNeeds DEF SameList
<1> HIDE DEF c, J, K, restart
<1>7. FetchOK => PeerOK(p, c, J, K)
  <2> HIDE DEF old
  <2> QED BY <1>3, <1>5, <1>6, PeerKept
<1>8. new \in Connection /\ new.conn = c.conn /\ new.requested = c.requested
  BY <1>6, StartFacts
<1>9. gone \in Connection /\ SameList(new, gone) /\ gone.conn = e /\ gone.requested = new.requested
  <2> HIDE DEF new
  <2> QED BY <1>2, <1>8, SetConn DEF SameList
<1>10. CASE restart
  <2>1. new.toGet = << >> /\ new.seen = NoBlock /\ new.asked = c.asked
    BY <1>6, <1>10, StartFacts
  <2> HIDE DEF new
  <2>2. d \in Connection /\ d.toGet = << >> /\ d.seen = NoBlock /\ d.asked = c.asked
        /\ d.conn # "closed" /\ d.requested = old.requested
    <3> HIDE DEF gone
    <3> QED BY <1>2, <1>4, <1>6, <1>8, <1>9, <2>1 DEF SameList
  <2>3. CalledFor(p, j) /\ CallFor(j, p, new, p)
    BY <1>8, AskCalled
  <2> HIDE DEF j, d
  <2>4. CallFor(j, p, d, p)
    BY <2>1, <2>2, <2>3 DEF CallFor
  <2>5. FetchOK => PeerOK(p, d, J \cup {j}, K)
    BY <1>4, <1>5, <1>6, <1>7, <2>2, <2>4, NoOthers, Restarted
  <2>6. Range(jobs') = J \cup {j} /\ jobs' = Append(jobs, j)
    <3>1. j \in Job
      BY <2>3 DEF CalledFor
    <3> QED BY <1>1, <1>3, <1>10, <3>1, RangeOfAppend DEF J
  <2>7. OneCall(p)
    BY <2>3, <2>6 DEF OneCall
  <2>8. peers' = [peers EXCEPT ![p] = d]
    BY <1>1
  <2> QED BY <1>a, <1>b, <2>2, <2>5, <2>6, <2>7, <2>8, StepOfOne DEF J, K
<1>11. CASE ~restart
  <2>1. new = c
    BY <1>11
  <2> HIDE DEF new
  <2>2. d \in Connection /\ SameList(old, d) /\ d.requested = old.requested /\ d.conn # "closed"
    <3> HIDE DEF gone
    <3> QED BY <1>2, <1>4, <1>6, <1>8, <1>9, <2>1 DEF SameList
  <2> HIDE DEF d
  <2>3. peers' = [peers EXCEPT ![p] = d] /\ jobs' = jobs
    BY <1>1, <1>11
  <2> QED BY <1>a, <1>b, <2>2, <2>3, StepKeepsList
<1> QED BY <1>10, <1>11

\* The ids that are dropped are blocks the delegate has.
LEMMA FlushedFacts ==
    ASSUME NEW p \in Peer, NEW ids \in Seq(Block)
    PROVE  /\ Flushed(p, ids) \in Nat /\ Flushed(p, ids) <= Len(ids)
           /\ \A i \in 1 .. Flushed(p, ids) : ids[i] \in held.have
<1> DEFINE N == { n \in 0 .. Len(ids) : \A i \in 1 .. n : ids[i] \in held.have }
           m == Flushed(p, ids)
<1>1. m = 0 \/ m = Max(N)
  BY DEF Flushed
<1>2. Len(ids) \in Nat /\ 0 \in N /\ N \subseteq 0 .. Len(ids)
  OBVIOUS
<1> HIDE DEF N, m
<1>3. \E x \in N : \A y \in N : y <= x
  BY <1>2, NatMax
<1>4. Max(N) \in N
  BY <1>3 DEF Max
<1>5. m \in N
  BY <1>1, <1>2, <1>4
<1> QED BY <1>2, <1>5 DEF N, m

\* A list is cut at an id, and continued with the list that starts with it.
LEMMA CutAndContinued ==
    ASSUME SyncConstants, NEW l \in Seq(Block), NEW ids \in Seq(Block),
           Linked(ids), ids # << >>, NEW m \in 1 .. Len(l), l[m] = ids[1]
    PROVE  LET w == SubSeq(l, 1, m - 1) \o ids IN
           /\ w \in Seq(Block) /\ w # << >> /\ (Linked(l) => Linked(w))
           /\ Parent(w[1]) = Parent(l[1])
<1> DEFINE u == SubSeq(l, 1, m - 1)
           w == u \o ids
           k == m - 1
<1>1. k \in Nat /\ k < Len(l) /\ k + 1 = m /\ 1 \in 1 .. Len(l) + 1 /\ k \in 1 - 1 .. Len(l) /\ Len(l) \in Nat
  OBVIOUS
<1>2. u \in Seq(Block) /\ Len(u) = k /\ \A i \in 1 .. k : u[i] = l[i]
  <2> DEFINE one == 1
  <2>1. one = 1 /\ one \in 1 .. Len(l) + 1 /\ k \in one - 1 .. Len(l)
    BY <1>1
  <2> HIDE DEF one, k
  <2>2. /\ SubSeq(l, one, k) \in Seq(Block) /\ Len(SubSeq(l, one, k)) = k - one + 1
        /\ \A i \in 1 .. k - one + 1 : SubSeq(l, one, k)[i] = l[one + i - 1]
    BY <2>1, PartOfSeq
  <2>3. k - one + 1 = k /\ \A i \in 1 .. k : one + i - 1 = i
    BY <1>1, <2>1
  <2>4. u = SubSeq(l, one, k)
    BY <2>1 DEF k
  <2> HIDE DEF u
  <2> QED BY <2>2, <2>3, <2>4
<1> HIDE DEF u, k
<1>3. w \in Seq(Block) /\ JoinOf(w, u, ids) /\ Len(ids) \in Nat /\ Len(ids) > 0
  BY <1>2, JoinedSeq
<1> HIDE DEF w
<1>4. /\ Len(w) = k + Len(ids) /\ (\A i \in 1 .. k : w[i] = l[i])
      /\ \A i \in 1 .. Len(ids) : w[k + i] = ids[i]
  BY <1>2, <1>3 DEF JoinOf
<1>5. ASSUME Linked(l), NEW i \in 1 .. Len(w) - 1
      PROVE  Parent(w[i + 1]) = w[i]
  <2>1. CASE i < k
    <3>1. i \in 1 .. k /\ i + 1 \in 1 .. k /\ i \in 1 .. Len(l) - 1
      BY <1>1, <2>1
    <3> QED BY <1>4, <1>5, <3>1 DEF Linked
  <2>2. CASE i = k
    <3>1. i \in 1 .. k /\ k \in 1 .. Len(l) - 1 /\ 1 \in 1 .. Len(ids)
      BY <1>1, <1>3, <2>2
    <3>2. w[i] = l[k] /\ w[k + 1] = ids[1] /\ l[k + 1] = ids[1]
      BY <1>1, <1>4, <2>2, <3>1
    <3>3. Parent(l[k + 1]) = l[k]
      BY <1>5, <3>1 DEF Linked
    <3> QED BY <2>2, <3>2, <3>3
  <2>3. CASE i > k
    <3> DEFINE r == i - k
    <3>1. r \in 1 .. Len(ids) - 1 /\ r \in 1 .. Len(ids) /\ r + 1 \in 1 .. Len(ids)
          /\ k + r = i /\ k + (r + 1) = i + 1
      BY <1>1, <1>3, <1>4, <2>3
    <3> HIDE DEF r
    <3>2. w[i] = ids[r] /\ w[i + 1] = ids[r + 1]
      BY <1>4, <3>1
    <3> QED BY <3>1, <3>2 DEF Linked
  <2> QED BY <1>1, <2>1, <2>2, <2>3
<1>6. Len(w) # 0
  BY <1>1, <1>3, <1>4
<1>7. w # << >>
  BY <1>6
<1>8. Parent(w[1]) = Parent(l[1])
  <2>1. CASE k = 0
    <3>1. 1 \in 1 .. Len(ids) /\ k + 1 = 1 /\ m = 1
      BY <1>1, <1>3, <2>1
    <3>2. w[1] = ids[1]
      BY <1>4, <3>1
    <3> QED BY <3>1, <3>2
  <2>2. CASE k # 0
    <3>1. 1 \in 1 .. k
      BY <1>1, <2>2
    <3> QED BY <1>4, <3>1
  <2> QED BY <2>1, <2>2
<1> QED BY <1>3, <1>5, <1>7, <1>8 DEF Linked, w, u

\* The list with the ids of a reply is again a part of a path that builds on a
\* block that the delegate will have: the first id is one of the synopsis.
LEMMA ExtendedFacts ==
    ASSUME SyncConstants, NEW p \in Peer, NEW c \in Connection, NEW ids \in Seq(Block), Linked(ids), NEW K
    PROVE  LET d == Extended(p, c, ids) IN
           /\ d \in Connection
           /\ (/\ held.have \subseteq K /\ (\A b \in Block : b \in K => Parent(b) \in K)
               /\ ListOK(c, K) /\ (ids # << >> => ids[1] \in Range(c.toGet) \cup SafeBy(K)))
                 => ListOK(d, K)
           /\ d.asked = c.asked /\ d.conn = c.conn /\ d.requested = c.requested
<1> DEFINE n == Flushed(p, ids)
           l == c.toGet
           at == { i \in DOMAIN l : l[i] = ids[1] }
           d == Extended(p, c, ids)
           fits == /\ held.have \subseteq K /\ (\A b \in Block : b \in K => Parent(b) \in K)
                   /\ ListOK(c, K) /\ (ids # << >> => ids[1] \in Range(l) \cup SafeBy(K))
<1>1. l \in Seq(Block) /\ c.seen \in Block \cup {NoBlock}
  BY ConnectionFields DEF NoneOr
<1>2. n \in Nat /\ n <= Len(ids) /\ (\A i \in 1 .. n : ids[i] \in held.have) /\ Len(ids) \in Nat
  BY FlushedFacts
<1>3. fits => /\ \A b \in Block : b \in SafeBy(K) => Parent(b) \in K
              /\ \A b, x \in Block : x \in SafeBy(K) /\ Parent(b) = x => x \in K
  BY SafeFacts
<1>4. CASE ids = << >>
  <2>1. d = c
    BY <1>4 DEF Extended
  <2> QED BY <2>1
<1>5. CASE ids # << >> /\ l = << >>
  <2> DEFINE t == SubSeq(ids, n + 1, Len(ids))
             s == IF n = 0 THEN c.seen ELSE ids[n]
  <2>1. d = [c EXCEPT !.toGet = t, !.seen = s]
    BY <1>5 DEF Extended
  <2> HIDE DEF n
  <2>2. s \in Block \cup {NoBlock} /\ (fits => s \in SafeBy(K))
    <3>1. CASE n = 0
      BY <1>1, <3>1 DEF ListOK
    <3>2. CASE n # 0
      <4>1. n \in 1 .. n /\ n \in 1 .. Len(ids)
        BY <1>2, <3>2
      <4>2. ids[n] \in held.have /\ ids[n] \in Block
        BY <1>2, <4>1
      <4> QED BY <3>2, <4>2 DEF SafeBy
    <3> QED BY <3>1, <3>2
  <2>3. t \in Seq(Block) /\ Linked(t) /\ (fits => (t # << >> => Parent(t[1]) \in K))
    <3>1. CASE n < Len(ids)
      <4>1. t \in Seq(Block) /\ t # << >> /\ Linked(t) /\ t[1] = ids[n + 1]
        BY <1>2, <3>1, PartLinked
      <4> HIDE DEF t
      <4>2. CASE n = 0
        <5>1. t[1] = ids[1] /\ ids[1] \in Block
          BY <1>5, <4>1, <4>2, FirstIn
        <5>2. fits => ids[1] \in SafeBy(K)
          BY <1>5, EmptyList
        <5> QED BY <1>3, <4>1, <5>1, <5>2
      <4>3. CASE n # 0
        <5>1. n \in 1 .. Len(ids) - 1 /\ n \in 1 .. n
          BY <1>2, <3>1, <4>3
        <5>2. Parent(ids[n + 1]) = ids[n] /\ ids[n] \in held.have
          BY <1>2, <5>1 DEF Linked
        <5> QED BY <4>1, <5>2
      <4> QED BY <4>2, <4>3
    <3>2. CASE ~(n < Len(ids))
      <4>1. t = << >>
        BY <1>2, <3>2
      <4> HIDE DEF t
      <4>2. << >> \in Seq(Block)
        OBVIOUS
      <4> QED BY <4>1, <4>2, EmptyList
    <3> QED BY <3>1, <3>2
  <2> HIDE DEF s, t
  <2>4. /\ d \in Connection /\ d.toGet = t /\ d.seen = s
        /\ d.asked = c.asked /\ d.conn = c.conn /\ d.requested = c.requested
    <3> DEFINE y == [c EXCEPT !.toGet = t]
               x == [y EXCEPT !.seen = s]
    <3>1. /\ y \in Connection /\ y.toGet = t
          /\ y.asked = c.asked /\ y.conn = c.conn /\ y.requested = c.requested
      BY <2>3, SetToGet
    <3>2. d = x
      BY <2>1
    <3> HIDE DEF y
    <3>3. /\ x \in Connection /\ x.toGet = t /\ x.seen = s
          /\ x.asked = c.asked /\ x.conn = c.conn /\ x.requested = c.requested
      BY <2>2, <3>1, SetSeen
    <3> HIDE DEF x, d
    <3> QED BY <3>2, <3>3
  <2> QED BY <2>2, <2>3, <2>4 DEF ListOK
<1>6. CASE ids # << >> /\ l # << >> /\ at # {}
  <2> DEFINE m == Max(at)
             t == SubSeq(l, 1, m - 1) \o ids
  <2>1. d = [c EXCEPT !.toGet = t]
    BY <1>6 DEF Extended
  <2>2. m \in 1 .. Len(l) /\ l[m] = ids[1]
    <3>1. at \subseteq 0 .. Len(l) /\ Len(l) \in Nat /\ at \subseteq 1 .. Len(l)
      BY <1>1
    <3> HIDE DEF at
    <3>2. \E x \in at : \A y \in at : y <= x
      BY <1>6, <3>1, NatMax
    <3>3. m \in at
      BY <3>2 DEF Max
    <3> QED BY <3>1, <3>3 DEF at
  <2> HIDE DEF m
  <2>3. t \in Seq(Block) /\ t # << >> /\ Parent(t[1]) = Parent(l[1]) /\ (Linked(l) => Linked(t))
    <3> HIDE DEF l
    <3> QED BY <1>1, <1>6, <2>2, CutAndContinued
  <2> HIDE DEF t
  <2>4. /\ d \in Connection /\ d.toGet = t /\ d.seen = c.seen
        /\ d.asked = c.asked /\ d.conn = c.conn /\ d.requested = c.requested
    BY <2>1, <2>3, SetToGet
  <2> QED BY <1>6, <2>3, <2>4 DEF ListOK
<1>7. CASE ids # << >> /\ l # << >> /\ at = {}
  <2> DEFINE t == Tail(ids)
             s == ids[1]
  <2>1. d = [c EXCEPT !.toGet = t, !.seen = s]
    BY <1>7 DEF Extended
  <2>2. s \in Block /\ (fits => s \in SafeBy(K))
    <3>1. s \notin Range(l)
      BY <1>7 DEF Range
    <3> QED BY <1>7, <3>1, FirstIn
  <2>3. t \in Seq(Block) /\ Linked(t) /\ (t # << >> => Parent(t[1]) = s /\ t[1] \in Block)
    BY <1>7, TailLinked, FirstIn
  <2> HIDE DEF s, t
  <2>4. fits => (t # << >> => Parent(t[1]) \in K)
    BY <1>3, <2>2, <2>3
  <2>5. /\ d \in Connection /\ d.toGet = t /\ d.seen = s
        /\ d.asked = c.asked /\ d.conn = c.conn /\ d.requested = c.requested
    <3> DEFINE y == [c EXCEPT !.toGet = t]
               x == [y EXCEPT !.seen = s]
    <3>1. /\ y \in Connection /\ y.toGet = t
          /\ y.asked = c.asked /\ y.conn = c.conn /\ y.requested = c.requested
      BY <2>3, SetToGet
    <3>2. d = x
      BY <2>1
    <3> HIDE DEF y
    <3>3. /\ x \in Connection /\ x.toGet = t /\ x.seen = s
          /\ x.asked = c.asked /\ x.conn = c.conn /\ x.requested = c.requested
      BY <2>2, <3>1, SetSeen
    <3> HIDE DEF x, d
    <3> QED BY <3>2, <3>3
  <2> QED BY <2>2, <2>3, <2>4, <2>5 DEF ListOK
<1> QED BY <1>4, <1>5, <1>6, <1>7

\* What the delegate will have, in a state that satisfies the invariant.
LEMMA WillHave ==
    ASSUME SyncConstants, SyncBase, FetchOK
    PROVE  LET K == HeldBy(held.have, Range(jobs)) IN
           /\ held.have \subseteq K /\ NoBlock \in K
           /\ \A b \in Block : b \in K => Parent(b) \in K
<1>1. /\ jobs \in Seq(Job) /\ LinksIn(jobs, held.have)
      /\ \A b \in held.have : Parent(b) \in held.have \cup {NoBlock}
  BY SyncTypes DEF SyncBase, FetchOK, FetchOf, HaveOK
<1> DEFINE K == HeldBy(held.have, Range(jobs))
<1>2. held.have \subseteq K /\ NoBlock \in K
  BY DEF HeldBy
<1>3. \A b \in Block : b \in K => Parent(b) \in K
  <2> DEFINE H == held.have
  <2> HIDE DEF H
  <2> QED BY <1>1, HeldClosed DEF H
<1> QED BY <1>2, <1>3


\* The ids arrive.
LEMMA InventoryKeeps ==
    ASSUME SyncConstants, SyncInv, NEW p \in Peer, NEW ids \in Replies(p),
           BlockchainItemIdsInventory(p, ids)
    PROVE  SyncInv'
<1> DEFINE old == peers[p]
           remaining == Remaining(Chain(tip[p]), ids)
           left == Tail(old.sent)
           none == {}
           no == FALSE
           e == "closing"
           says == SaysUpToDate(ids, Head(old.sent))
           taken == [old EXCEPT !.sent = left]
           read == [taken EXCEPT !.informs = says]
           gone == [read EXCEPT !.conn = e]
           c == [read EXCEPT !.asked = none]
           done == [c EXCEPT !.weNeed = no]
           more == Extended(p, c, ids)
           new == [more EXCEPT !.unfetched = remaining]
           off == [new EXCEPT !.conn = e]
           j == Ask(p, new)
           J == Range(jobs)
           K == HeldBy(held.have, J)
<1>1. /\ MayReceive(p)
      /\ UNCHANGED << tip, held, active, arrived, received, recent, suspended, connects,
                      overtaken, missed, skipped, lacking >>
      /\ \/ /\ peers' = [peers EXCEPT ![p] = read] \/ peers' = [peers EXCEPT ![p] = gone]
            /\ UNCHANGED << jobs, due >>
         \/ /\ \E s \in old.asked : FitsSynopsis(ids, s)
            /\ \/ peers' = [peers EXCEPT ![p] = done] /\ UNCHANGED << jobs, due >>
               \/ peers' = [peers EXCEPT ![p] = new] /\ due' = due \cup {"fetch"} /\ jobs' = jobs
               \/ peers' = [peers EXCEPT ![p] = new] /\ jobs' = Append(jobs, j) /\ due' = due
               \/ peers' = [peers EXCEPT ![p] = off] /\ UNCHANGED << jobs, due >>
  BY DEF BlockchainItemIdsInventory, Disconnect, noted
<1>2. /\ peers \in [Peer -> Connection] /\ old \in Connection /\ jobs \in Seq(Job)
      /\ old.toGet \in Seq(Block) /\ old.sent \in Seq(Seq(Block)) /\ RestTyped
      /\ old.asked \subseteq Seq(Block) /\ SyncTypeOK /\ SyncBase
  BY SyncTypes, ConnectionFields DEF SyncInv, SyncBase
<1>3. ids \in Seq(Block) /\ Linked(ids) /\ remaining \in Nat /\ old.sent # << >>
  BY <1>2, RepliesFacts
<1>4. /\ none \in SUBSET Seq(Block) /\ no \in BOOLEAN /\ e \in {"closed", "active", "closing"} /\ e # "closed"
      /\ left \in Seq(Seq(Block)) /\ says \in BOOLEAN
  <2>1. left \in Seq(Seq(Block))
    <3> DEFINE sent == old.sent
    <3> HIDE DEF sent
    <3>1. sent \in Seq(Seq(Block)) /\ sent # << >>
      BY <1>2, <1>3 DEF sent
    <3>2. Tail(sent) \in Seq(Seq(Block))
      BY <3>1, RangeOfTail
    <3> QED BY <3>2 DEF sent
  <2> QED BY <2>1 DEF SaysUpToDate
<1>0. none = {}
  OBVIOUS
<1> HIDE DEF left, none, no, e, remaining, says
<1>t. taken \in Connection /\ SameList(old, taken) /\ taken.requested = old.requested /\ taken.conn = old.conn
  BY <1>2, <1>4, SetSent DEF SameList
<1> HIDE DEF taken
<1>5. read \in Connection /\ SameList(old, read) /\ read.requested = old.requested /\ read.conn = old.conn
  BY <1>t, <1>4, SetInforms DEF SameList
<1> HIDE DEF read
<1>6. gone \in Connection /\ SameList(old, gone) /\ gone.requested = old.requested /\ gone.conn # "closed"
  BY <1>4, <1>5, SetConn DEF SameList
<1> HIDE DEF gone
<1>7. /\ c \in Connection /\ c.toGet = old.toGet /\ c.seen = old.seen /\ c.asked = {}
      /\ c.requested = old.requested /\ c.conn = old.conn
  <2>1. /\ c \in Connection /\ c.toGet = old.toGet /\ c.seen = old.seen /\ c.asked = none
        /\ c.requested = old.requested /\ c.conn = old.conn
    BY <1>4, <1>5, SetAsked DEF SameList
  <2> QED BY <1>0, <2>1
<1> HIDE DEF c
<1>8. /\ done \in Connection /\ done.toGet = c.toGet /\ done.seen = c.seen /\ done.asked = {}
      /\ done.requested = old.requested /\ done.conn = old.conn
  BY <1>4, <1>7, SetWeNeed
<1> HIDE DEF done
<1>9. /\ old.conn # "closed" /\ (\A i \in J : i.handler # p)
      /\ FetchOK => \A i \in J : i.kind = "ask" /\ i.peer = p => i.ids = << >>
  BY <1>1, <1>2, NoneWaits
<1>10. FetchOK => PeerOK(p, old, J, K)
  BY DEF FetchOK, FetchOf, AllOK
<1>b. due' \subseteq due \cup {"fetch"} => RestTyped'
  BY <1>1, <1>2 DEF RestTyped
<1>11. CASE /\ peers' = [peers EXCEPT ![p] = read] \/ peers' = [peers EXCEPT ![p] = gone]
            /\ UNCHANGED << jobs, due >>
  <2>1. RestTyped'
    BY <1>b, <1>11
  <2>2. CASE peers' = [peers EXCEPT ![p] = read]
    BY <1>1, <1>5, <1>9, <1>11, <2>1, <2>2, StepKeepsList
  <2>3. CASE peers' = [peers EXCEPT ![p] = gone]
    BY <1>1, <1>6, <1>11, <2>1, <2>3, StepKeepsList
  <2> QED BY <1>11, <2>2, <2>3
<1>12. ASSUME FetchOK, NEW d \in Connection, ListOK(d, K), d.asked = {}, d.conn # "closed"
       PROVE  PeerOK(p, d, J, K)
  <2>1. ASSUME NEW i \in J, i.kind = "ask", i.peer = p
        PROVE  AskOK(i, d, J, K)
    <3>1. AskOK(i, old, J, K) /\ i.ids = << >>
      BY <1>9, <1>10, <1>12, <2>1 DEF PeerOK, AsksOK
    <3> QED BY <1>12, <3>1, EmptyList DEF AskOK
  <2> QED BY <1>12, <2>1 DEF PeerOK, AsksOK, AskedOK
<1>13. FetchOK => ListOK(old, K) /\ ListOK(c, K) /\ ListOK(done, K)
  BY <1>7, <1>8, <1>10 DEF PeerOK, ListOK
<1>14. ASSUME NEW d \in Connection, FetchOK => ListOK(d, K), d.asked = {}, d.conn # "closed",
              d.requested = old.requested, peers' = [peers EXCEPT ![p] = d],
              jobs' = jobs \/ jobs' = Append(jobs, Ask(p, d)), due' \subseteq due \cup {"fetch"}
       PROVE  SyncInv'
  <2> DEFINE a == Ask(p, d)
  <2>1. FetchOK => PeerOK(p, d, J, K)
    BY <1>12, <1>14
  <2>3. CalledFor(p, a) /\ CallFor(a, p, d, p)
    BY <1>14, AskCalled
  <2> HIDE DEF J, K, a
  <2>2. FetchOK => PeerOK(p, d, J \cup {a}, K)
    BY <1>9, <1>14, <2>1, <2>3, NoOthers, OneMoreAsk
  <2>4. FetchOK => PeerOK(p, d, Range(jobs'), K)
    <3>1. CASE jobs' = jobs
      BY <2>1, <3>1 DEF J
    <3>2. CASE jobs' = Append(jobs, a)
      <4>1. a \in Job
        BY <2>3 DEF CalledFor
      <4>2. Range(jobs') = J \cup {a}
        BY <1>2, <3>2, <4>1, RangeOfAppend DEF J
      <4> QED BY <2>2, <4>2
    <3> QED BY <1>14, <3>1, <3>2 DEF a
  <2>5. OneCall(p)
    BY <1>14, <2>3 DEF a, OneCall
  <2>6. RestTyped'
    BY <1>b, <1>14
  <2> QED BY <1>1, <1>14, <2>4, <2>5, <2>6, StepOfOne DEF J, K
<1>15. CASE peers' = [peers EXCEPT ![p] = done] /\ UNCHANGED << jobs, due >>
  BY <1>8, <1>9, <1>13, <1>14, <1>15
<1>16. ASSUME \E s \in old.asked : FitsSynopsis(ids, s)
       PROVE  new \in Connection /\ (FetchOK => ListOK(new, K)) /\ new.asked = {} /\ new.conn = old.conn
              /\ new.requested = old.requested
  <2>1. PICK s \in old.asked : FitsSynopsis(ids, s)
    BY <1>16
  <2>2. FetchOK => s # << >> /\ Range(s) \subseteq Range(c.toGet) \cup SafeBy(K)
    BY <1>7, <1>9, <1>10 DEF PeerOK, AskedOK
  <2>3. FetchOK => (ids # << >> => ids[1] \in Range(c.toGet) \cup SafeBy(K))
    BY <2>1, <2>2 DEF FitsSynopsis
  <2>4. FetchOK => held.have \subseteq K /\ \A b \in Block : b \in K => Parent(b) \in K
    BY <1>2, WillHave
  <2> HIDE DEF K
  <2>5. more \in Connection /\ (FetchOK => ListOK(more, K)) /\ more.asked = {} /\ more.conn = old.conn
        /\ more.requested = old.requested
    BY <1>3, <1>7, <1>13, <2>3, <2>4, ExtendedFacts
  <2> HIDE DEF more
  <2>6. /\ new \in Connection /\ new.toGet = more.toGet /\ new.seen = more.seen /\ new.asked = more.asked
        /\ new.conn = more.conn /\ new.requested = more.requested
    BY <1>3, <2>5, SetUnfetched
  <2> HIDE DEF new
  <2> QED BY <2>5, <2>6 DEF ListOK
<1>17. CASE /\ \E s \in old.asked : FitsSynopsis(ids, s)
            /\ peers' = [peers EXCEPT ![p] = new]
            /\ jobs' = jobs \/ jobs' = Append(jobs, j)
            /\ due' \subseteq due \cup {"fetch"}
  <2> HIDE DEF new
  <2> QED BY <1>9, <1>14, <1>16, <1>17
<1>18. CASE /\ \E s \in old.asked : FitsSynopsis(ids, s)
            /\ peers' = [peers EXCEPT ![p] = off] /\ UNCHANGED << jobs, due >>
  <2> HIDE DEF new
  <2>1. /\ off \in Connection /\ off.toGet = new.toGet /\ off.seen = new.seen /\ off.asked = {}
        /\ off.requested = old.requested /\ off.conn # "closed"
    BY <1>4, <1>16, <1>18, SetConn
  <2> HIDE DEF off
  <2>2. FetchOK => ListOK(off, K)
    BY <1>16, <1>18, <2>1 DEF ListOK
  <2> QED BY <1>14, <1>18, <2>1, <2>2
<1> QED BY <1>1, <1>11, <1>15, <1>17, <1>18


\* What a call is after the connection of p has closed.
LEMMA ForgottenFacts ==
    ASSUME NEW j \in Job, NEW p \in Peer
    PROVE  LET k == Forgotten(j, p) IN
           /\ k \in Job /\ k.kind = j.kind /\ k.handler = j.handler
           /\ j.kind # "ask" => k = j
           /\ j.kind = "ask" => /\ k.peer = IF j.peer = p THEN Nobody ELSE j.peer
                                /\ k.ref = j.ref /\ k.ids = j.ids
                                /\ k.rest = j.rest \ {p} /\ k.again = j.again \ {p}
<1>1. CASE j.kind # "ask"
  BY <1>1 DEF Forgotten
<1>2. CASE j.kind = "ask"
  <2> DEFINE A == [kind : {"ask"}, peer : Peer \cup {Nobody}, ref : Block \cup {NoBlock}, ids : Seq(Block),
                   handler : Peer \cup {Nobody}, task : {"read", "push", "backlog"},
                   rest : SUBSET Peer, again : SUBSET Peer]
             u == IF j.peer = p THEN Nobody ELSE j.peer
             v == j.rest \ {p}
             w == j.again \ {p}
             k == Forgotten(j, p)
  <2>1. j \in A
    BY <1>2 DEF Job
  <2>2. k = [j EXCEPT !.peer = u, !.rest = v, !.again = w]
    BY <1>2 DEF Forgotten
  <2>3. u \in Peer \cup {Nobody} /\ v \in SUBSET Peer /\ w \in SUBSET Peer
    BY <2>1
  <2> HIDE DEF u, v, w, k
  <2>4. /\ k \in A /\ k.kind = j.kind /\ k.handler = j.handler /\ k.peer = u /\ k.ref = j.ref
        /\ k.ids = j.ids /\ k.rest = v /\ k.again = w
    BY <2>1, <2>2, <2>3
  <2>5. k \in Job
    BY <2>4 DEF Job
  <2> HIDE DEF A
  <2> QED BY <1>2, <2>4, <2>5 DEF k, u, v, w
<1> QED BY <1>1, <1>2

\* The calls are the same in kind and link as they did.
LEMMA ForgottenLinks ==
    ASSUME NEW p \in Peer, jobs \in Seq(Job), NEW ks, ks = [i \in DOMAIN jobs |-> Forgotten(jobs[i], p)]
    PROVE  /\ ks \in Seq(Job)
           /\ \A j \in Range(jobs) : Forgotten(j, p) \in Range(ks)
           /\ \A k \in Range(ks) : \E j \in Range(jobs) : j \in Job /\ k = Forgotten(j, p)
           /\ \A H : LinksIn(jobs, H) => LinksIn(ks, H)
<1> DEFINE N == Len(jobs)
<1>1. N \in Nat /\ DOMAIN jobs = 1 .. N /\ \A i \in 1 .. N : jobs[i] \in Job
  OBVIOUS
<1>2. \A i \in 1 .. N : ks[i] = Forgotten(jobs[i], p) /\ Forgotten(jobs[i], p) \in Job
  BY <1>1, ForgottenFacts
<1>3. ks \in [1 .. N -> Job]
  <2>1. ks = [i \in 1 .. N |-> Forgotten(jobs[i], p)]
    BY <1>1
  <2> HIDE DEF N
  <2> QED BY <1>2, <2>1
<1> HIDE DEF N
<1>4. ks \in Seq(Job) /\ Len(ks) = N /\ DOMAIN ks = 1 .. N
  BY <1>1, <1>3
<1>5. \A i \in 1 .. N : jobs[i].kind = ks[i].kind /\ (jobs[i].kind = "sync" => ks[i] = jobs[i])
  <2>1. ASSUME NEW i \in 1 .. N
        PROVE  jobs[i].kind = ks[i].kind /\ (jobs[i].kind = "sync" => ks[i] = jobs[i])
    <3> DEFINE j == jobs[i]
    <3>1. j \in Job /\ ks[i] = Forgotten(j, p)
      BY <1>1, <1>2
    <3> HIDE DEF j
    <3>2. ks[i].kind = j.kind /\ (j.kind # "ask" => ks[i] = j)
      BY <3>1, ForgottenFacts
    <3> QED BY <3>2 DEF j
  <2> QED BY <2>1
<1>6. ASSUME NEW H, LinksIn(jobs, H), NEW i \in 1 .. N, ks[i].kind = "sync"
      PROVE  Parent(ks[i].block) \in HeldBy(H, FirstOf(ks, i - 1))
  <2>1. ks[i] = jobs[i] /\ jobs[i].kind = "sync"
    BY <1>5, <1>6
  <2>2. Parent(ks[i].block) \in HeldBy(H, FirstOf(jobs, i - 1))
    BY <1>6, <2>1 DEF LinksIn, N
  <2>3. \A n \in 1 .. i - 1 : n \in 1 .. N
    BY <1>1
  <2>4. ASSUME NEW x \in FirstOf(jobs, i - 1), x.kind = "sync"
        PROVE  x \in FirstOf(ks, i - 1)
    <3>1. PICK n \in 1 .. i - 1 : x = jobs[n]
      BY DEF FirstOf
    <3>2. ks[n] = x
      BY <1>5, <2>3, <2>4, <3>1
    <3> QED BY <3>2 DEF FirstOf
  <2>5. PendOf(FirstOf(jobs, i - 1)) \subseteq PendOf(FirstOf(ks, i - 1))
    BY <2>4 DEF PendOf
  <2> QED BY <2>2, <2>5 DEF HeldBy
<1>7. \A H : LinksIn(jobs, H) => LinksIn(ks, H)
  BY <1>4, <1>6 DEF LinksIn
<1>8. \A j \in Range(jobs) : Forgotten(j, p) \in Range(ks)
  BY <1>1, <1>2, <1>4 DEF Range
<1>9. \A k \in Range(ks) : \E j \in Range(jobs) : j \in Job /\ k = Forgotten(j, p)
  BY <1>1, <1>2, <1>4 DEF Range
<1> QED BY <1>4, <1>7, <1>8, <1>9

\* The call k is what is left of j.
WasCalled(k, j, p) ==
    /\ j \in Job /\ k \in Job /\ k.kind = j.kind /\ k.handler = j.handler /\ j.handler # p
    /\ CallOK(j, peers)
    /\ j.kind # "ask" => k = j
    /\ j.kind = "ask" => /\ k.peer = (IF j.peer = p THEN Nobody ELSE j.peer)
                         /\ k.ref = j.ref /\ k.ids = j.ids
                         /\ k.rest = j.rest \ {p} /\ k.again = j.again \ {p}
                         /\ j.rest \subseteq Peer /\ j.again \subseteq Peer

\* A connection is closed, and the calls for it come to nothing.
LEMMA ConnectionClosedKeeps ==
    ASSUME SyncConstants, SyncInv, NEW p \in Peer, ConnectionClosed(p)
    PROVE  SyncInv'
<1> DEFINE J == Range(jobs)
           M == Range(jobs')
           H == held.have
           K == HeldBy(H, J)
           d == NewConnection
           X == Range(peers[p].requested)
<1>1. /\ peers' = [peers EXCEPT ![p] = d] /\ active' = active \ X
      /\ due' \subseteq due \cup {"fetch"} /\ jobs' = [i \in DOMAIN jobs |-> Forgotten(jobs[i], p)]
      /\ UNCHANGED << tip, held, arrived, received, recent, suspended, connects,
                      overtaken, missed, skipped, lacking >>
      /\ \A i \in DOMAIN jobs : jobs[i].handler # p
  BY DEF ConnectionClosed, Handling, noted
<1>2. /\ peers \in [Peer -> Connection] /\ jobs \in Seq(Job) /\ OneRequestEach /\ RefusedApart
      /\ TasksOf(peers, J) /\ HaveOK /\ RestTyped
  BY SyncTypes DEF SyncInv, SyncBase
<1>3. /\ jobs' \in Seq(Job)
      /\ \A j \in J : Forgotten(j, p) \in M
      /\ \A k \in M : \E j \in J : j \in Job /\ k = Forgotten(j, p)
      /\ \A G : LinksIn(jobs, G) => LinksIn(jobs', G)
  BY <1>1, <1>2, ForgottenLinks
<1>4. \A j \in J : j \in Job /\ j.handler # p
  BY <1>1, <1>2, RangeIs DEF Range
<1>5. /\ d \in Connection /\ d.conn = "closed" /\ d.toGet = << >> /\ d.seen = NoBlock
      /\ d.asked = {} /\ d.requested = << >>
  BY NewFacts
<1> HIDE DEF d
<1>6. peers' \in [Peer -> Connection] /\ peers'[p] = d /\ \A q \in Peer : q # p => peers'[q] = peers[q]
  BY <1>1, <1>2, <1>5
<1> HIDE DEF J, M
<1>7. \A k \in M : \E j \in J : WasCalled(k, j, p)
  <2>1. ASSUME NEW k \in M
        PROVE  \E j \in J : WasCalled(k, j, p)
    <3>1. PICK j \in J : j \in Job /\ k = Forgotten(j, p)
      BY <1>3
    <3>2. j.handler # p /\ CallOK(j, peers)
      BY <1>2, <1>4 DEF TasksOf
    <3>3. j.kind = "ask" => j.rest \subseteq Peer /\ j.again \subseteq Peer
      BY <3>1, JobFields
    <3>4. WasCalled(k, j, p)
      BY <3>1, <3>2, <3>3, ForgottenFacts DEF WasCalled
    <3> QED BY <3>4
  <2> QED BY <2>1
<1>8. TasksOf(peers', M)
  <2>1. ASSUME NEW k \in M
        PROVE  CallOK(k, peers')
    <3>1. PICK j \in J : WasCalled(k, j, p)
      BY <1>7
    <3> USE DEF WasCalled
    <3>2. k.handler # Nobody => peers'[k.handler].conn # "closed"
      <4>1. j.handler \in Peer \cup {Nobody}
        BY <3>1, JobFields
      <4> QED BY <1>6, <3>1, <4>1 DEF CallOK
    <3>3. CASE j.kind # "ask"
      BY <3>1, <3>2, <3>3 DEF CallOK
    <3>4. CASE j.kind = "ask"
      <4>1. k.handler = k.peer \/ k.handler = Nobody
        BY <3>1, <3>4 DEF CallOK
      <4>2. k.peer # Nobody => peers'[k.peer].conn # "closed"
        <5>1. j.peer \in Peer \cup {Nobody}
          BY <3>1, <3>4, JobFields
        <5> QED BY <1>6, <3>1, <3>4, <5>1 DEF CallOK
      <4>3. \A q \in k.rest \cup k.again : peers'[q].conn # "closed"
        BY <1>6, <3>1, <3>4 DEF CallOK
      <4>4. k.kind = "ask"
        BY <3>1, <3>4
      <4> QED BY <3>2, <4>1, <4>2, <4>3, <4>4 DEF CallOK
    <3> QED BY <3>3, <3>4
  <2> QED BY <2>1 DEF TasksOf
<1>9. SyncBase'
  <2>1. RestTyped'
    BY <1>1, <1>2 DEF RestTyped
  <2>2. SyncTypeOK'
    BY <1>3, <1>6, <2>1 DEF RestTyped, SyncTypeOK
  <2>3. HaveOK'
    BY <1>1, <1>2 DEF HaveOK
  <2>4. Range(peers'[p].requested) = X \ X /\ IsInjective(peers'[p].requested)
    BY <1>5, <1>6 DEF Range, IsInjective
  <2>5. \A b : b \in active' <=> (b \in lacking' \/ (b \in active /\ b \notin X))
    <3>1. lacking \subseteq active /\ lacking \cap X = {} /\ lacking' = lacking
      BY <1>1, <1>2 DEF OneRequestEach, RefusedApart
    <3> QED BY <1>1, <3>1
  <2>6. \A q \in Peer : q # p => peers'[q].requested = peers[q].requested /\ peers'[q].conn = peers[q].conn
    BY <1>6
  <2>7. peers'[p].requested = << >> /\ lacking' = lacking
    BY <1>1, <1>5, <1>6
  <2>8. OneRequestEach' /\ RefusedApart'
    BY <1>2, <2>4, <2>5, <2>6, <2>7, LessRequested
  <2>9. (TasksOf(peers, Range(jobs)))'
    BY <1>8 DEF M
  <2> QED BY <2>2, <2>3, <2>8, <2>9 DEF SyncBase
<1>10. PendOf(M) = PendOf(J)
  <2>1. \A k \in M : k.kind = "sync" => k \in J
    BY <1>7 DEF WasCalled
  <2>2. \A j \in J : j.kind = "sync" => j \in M
    BY <1>3, <1>4, ForgottenFacts
  <2> QED BY <2>1, <2>2 DEF PendOf
<1>11. HeldBy(H, M) = K
  BY <1>10 DEF HeldBy
<1>12. ASSUME FetchOK
       PROVE  FetchOK'
  <2>0. LinksIn(jobs, H) /\ AllOK(peers, J, K)
    BY <1>12 DEF FetchOK, FetchOf, J
  <2>1. LinksIn(jobs', H)
    BY <1>3, <2>0
  <2>2. PeerOK(p, d, M, K)
    <3>1. \A k \in M : ~(k.kind = "ask" /\ k.peer = p)
      BY <1>7, NoOthers DEF WasCalled
    <3>2. NoBlock \in SafeBy(K)
      BY EmptyList DEF SafeBy
    <3> QED BY <1>5, <3>1, <3>2, EmptyList DEF PeerOK, ListOK, AsksOK, AskedOK
  <2>3. ASSUME NEW q \in Peer, q # p
        PROVE  PeerOK(q, peers[q], M, K)
    <3> DEFINE c == peers[q]
    <3>1. PeerOK(q, c, J, K)
      BY <2>0 DEF AllOK
    <3> HIDE DEF c, K
    <3>2. \A k \in M : k.kind = "normal" => k \in J
      BY <1>7 DEF WasCalled
    <3>3. ASSUME NEW k \in M, k.kind = "ask", k.peer = q
          PROVE  AskOK(k, c, M, K)
      <4>1. PICK j \in J : /\ j.kind = "ask" /\ k.handler = j.handler /\ k.ref = j.ref /\ k.ids = j.ids
                           /\ k.peer = (IF j.peer = p THEN Nobody ELSE j.peer)
        BY <1>7, <3>3 DEF WasCalled
      <4>2. j.peer = q
        BY <2>3, <3>3, <4>1, NoOthers
      <4>3. AskOK(j, c, J, K)
        BY <3>1, <4>1, <4>2 DEF PeerOK, AsksOK
      <4> QED BY <3>2, <3>3, <4>1, <4>2, <4>3 DEF AskOK
    <3>4. (\A k \in M : k.kind = "ask" => k.handler # q) => \A j \in J : j.kind = "ask" => j.handler # q
      <4>1. \A j \in J : \E k \in M : k.kind = j.kind /\ k.handler = j.handler
        BY <1>3, <1>4, ForgottenFacts
      <4> QED BY <4>1
    <3>5. AskedOK(q, c, M, K)
      BY <3>1, <3>4 DEF PeerOK, AskedOK
    <3>6. PeerOK(q, c, M, K)
      BY <3>1, <3>3, <3>5 DEF PeerOK, AsksOK
    <3> QED BY <3>6 DEF c
  <2>4. AllOK(peers', M, K)
    BY <1>6, <2>2, <2>3 DEF AllOK
  <2>5. (LinksIn(jobs, held.have))' /\ (AllOK(peers, Range(jobs), HeldBy(held.have, Range(jobs))))'
    BY <1>1, <1>11, <2>1, <2>4 DEF M, H
  <2> QED BY <2>5 DEF FetchOK, FetchOf
<1> QED BY <1>1, <1>9, <1>12 DEF SyncInv

-----------------------------------------------------------------------------
(* What is requested.                                                      *)

WantStep(busy, w, b) ==
    IF Len(w) < MaxPerPeer /\ ~AlreadyReceived(b) /\ b \notin busy \cup Range(w)
    THEN Append(w, b) ELSE w

\* Lists of different blocks, none of which is requested already.
Requests(busy) == {w \in Seq(Block) : IsInjective(w) /\ Range(w) \cap busy = {}}

LEMMA NoRequests == \A busy : << >> \in Requests(busy)
<1>1. << >> \in Seq(Block) /\ IsInjective(<< >>)
  BY DEF IsInjective
<1> QED BY <1>1, EmptyList DEF Requests

LEMMA MoreRequests ==
    ASSUME NEW busy, NEW w \in Requests(busy), NEW b \in Block, b \notin busy \cup Range(w)
    PROVE  Append(w, b) \in Requests(busy)
<1> DEFINE t == Append(w, b)
<1>1. w \in Seq(Block) /\ IsInjective(w) /\ Range(w) \cap busy = {}
  BY DEF Requests
<1>2. /\ t \in Seq(Block) /\ Len(t) = Len(w) + 1 /\ Len(w) \in Nat /\ t[Len(w) + 1] = b
      /\ \A i \in 1 .. Len(w) : t[i] = w[i]
  BY <1>1
<1>3. Range(t) = Range(w) \cup {b}
  BY <1>1, RangeOfAppend
<1> HIDE DEF t
<1>4. DOMAIN t = 1 .. Len(t) /\ DOMAIN w = 1 .. Len(w)
  BY <1>1, <1>2
<1>5. \A i \in 1 .. Len(t) : i \in 1 .. Len(w) \/ i = Len(w) + 1
  BY <1>2
<1>6. \A i \in 1 .. Len(w) : w[i] \in Range(w)
  BY <1>4 DEF Range
<1>7. ASSUME NEW i \in 1 .. Len(t), NEW k \in 1 .. Len(t), t[i] = t[k]
      PROVE  i = k
  <2>1. CASE i \in 1 .. Len(w) /\ k \in 1 .. Len(w)
    BY <1>1, <1>2, <1>4, <1>7, <2>1 DEF IsInjective
  <2>2. CASE i \in 1 .. Len(w) /\ k = Len(w) + 1
    BY <1>2, <1>6, <1>7, <2>2
  <2>3. CASE k \in 1 .. Len(w) /\ i = Len(w) + 1
    BY <1>2, <1>6, <1>7, <2>3
  <2> QED BY <1>5, <2>1, <2>2, <2>3
<1>8. IsInjective(t)
  BY <1>4, <1>7 DEF IsInjective
<1> QED BY <1>1, <1>2, <1>3, <1>8 DEF Requests, t

\* What the fold over the list has after each block.
LEMMA WantedIs ==
    ASSUME NEW p \in Peer, NEW busy, peers[p].toGet \in Seq(Block),
           Active(p) /\ peers[p].weNeed /\ Idle(peers[p]) /\ ~peers[p].inhibit
    PROVE  \E h \in [0 .. Len(peers[p].toGet) -> Requests(busy)] :
              /\ h[0] = << >>
              /\ \A n \in 1 .. Len(peers[p].toGet) : h[n] = WantStep(busy, h[n - 1], peers[p].toGet[n])
              /\ WantedFrom(p, busy) = h[Len(peers[p].toGet)]
<1> DEFINE N == Len(peers[p].toGet)
           D == DOMAIN peers[p].toGet
           b == << >>
           R == Requests(busy)
           Raw(g) == g = [t \in SUBSET D |->
                            IF t = {} THEN b
                            ELSE WantStep(busy, g[t \ {LargestOf(t)}], peers[p].toGet[LargestOf(t)])]
           F == [n \in 1 .. N |-> [r \in R |-> WantStep(busy, r, peers[p].toGet[n])]]
<1>1. WantedFrom(p, busy) = (CHOOSE g : Raw(g))[D]
  BY DEF WantedFrom, FoldLeft, MapThenFoldSet, Max, LargestOf, WantStep
<1>2. N \in Nat /\ D = 1 .. N
  OBVIOUS
<1>3. b \in R
  BY NoRequests
<1>4. \A n \in 1 .. N, r \in R : WantStep(busy, r, peers[p].toGet[n]) \in R
  <2>1. ASSUME NEW n \in 1 .. N, NEW r \in R
        PROVE  WantStep(busy, r, peers[p].toGet[n]) \in R
    <3>1. peers[p].toGet[n] \in Block
      OBVIOUS
    <3> QED BY <3>1, MoreRequests DEF WantStep
  <2> QED BY <2>1
<1>5. F \in [1 .. N -> [R -> R]] /\ \A n \in 1 .. N, r \in R : F[n][r] = WantStep(busy, r, peers[p].toGet[n])
  BY <1>4
<1> HIDE DEF N, D, F, b, R
<1>6. PICK h \in [0 .. N -> R] : Follows(h, b, F, N)
  BY <1>2, <1>3, <1>5, Recursion
<1>7. PICK g0 \in [SUBSET (1 .. N) -> R] : FoldsOver(g0, b, F, N)
  BY <1>2, <1>3, <1>5, FoldExists
<1>8. Raw(g0)
  <2>1. ASSUME NEW t \in SUBSET D
        PROVE  g0[t] = IF t = {} THEN b
                       ELSE WantStep(busy, g0[t \ {LargestOf(t)}], peers[p].toGet[LargestOf(t)])
    <3>1. CASE t = {}
      BY <1>2, <1>7, <3>1 DEF FoldsOver
    <3>2. CASE t # {}
      <4>1. LargestOf(t) \in 1 .. N /\ t \ {LargestOf(t)} \in SUBSET (1 .. N)
        BY <1>2, <3>2, LargestIs
      <4>2. g0[t] = F[LargestOf(t)][g0[t \ {LargestOf(t)}]]
        BY <1>2, <1>7, <3>2 DEF FoldsOver
      <4> QED BY <1>5, <1>7, <3>2, <4>1, <4>2
    <3> QED BY <3>1, <3>2
  <2> QED BY <1>2, <1>7, <2>1
<1>9. ASSUME NEW g, Raw(g)
      PROVE  g[D] = h[N]
  <2>1. \A t \in SUBSET D : g[t] = IF t = {} THEN b
                                  ELSE WantStep(busy, g[t \ {LargestOf(t)}], peers[p].toGet[LargestOf(t)])
    BY <1>9
  <2> HIDE DEF Raw
  <2>2. g[{}] = b
    BY <2>1
  <2>3. ASSUME NEW t \in SUBSET (1 .. N), t # {}, g[t \ {LargestOf(t)}] \in R
        PROVE  g[t] = F[LargestOf(t)][g[t \ {LargestOf(t)}]]
    <3>1. LargestOf(t) \in 1 .. N
      BY <1>2, <2>3, LargestIs
    <3> QED BY <1>2, <1>5, <2>1, <2>3, <3>1
  <2>4. FoldsWithin(g, b, F, N, R)
    BY <2>2, <2>3 DEF FoldsWithin
  <2>5. Folding(g, h, b, F, N, R)
    BY <1>2, <1>3, <1>5, <1>6, <2>4 DEF Folding
  <2>6. EndsAlike(g, h, N)
    BY <2>5, FoldEnds
  <2> QED BY <1>2, <2>6 DEF EndsAlike
<1> HIDE DEF Raw
<1>10. (CHOOSE g : Raw(g))[D] = h[N]
  BY <1>8, <1>9
<1>11. \A n \in 1 .. N : h[n] = WantStep(busy, h[n - 1], peers[p].toGet[n])
  <2>1. ASSUME NEW n \in 1 .. N
        PROVE  h[n] = WantStep(busy, h[n - 1], peers[p].toGet[n])
    <3>1. n - 1 \in 0 .. N
      BY <1>2
    <3>2. h[n] = F[n][h[n - 1]] /\ h[n - 1] \in R
      BY <1>6, <3>1 DEF Follows
    <3> QED BY <1>5, <3>2
  <2> QED BY <2>1
<1>12. h[0] = b
  BY <1>6 DEF Follows
<1>13. WantedFrom(p, busy) = h[N]
  BY <1>1, <1>10
<1> QED BY <1>6, <1>11, <1>12, <1>13 DEF N, b, R

\* What is wanted of a peer is not requested, and the peer has no requests.
LEMMA WantedFacts ==
    ASSUME NEW p \in Peer, NEW busy, peers[p].toGet \in Seq(Block)
    PROVE  /\ WantedFrom(p, busy) \in Requests(busy)
           /\ WantedFrom(p, busy) # << >> => Idle(peers[p]) /\ Active(p)
<1> DEFINE may == Active(p) /\ peers[p].weNeed /\ Idle(peers[p]) /\ ~peers[p].inhibit
           N == Len(peers[p].toGet)
<1>1. CASE may
  <2>1. PICK h \in [0 .. N -> Requests(busy)] : WantedFrom(p, busy) = h[N]
    BY <1>1, WantedIs
  <2>2. N \in 0 .. N
    OBVIOUS
  <2> QED BY <1>1, <2>1, <2>2
<1>2. CASE ~may
  <2>1. WantedFrom(p, busy) = << >>
    BY <1>2 DEF WantedFrom, FoldLeft, MapThenFoldSet
  <2> QED BY <2>1, NoRequests
<1> QED BY <1>1, <1>2

\* What an iteration of the loop will request, when some connections are done.
PlanStep(a, p) ==
    [busy |-> a.busy \cup Range(WantedFrom(p, a.busy)), ask |-> [a.ask EXCEPT ![p] = WantedFrom(p, a.busy)]]

NoPlan == [busy |-> active, ask |-> [p \in Peer |-> << >>]]

PlanRecord == [busy : SUBSET Block, ask : [Peer -> Seq(Block)]]

PlanGood(a) ==
    /\ active \subseteq a.busy
    /\ \A p \in Peer : /\ a.ask[p] \in Requests(active) /\ Range(a.ask[p]) \subseteq a.busy
                       /\ a.ask[p] # << >> => Idle(peers[p]) /\ Active(p)
    /\ \A p, q \in Peer : p # q => Range(a.ask[p]) \cap Range(a.ask[q]) = {}

Plans == {a \in PlanRecord : PlanGood(a)}

LEMMA PlanFields ==
    /\ \A a \in PlanRecord : a.busy \subseteq Block /\ a.ask \in [Peer -> Seq(Block)]
    /\ \A b \in SUBSET Block, f \in [Peer -> Seq(Block)] :
          LET a == [busy |-> b, ask |-> f] IN a \in PlanRecord /\ a.busy = b /\ a.ask = f
BY DEF PlanRecord

LEMMA PlanStarts ==
    ASSUME active \subseteq Block
    PROVE  NoPlan \in Plans
<1> DEFINE f == [p \in Peer |-> << >>]
<1>1. f \in [Peer -> Seq(Block)] /\ \A p \in Peer : f[p] = << >>
  OBVIOUS
<1>2. \A p \in Peer : f[p] \in Requests(active)
  BY <1>1, NoRequests
<1>3. \A p \in Peer : Range(f[p]) = {}
  BY <1>1, EmptyList
<1>4. NoPlan = [busy |-> active, ask |-> f]
  BY DEF NoPlan
<1> HIDE DEF f
<1>5. NoPlan \in PlanRecord /\ NoPlan.busy = active /\ NoPlan.ask = f
  BY <1>1, <1>4, PlanFields
<1>6. PlanGood(NoPlan)
  BY <1>1, <1>2, <1>3, <1>5 DEF PlanGood
<1> QED BY <1>5, <1>6 DEF Plans

\* One more connection is visited.
LEMMA PlanGoesOn ==
    ASSUME NEW p \in Peer, peers[p].toGet \in Seq(Block), NEW a \in Plans
    PROVE  PlanStep(a, p) \in Plans
<1> DEFINE w == WantedFrom(p, a.busy)
           b == a.busy \cup Range(w)
           f == [a.ask EXCEPT ![p] = w]
           c == PlanStep(a, p)
<1>1. a \in PlanRecord /\ PlanGood(a) /\ a.busy \subseteq Block /\ a.ask \in [Peer -> Seq(Block)]
  BY PlanFields DEF Plans
<1>2. w \in Requests(a.busy) /\ (w # << >> => Idle(peers[p]) /\ Active(p))
  BY WantedFacts
<1>3. c = [busy |-> b, ask |-> f]
  BY DEF PlanStep
<1> HIDE DEF w
<1>4. w \in Seq(Block) /\ IsInjective(w) /\ Range(w) \cap a.busy = {} /\ Range(w) \subseteq Block
  BY <1>2, RangeIs DEF Requests
<1>5. /\ b \in SUBSET Block /\ f \in [Peer -> Seq(Block)] /\ f[p] = w
      /\ \A q \in Peer : q # p => f[q] = a.ask[q]
  BY <1>1, <1>4
<1> HIDE DEF f
<1>6. c \in PlanRecord /\ c.busy = b /\ c.ask = f
  <2> HIDE DEF b, c
  <2> QED BY <1>3, <1>5 DEF PlanRecord
<1> HIDE DEF c
<1>7. active \subseteq a.busy
  BY <1>1 DEF PlanGood
<1>8. w \in Requests(active)
  BY <1>4, <1>7 DEF Requests
<1>9. ASSUME NEW q \in Peer
      PROVE  /\ f[q] \in Requests(active) /\ Range(f[q]) \subseteq b
             /\ f[q] # << >> => Idle(peers[q]) /\ Active(q)
  BY <1>1, <1>2, <1>5, <1>8 DEF PlanGood
<1>10. ASSUME NEW q \in Peer, NEW r \in Peer, q # r
       PROVE  Range(f[q]) \cap Range(f[r]) = {}
  <2>1. \A s \in Peer : Range(a.ask[s]) \subseteq a.busy
    BY <1>1 DEF PlanGood
  <2>2. CASE q = p
    BY <1>4, <1>5, <1>10, <2>1, <2>2
  <2>3. CASE r = p
    BY <1>4, <1>5, <1>10, <2>1, <2>3
  <2>4. CASE q # p /\ r # p
    BY <1>1, <1>5, <1>10, <2>4 DEF PlanGood
  <2> QED BY <2>2, <2>3, <2>4
<1>11. PlanGood(c)
  <2>1. active \subseteq b
    BY <1>7
  <2> HIDE DEF b
  <2> QED BY <1>6, <1>9, <1>10, <2>1 DEF PlanGood
<1> QED BY <1>6, <1>11 DEF Plans, c

\* What the loop requests after each connection.
LEMMA PlanIs ==
    ASSUME NEW order \in Seq(Peer), active \subseteq Block,
           \A p \in Peer : peers[p].toGet \in Seq(Block)
    PROVE  \E h \in [0 .. Len(order) -> Plans] :
              /\ h[0] = NoPlan
              /\ \A n \in 1 .. Len(order) : h[n] = PlanStep(h[n - 1], order[n])
              /\ Plan(order) = h[Len(order)]
<1> DEFINE N == Len(order)
           D == DOMAIN order
           b == NoPlan
           R == Plans
           Raw(g) == g = [t \in SUBSET D |->
                            IF t = {} THEN b
                            ELSE PlanStep(g[t \ {LargestOf(t)}], order[LargestOf(t)])]
           F == [n \in 1 .. N |-> [r \in R |-> PlanStep(r, order[n])]]
<1>1. Plan(order) = (CHOOSE g : Raw(g))[D]
  BY DEF Plan, FoldLeft, MapThenFoldSet, Max, LargestOf, PlanStep, NoPlan
<1>2. N \in Nat /\ D = 1 .. N
  OBVIOUS
<1>3. b \in R
  BY PlanStarts
<1>4. \A n \in 1 .. N, r \in R : PlanStep(r, order[n]) \in R
  <2>1. ASSUME NEW n \in 1 .. N, NEW r \in R
        PROVE  PlanStep(r, order[n]) \in R
    <3>1. order[n] \in Peer
      OBVIOUS
    <3> QED BY <3>1, PlanGoesOn
  <2> QED BY <2>1
<1>5. F \in [1 .. N -> [R -> R]] /\ \A n \in 1 .. N, r \in R : F[n][r] = PlanStep(r, order[n])
  BY <1>4
<1> HIDE DEF N, D, F, b, R
<1>6. PICK h \in [0 .. N -> R] : Follows(h, b, F, N)
  BY <1>2, <1>3, <1>5, Recursion
<1>7. PICK g0 \in [SUBSET (1 .. N) -> R] : FoldsOver(g0, b, F, N)
  BY <1>2, <1>3, <1>5, FoldExists
<1>8. Raw(g0)
  <2>1. ASSUME NEW t \in SUBSET D
        PROVE  g0[t] = IF t = {} THEN b
                       ELSE PlanStep(g0[t \ {LargestOf(t)}], order[LargestOf(t)])
    <3>1. CASE t = {}
      BY <1>2, <1>7, <3>1 DEF FoldsOver
    <3>2. CASE t # {}
      <4>1. LargestOf(t) \in 1 .. N /\ t \ {LargestOf(t)} \in SUBSET (1 .. N)
        BY <1>2, <3>2, LargestIs
      <4>2. g0[t] = F[LargestOf(t)][g0[t \ {LargestOf(t)}]]
        BY <1>2, <1>7, <3>2 DEF FoldsOver
      <4> QED BY <1>5, <1>7, <3>2, <4>1, <4>2
    <3> QED BY <3>1, <3>2
  <2> QED BY <1>2, <1>7, <2>1
<1>9. ASSUME NEW g, Raw(g)
      PROVE  g[D] = h[N]
  <2>1. \A t \in SUBSET D : g[t] = IF t = {} THEN b
                                  ELSE PlanStep(g[t \ {LargestOf(t)}], order[LargestOf(t)])
    BY <1>9
  <2> HIDE DEF Raw
  <2>2. g[{}] = b
    BY <2>1
  <2>3. ASSUME NEW t \in SUBSET (1 .. N), t # {}, g[t \ {LargestOf(t)}] \in R
        PROVE  g[t] = F[LargestOf(t)][g[t \ {LargestOf(t)}]]
    <3>1. LargestOf(t) \in 1 .. N
      BY <1>2, <2>3, LargestIs
    <3> QED BY <1>2, <1>5, <2>1, <2>3, <3>1
  <2>4. FoldsWithin(g, b, F, N, R)
    BY <2>2, <2>3 DEF FoldsWithin
  <2>5. Folding(g, h, b, F, N, R)
    BY <1>2, <1>3, <1>5, <1>6, <2>4 DEF Folding
  <2>6. EndsAlike(g, h, N)
    BY <2>5, FoldEnds
  <2> QED BY <1>2, <2>6 DEF EndsAlike
<1> HIDE DEF Raw
<1>10. (CHOOSE g : Raw(g))[D] = h[N]
  BY <1>8, <1>9
<1>11. \A n \in 1 .. N : h[n] = PlanStep(h[n - 1], order[n])
  <2>1. ASSUME NEW n \in 1 .. N
        PROVE  h[n] = PlanStep(h[n - 1], order[n])
    <3>1. n - 1 \in 0 .. N
      BY <1>2
    <3>2. h[n] = F[n][h[n - 1]] /\ h[n - 1] \in R
      BY <1>6, <3>1 DEF Follows
    <3> QED BY <1>5, <3>2
  <2> QED BY <2>1
<1>12. h[0] = b
  BY <1>6 DEF Follows
<1>13. Plan(order) = h[N]
  BY <1>1, <1>10
<1> QED BY <1>6, <1>11, <1>12, <1>13 DEF N, b, R


\* The finitely many peers in some order.
LEMMA SomeOrder ==
    ASSUME SyncConstants, NEW order \in SetToSeqs(Peer)
    PROVE  order \in Seq(Peer) /\ \A i, k \in 1 .. Len(order) : i # k => order[i] # order[k]
<1> DEFINE n == Cardinality(Peer)
<1>1. IsFiniteSet(Peer)
  BY DEF SyncConstants, IsFiniteSet, IsFiniteSet
<1>2. Cardinality(Peer) \in Nat
  BY <1>1, FS_CardinalityType
<1>3. n = Cardinality(Peer)
  BY DEF Cardinality, Cardinality
<1>4. order \in [1 .. n -> Peer] /\ \A i, k \in 1 .. n : i # k => order[i] # order[k]
  BY DEF SetToSeqs
<1> HIDE DEF n
<1>5. order \in Seq(Peer) /\ Len(order) = n
  BY <1>2, <1>3, <1>4
<1> QED BY <1>4, <1>5

\* What is requested when the loop has visited all: what was requested before
\* and what it requests of each connection.
LEMMA PlanCovers ==
    ASSUME SyncConstants, NEW order \in SetToSeqs(Peer), active \subseteq Block,
           \A p \in Peer : peers[p].toGet \in Seq(Block)
    PROVE  LET a == Plan(order) IN
           a \in Plans /\ \A x \in a.busy : x \in active \/ \E p \in Peer : x \in Range(a.ask[p])
<1> DEFINE N == Len(order)
           a == Plan(order)
<1>1. order \in Seq(Peer) /\ N \in Nat /\ \A i, k \in 1 .. N : i # k => order[i] # order[k]
  BY SomeOrder
<1>2. PICK h \in [0 .. N -> Plans] :
         h[0] = NoPlan /\ (\A n \in 1 .. N : h[n] = PlanStep(h[n - 1], order[n])) /\ a = h[N]
  BY <1>1, PlanIs
<1> HIDE DEF a
<1> DEFINE Covered(n) == \A x \in h[n].busy : x \in active \/ \E p \in Peer : x \in Range(h[n].ask[p])
           Rest(n) == \A i \in 1 .. N : i > n => h[n].ask[order[i]] = << >>
           Z == {n \in 0 .. N : Covered(n) /\ Rest(n)}
<1>3. 0 \in Z
  <2> DEFINE f == [p \in Peer |-> << >>]
  <2>1. \A p \in Peer : f[p] = << >>
    OBVIOUS
  <2> HIDE DEF f
  <2>2. NoPlan = [busy |-> active, ask |-> f]
    BY DEF NoPlan, f
  <2>3. h[0].busy = active /\ h[0].ask = f
    BY <1>2, <2>2
  <2>4. \A i \in 1 .. N : order[i] \in Peer
    BY <1>1
  <2>5. Covered(0) /\ Rest(0)
    BY <2>1, <2>3, <2>4
  <2> QED BY <1>1, <2>5
<1>4. ASSUME NEW n \in 1 .. N, n - 1 \in Z
      PROVE  n \in Z
  <2> DEFINE m == n - 1
             c == h[m]
             p == order[n]
             w == WantedFrom(p, c.busy)
             b == c.busy \cup Range(w)
             f == [c.ask EXCEPT ![p] = w]
  <2>1. n \in 0 .. N /\ m \in 0 .. N /\ m < n /\ p \in Peer /\ c \in Plans
    BY <1>1, <1>2
  <2>2. Covered(m) /\ Rest(m)
    BY <1>4
  <2>3. c.ask \in [Peer -> Seq(Block)]
    BY <2>1, PlanFields DEF Plans
  <2>4. h[n] = [busy |-> b, ask |-> f]
    BY <1>2 DEF PlanStep
  <2>5. h[n].busy = b /\ h[n].ask = f
    <3> HIDE DEF b, f
    <3> QED BY <2>4
  <2>6. c.ask[p] = << >>
    <3>1. n > m
      BY <2>1
    <3> HIDE DEF c, m
    <3> QED BY <2>2, <3>1 DEF c
  <2> HIDE DEF w, c, p
  <2>7. f[p] = w /\ \A q \in Peer : q # p => f[q] = c.ask[q]
    BY <2>1, <2>3
  <2> HIDE DEF f
  <2>8. ASSUME NEW x \in h[n].busy
        PROVE  x \in active \/ \E q \in Peer : x \in Range(h[n].ask[q])
    <3>1. CASE x \in Range(w)
      BY <2>1, <2>5, <2>7, <3>1
    <3>2. CASE x \in c.busy
      <4>1. x \in active \/ \E q \in Peer : x \in Range(c.ask[q])
        BY <2>2, <3>2 DEF c
      <4>2. ASSUME NEW q \in Peer, x \in Range(c.ask[q])
            PROVE  q # p /\ x \in Range(f[q])
        <5>1. q # p
          BY <2>6, <4>2, EmptyList
        <5> QED BY <2>7, <4>2, <5>1
      <4> QED BY <2>5, <4>1, <4>2
    <3> QED BY <2>5, <2>8, <3>1, <3>2
  <2>9. ASSUME NEW i \in 1 .. N, i > n
        PROVE  h[n].ask[order[i]] = << >>
    <3>1. i > m /\ i # n
      BY <1>1, <2>1, <2>9
    <3>2. order[i] # p /\ order[i] \in Peer
      BY <1>1, <3>1 DEF p
    <3>3. c.ask[order[i]] = << >>
      <4> HIDE DEF m
      <4> QED BY <2>2, <3>1 DEF c
    <3> QED BY <2>5, <2>7, <3>2, <3>3
  <2> QED BY <2>1, <2>8, <2>9
<1> HIDE DEF Z
<1>5. \A n \in 0 .. N : n \in Z
  BY <1>1, <1>3, <1>4, Upwards
<1>6. N \in 0 .. N
  BY <1>1
<1>7. Covered(N) /\ h[N] \in Plans
  BY <1>2, <1>5, <1>6 DEF Z
<1> QED BY <1>2, <1>7 DEF a

LEMMA JoinedEmpty ==
    ASSUME NEW s \in Seq(Block)
    PROVE  s \o << >> = s /\ << >> \o s = s
OBVIOUS


\* An iteration of fetch_sync_items_loop.
LEMMA FetchItemsKeeps ==
    ASSUME SyncConstants, SyncInv, FetchSyncItems
    PROVE  SyncInv'
<1>1. /\ peers \in [Peer -> Connection] /\ jobs \in Seq(Job) /\ OneRequestEach /\ RefusedApart /\ RestTyped
      /\ active \subseteq Block /\ HaveOK /\ TasksOf(peers, Range(jobs))
      /\ \A p \in Peer : peers[p] \in Connection /\ peers[p].toGet \in Seq(Block)
                         /\ peers[p].requested \in Seq(Block)
  BY SyncTypes, ConnectionFields DEF SyncInv, SyncBase
<1>2. /\ due' = due \ {"fetch"}
      /\ UNCHANGED << tip, held, arrived, received, recent, jobs, suspended, connects,
                      overtaken, missed, lacking >>
      /\ skipped' = skipped \/ skipped' \subseteq Peer
      /\ \/ UNCHANGED << peers, active >>
         \/ \E order \in SetToSeqs(Peer) :
               /\ active' = Plan(order).busy
               /\ peers' = [p \in Peer |-> [peers[p] EXCEPT !.requested = @ \o Plan(order).ask[p]]]
  BY DEF FetchSyncItems
<1>3. CASE UNCHANGED << peers, active >>
  <2>1. RestTyped'
    BY <1>1, <1>2, <1>3 DEF RestTyped
  <2> QED BY <1>2, <1>3, <2>1, NothingChanges
<1>4. ASSUME NEW order \in SetToSeqs(Peer),
             active' = Plan(order).busy,
             peers' = [p \in Peer |-> [peers[p] EXCEPT !.requested = @ \o Plan(order).ask[p]]]
      PROVE  SyncInv'
  <2> DEFINE a == Plan(order)
             r(p) == peers[p].requested \o a.ask[p]
             d(p) == [peers[p] EXCEPT !.requested = r(p)]
             J == Range(jobs)
             K == HeldBy(held.have, J)
  <2>2. a \in Plans /\ \A x \in a.busy : x \in active \/ \E p \in Peer : x \in Range(a.ask[p])
    BY <1>1, PlanCovers
  <2>3. a \in PlanRecord /\ PlanGood(a) /\ a.busy \subseteq Block /\ a.ask \in [Peer -> Seq(Block)]
    BY <2>2, PlanFields DEF Plans
  <2>4. active' = a.busy /\ \A p \in Peer : peers'[p] = d(p)
    BY <1>4
  <2>5. peers' = [p \in Peer |-> d(p)]
    BY <1>4
  <2> HIDE DEF a
  <2>6. ASSUME NEW p \in Peer
        PROVE  /\ d(p) \in Connection /\ SameList(peers[p], d(p)) /\ d(p).requested = r(p)
               /\ d(p).conn = peers[p].conn
               /\ \/ r(p) = peers[p].requested /\ a.ask[p] = << >>
                  \/ r(p) = a.ask[p] /\ peers[p].requested = << >> /\ Active(p)
    <3> DEFINE s == peers[p].requested
               w == a.ask[p]
    <3>1. s \in Seq(Block) /\ w \in Seq(Block)
      BY <1>1, <2>3
    <3>2. w # << >> => s = << >> /\ Active(p)
      BY <2>3 DEF PlanGood, Idle
    <3> HIDE DEF s, w
    <3>3. s \o w \in Seq(Block) /\ ((s \o w = s /\ w = << >>) \/ (s \o w = w /\ s = << >> /\ Active(p)))
      BY <3>1, <3>2, RangeOfJoin, JoinedEmpty
    <3> DEFINE t == s \o w
    <3>a. t \in Seq(Block)
      BY <3>3
    <3> HIDE DEF t
    <3>4. /\ [peers[p] EXCEPT !.requested = t] \in Connection
          /\ SameList(peers[p], [peers[p] EXCEPT !.requested = t])
          /\ [peers[p] EXCEPT !.requested = t].requested = t
          /\ [peers[p] EXCEPT !.requested = t].conn = peers[p].conn
      BY <1>1, <3>a, SetRequested DEF SameList
    <3>5. r(p) = t /\ d(p) = [peers[p] EXCEPT !.requested = t]
      BY DEF s, w, t
    <3> HIDE DEF d, r
    <3>6. (t = s /\ w = << >>) \/ (t = w /\ s = << >> /\ Active(p))
      BY <3>3 DEF t
    <3>7. (r(p) = s /\ w = << >>) \/ (r(p) = w /\ s = << >> /\ Active(p))
      BY <3>5, <3>6
    <3>8. (r(p) = peers[p].requested /\ a.ask[p] = << >>)
          \/ (r(p) = a.ask[p] /\ peers[p].requested = << >> /\ Active(p))
      BY <3>7 DEF s, w
    <3>9. /\ d(p) \in Connection /\ SameList(peers[p], d(p)) /\ d(p).requested = r(p)
          /\ d(p).conn = peers[p].conn
      BY <3>a, <3>4, <3>5
    <3> QED BY <3>8, <3>9
  <2> HIDE DEF d, r
  <2>7. peers' \in [Peer -> Connection] /\ StillOpen(peers, peers')
    BY <2>4, <2>5, <2>6 DEF StillOpen
  <2>8. RestTyped'
    BY <1>1, <1>2, <2>3, <2>4 DEF RestTyped
  <2>9. SyncTypeOK'
    BY <1>1, <1>2, <2>7, <2>8 DEF RestTyped, SyncTypeOK
  <2>10. HaveOK'
    BY <1>1, <1>2 DEF HaveOK
  <2>11. (TasksOf(peers, Range(jobs)))'
    <3>1. J \in SUBSET Job
      BY <1>1, RangeIs
    <3>2. TasksOf(peers', J)
      BY <1>1, <2>7, <3>1, TasksKept
    <3> QED BY <1>2, <3>2
  <2>12. ASSUME NEW p \in Peer
         PROVE  /\ IsInjective(r(p)) /\ Range(r(p)) = Range(peers[p].requested) \cup Range(a.ask[p])
                /\ Range(peers[p].requested) \subseteq active /\ Range(a.ask[p]) \cap active = {}
                /\ Range(a.ask[p]) \subseteq a.busy
    <3>1. /\ IsInjective(peers[p].requested) /\ Range(peers[p].requested) \subseteq active
      BY <1>1 DEF OneRequestEach
    <3>2. /\ IsInjective(a.ask[p]) /\ Range(a.ask[p]) \subseteq a.busy
          /\ Range(a.ask[p]) \cap active = {}
      BY <2>3 DEF PlanGood, Requests
    <3> QED BY <2>6, <3>1, <3>2, EmptyList
  <2>13. ASSUME NEW p \in Peer, NEW q \in Peer, p # q
         PROVE  Range(r(p)) \cap Range(r(q)) = {}
    <3>1. Range(peers[p].requested) \cap Range(peers[q].requested) = {}
      BY <1>1, <2>13 DEF OneRequestEach
    <3>2. Range(a.ask[p]) \cap Range(a.ask[q]) = {}
      BY <2>3, <2>13 DEF PlanGood
    <3> QED BY <2>12, <3>1, <3>2
  <2>14. lacking' = lacking /\ lacking \subseteq active /\ active \subseteq a.busy
    BY <1>1, <1>2, <2>3 DEF OneRequestEach, PlanGood
  <2>15. ASSUME NEW b
         PROVE  b \in active' <=> (b \in lacking' \/ \E p \in Peer : b \in Range(r(p)))
    <3>1. b \in active <=> (b \in lacking \/ \E p \in Peer : b \in Range(peers[p].requested))
      BY <1>1, ActiveIs DEF OneRequestEach
    <3> QED BY <2>2, <2>4, <2>12, <2>14, <3>1
  <2>16. \A p \in Peer : peers'[p].requested = r(p) /\ peers'[p].conn = peers[p].conn
    BY <2>4, <2>6
  <2>17. active' = lacking' \cup UNION { Range(peers'[p].requested) : p \in Peer }
    <3>1. \A b : b \in active' <=> (b \in lacking' \/ \E p \in Peer : b \in Range(peers'[p].requested))
      BY <2>15, <2>16
    <3> QED BY <3>1, ActiveIs
  <2>18. OneRequestEach'
    BY <2>12, <2>13, <2>16, <2>17 DEF OneRequestEach
  <2>19. RefusedApart'
    <3>1. ASSUME NEW p \in Peer
          PROVE  lacking \cap Range(r(p)) = {} /\ (peers[p].conn = "closed" => r(p) = << >>)
      <4>1. lacking \cap Range(peers[p].requested) = {}
            /\ (peers[p].conn = "closed" => peers[p].requested = << >>)
        BY <1>1 DEF RefusedApart
      <4> QED BY <2>6, <2>12, <2>14, <4>1 DEF Active
    <3> QED BY <2>14, <2>16, <3>1 DEF RefusedApart
  <2>20. SyncBase'
    BY <2>9, <2>10, <2>11, <2>18, <2>19 DEF SyncBase
  <2>21. ASSUME FetchOK
         PROVE  FetchOK'
    <3>1. LinksIn(jobs, held.have) /\ AllOK(peers, J, K)
      BY <2>21 DEF FetchOK, FetchOf
    <3>2. ASSUME NEW p \in Peer
          PROVE  PeerOK(p, peers'[p], J, K)
      <4>1. PeerOK(p, peers[p], J, K) /\ Grows(K, K) /\ CallsFor(p, J, J)
        BY <3>1, SetGrows DEF AllOK, CallsFor
      <4> HIDE DEF J, K
      <4> QED BY <1>1, <2>4, <2>6, <4>1, PeerKept
    <3>3. AllOK(peers', J, K)
      BY <3>2 DEF AllOK
    <3>4. (LinksIn(jobs, held.have))' /\ (AllOK(peers, Range(jobs), HeldBy(held.have, Range(jobs))))'
      BY <1>2, <3>1, <3>3
    <3> QED BY <3>4 DEF FetchOK, FetchOf
  <2> QED BY <1>2, <2>20, <2>21 DEF SyncInv
<1> QED BY <1>2, <1>3, <1>4


-----------------------------------------------------------------------------
(* Tasks that make several calls.                                          *)

\* Connections and calls that a step may leave.
Ready(cs, js) ==
    /\ cs \in [Peer -> Connection] /\ js \in Seq(Job)
    /\ SameRequests(peers, cs) /\ StillOpen(peers, cs) /\ TasksOf(cs, Range(js))

\* The reference point changes to a block that the delegate will have.
LEMMA SeenSet ==
    ASSUME NEW p, NEW c, NEW d, NEW J, NEW K, PeerOK(p, c, J, K), d.toGet = c.toGet,
           d.asked = c.asked, d.conn = c.conn, d.seen \in SafeBy(K)
    PROVE  PeerOK(p, d, J, K)
<1>1. ListOK(d, K)
  BY DEF PeerOK, ListOK
<1>2. AsksOK(p, d, J, K)
  BY DEF PeerOK, AsksOK, AskOK
<1>3. AskedOK(p, d, J, K)
  BY DEF PeerOK, AskedOK
<1> QED BY <1>1, <1>2, <1>3 DEF PeerOK


\* The call of a task that no handler waits for.
LEMMA TaskCall ==
    ASSUME NEW p \in Peer, NEW c \in Connection, NEW t \in {"read", "push", "backlog"},
           NEW A \in SUBSET Peer, NEW B \in SUBSET Peer, NEW a, a = Call(p, c, Nobody, t, A, B)
    PROVE  a \in Job /\ CallFor(a, p, c, Nobody) /\ a.rest = A /\ a.again = B
<1>1. c.seen \in Block \cup {NoBlock} /\ c.toGet \in Seq(Block)
  BY ConnectionFields DEF NoneOr
<1>2. a \in Job
  BY <1>1 DEF Call, Job
<1>3. CallFor(a, p, c, Nobody) /\ a.rest = A /\ a.again = B
  BY DEF Call, CallFor
<1> QED BY <1>2, <1>3

\* A task calls for a connection that has no list.
LEMMA OneTaskCall ==
    ASSUME SyncConstants, NEW cs \in [Peer -> Connection], NEW js \in Seq(Job), NEW H, NEW q \in Peer,
           NEW a \in Job, CallFor(a, q, cs[q], Nobody), cs[q].conn # "closed", cs[q].toGet = << >>,
           FetchOf(cs, js, H)
    PROVE  FetchOf(cs, Append(js, a), H)
<1> DEFINE ms == Append(js, a)
           J == Range(js)
           M == Range(ms)
           K == HeldBy(H, J)
<1>1. a.kind = "ask" /\ a.peer = q
  BY DEF CallFor
<1>2. LinksIn(js, H) /\ AllOK(cs, J, K)
  BY DEF FetchOf
<1>3. M = J \cup {a}
  BY RangeOfAppend
<1>4. LinksIn(ms, H)
  BY <1>1, <1>2, LinksAppend
<1> HIDE DEF J, M, ms
<1>5. HeldBy(H, M) = K
  <2>1. PendOf(M) = PendOf(J)
    BY <1>1, <1>3 DEF PendOf
  <2> QED BY <2>1 DEF HeldBy
<1> HIDE DEF K
<1>6. ASSUME NEW p \in Peer
      PROVE  PeerOK(p, cs[p], M, K)
  <2>1. PeerOK(p, cs[p], J, K) /\ cs[p] \in Connection
    BY <1>2 DEF AllOK
  <2>2. CASE p = q
    <3>1. Nobody \notin Peer
      BY NoOthers
    <3>2. CallFor(a, p, cs[p], Nobody) /\ cs[p].conn # "closed" /\ cs[p].toGet = << >>
      BY <2>2
    <3>3. PeerOK(p, cs[p], J \cup {a}, K)
      BY <2>1, <3>1, <3>2, OneMoreAsk
    <3> QED BY <1>3, <3>3
  <2>3. CASE p # q
    <3>1. CallsFor(p, J, M)
      BY <1>1, <1>3, <2>3 DEF CallsFor
    <3>2. Grows(K, K) /\ SameList(cs[p], cs[p]) /\ cs[p].toGet \in Seq(Block)
      BY <2>1, SetGrows, ConnectionFields DEF SameList
    <3> QED BY <2>1, <3>1, <3>2, PeerKept
  <2> QED BY <2>2, <2>3
<1>7. AllOK(cs, M, HeldBy(H, M))
  BY <1>5, <1>6 DEF AllOK
<1> QED BY <1>4, <1>7 DEF FetchOf, M, ms

\* Nor does the call trouble what else waits.
LEMMA ReadyCall ==
    ASSUME NEW cs, NEW js, Ready(cs, js), NEW q \in Peer, NEW a \in Job,
           CallFor(a, q, cs[q], Nobody), cs[q].conn # "closed",
           \A r \in a.rest \cup a.again : cs[r].conn # "closed"
    PROVE  Ready(cs, Append(js, a))
<1>1. js \in Seq(Job) /\ TasksOf(cs, Range(js))
  BY DEF Ready
<1>2. Append(js, a) \in Seq(Job) /\ Range(Append(js, a)) = Range(js) \cup {a}
  BY <1>1, RangeOfAppend
<1>3. CallOK(a, cs)
  BY DEF CallOK, CallFor
<1>4. TasksOf(cs, Range(Append(js, a)))
  BY <1>1, <1>2, <1>3 DEF TasksOf
<1> QED BY <1>2, <1>4 DEF Ready

\* A connection starts anew and keeps its requests.
LEMMA ReadyAnew ==
    ASSUME NEW cs, NEW js, Ready(cs, js), NEW q \in Peer, NEW d \in Connection,
           d.conn = cs[q].conn, d.requested = cs[q].requested
    PROVE  Ready([cs EXCEPT ![q] = d], js)
<1> DEFINE ds == [cs EXCEPT ![q] = d]
<1>1. cs \in [Peer -> Connection] /\ js \in Seq(Job) /\ TasksOf(cs, Range(js))
      /\ SameRequests(peers, cs) /\ StillOpen(peers, cs)
  BY DEF Ready
<1>2. ds \in [Peer -> Connection] /\ ds[q] = d /\ \A p \in Peer : p # q => ds[p] = cs[p]
  BY <1>1
<1> HIDE DEF ds
<1>3. \A p \in Peer : ds[p].conn = cs[p].conn /\ ds[p].requested = cs[p].requested
  BY <1>2
<1>4. StillOpen(cs, ds) /\ StillOpen(peers, ds) /\ SameRequests(peers, ds)
  BY <1>1, <1>3 DEF StillOpen, SameRequests
<1>5. Range(js) \in SUBSET Job
  BY <1>1, RangeIs
<1>6. TasksOf(ds, Range(js))
  BY <1>1, <1>4, <1>5, TasksKept
<1> QED BY <1>1, <1>2, <1>4, <1>6 DEF Ready, ds

\* The list of a connection without one is given up, and what it saw.
LEMMA AnewFacts ==
    ASSUME NEW cs \in [Peer -> Connection], NEW js, NEW H, NEW q \in Peer, NEW d \in Connection,
           FetchOf(cs, js, H), cs[q].toGet = << >>, d.toGet = << >>, d.asked = cs[q].asked,
           d.conn = cs[q].conn, d.seen = NoBlock
    PROVE  FetchOf([cs EXCEPT ![q] = d], js, H)
<1> DEFINE ds == [cs EXCEPT ![q] = d]
           J == Range(js)
           K == HeldBy(H, J)
<1>1. ds[q] = d /\ \A p \in Peer : p # q => ds[p] = cs[p]
  OBVIOUS
<1>2. LinksIn(js, H) /\ AllOK(cs, J, K)
  BY DEF FetchOf
<1>3. NoBlock \in SafeBy(K)
  BY DEF SafeBy, HeldBy
<1> HIDE DEF ds, J, K
<1>4. PeerOK(q, d, J, K)
  <2>1. PeerOK(q, cs[q], J, K) /\ d.toGet = cs[q].toGet
    BY <1>2 DEF AllOK
  <2> QED BY <1>3, <2>1, SeenSet
<1>5. AllOK(ds, J, K)
  BY <1>1, <1>2, <1>4 DEF AllOK
<1> QED BY <1>2, <1>5 DEF FetchOf, ds, J, K

\* Where a task may go on from, and what it then leaves.
MayGoOn(t, rest, again, cs, js, d) ==
    /\ t \in {"read", "push", "backlog"} /\ d \subseteq {"fetch", "backlog"} /\ Ready(cs, js)
    /\ rest \subseteq Peer /\ again \subseteq Peer /\ \A q \in rest \cup again : cs[q].conn # "closed"
    /\ overtaken \in BOOLEAN /\ GoOn(t, rest, again, cs, js, d)

WentOn(cs, js) ==
    /\ Ready(peers', jobs') /\ due' \subseteq {"fetch", "backlog"}
    /\ overtaken' \in BOOLEAN /\ (overtaken => overtaken')
    /\ \A H : ~overtaken' /\ FetchOf(cs, js, H) => FetchOf(peers', jobs', H)

LEMMA GoOnFacts ==
    ASSUME SyncConstants, NEW t, NEW rest, NEW again, NEW cs, NEW js, NEW d,
           MayGoOn(t, rest, again, cs, js, d)
    PROVE  WentOn(cs, js)
<1>0. /\ t \in {"read", "push", "backlog"} /\ d \subseteq {"fetch", "backlog"} /\ Ready(cs, js)
      /\ rest \subseteq Peer /\ again \subseteq Peer /\ (\A q \in rest \cup again : cs[q].conn # "closed")
      /\ overtaken \in BOOLEAN /\ GoOn(t, rest, again, cs, js, d)
  BY DEF MayGoOn
<1>1. cs \in [Peer -> Connection] /\ js \in Seq(Job)
  BY <1>0 DEF Ready
<1>3. ASSUME NEW q \in rest, peers' = cs,
             jobs' = Append(js, Call(q, cs[q], Nobody, t, rest \ {q}, again)),
             overtaken' = (overtaken \/ cs[q].toGet # << >>), due' = d
      PROVE  WentOn(cs, js)
  <2> DEFINE B == rest \ {q}
             a == Call(q, cs[q], Nobody, t, B, again)
  <2>1. q \in Peer /\ cs[q] \in Connection /\ B \in SUBSET Peer /\ cs[q].conn # "closed"
        /\ \A r \in B \cup again : cs[r].conn # "closed"
    BY <1>0, <1>1, <1>3
  <2> HIDE DEF B
  <2>2. a \in Job /\ CallFor(a, q, cs[q], Nobody) /\ a.rest = B /\ a.again = again
    BY <1>0, <2>1, TaskCall
  <2>3. jobs' = Append(js, a)
    BY <1>3 DEF B
  <2> HIDE DEF a
  <2>4. Ready(cs, jobs')
    BY <1>0, <2>1, <2>2, <2>3, ReadyCall
  <2>5. ASSUME NEW H, ~overtaken', FetchOf(cs, js, H)
        PROVE  FetchOf(cs, jobs', H)
    <3>1. cs[q].toGet = << >>
      BY <1>3, <2>5
    <3> QED BY <1>1, <2>1, <2>2, <2>3, <2>5, <3>1, OneTaskCall
  <2> QED BY <1>0, <1>3, <2>4, <2>5 DEF WentOn
<1>4. ASSUME NEW q \in again, rest = {}, peers' = [cs EXCEPT ![q] = StartSync(cs[q])],
             jobs' = Append(js, Call(q, StartSync(cs[q]), Nobody, t, {}, again \ {q})),
             overtaken' = (overtaken \/ cs[q].toGet # << >>), due' = d
      PROVE  WentOn(cs, js)
  <2> DEFINE B == again \ {q}
             none == {}
             c == StartSync(cs[q])
             ds == [cs EXCEPT ![q] = c]
             a == Call(q, c, Nobody, t, none, B)
  <2>1. q \in Peer /\ cs[q] \in Connection /\ B \in SUBSET Peer /\ cs[q].conn # "closed"
        /\ (\A r \in B : cs[r].conn # "closed") /\ none \in SUBSET Peer /\ none = {}
    BY <1>0, <1>1, <1>4
  <2>2. /\ c \in Connection /\ c.conn = cs[q].conn /\ c.toGet = << >> /\ c.seen = NoBlock
        /\ c.asked = cs[q].asked /\ c.requested = cs[q].requested
    BY <2>1, StartFacts
  <2>3. peers' = ds /\ jobs' = Append(js, a)
    BY <1>4
  <2> HIDE DEF B, c, none
  <2>4. /\ ds \in [Peer -> Connection] /\ ds[q] = c
        /\ \A r \in Peer : ds[r].conn = cs[r].conn
    BY <1>1, <2>1, <2>2
  <2>5. Ready(ds, js)
    BY <1>0, <2>1, <2>2, ReadyAnew
  <2>6. a \in Job /\ CallFor(a, q, c, Nobody) /\ a.rest = none /\ a.again = B
    BY <1>0, <2>1, <2>2, TaskCall
  <2>7. ASSUME NEW H, ~overtaken', FetchOf(cs, js, H)
        PROVE  FetchOf(ds, js, H)
    <3>1. cs[q].toGet = << >>
      BY <1>4, <2>7
    <3> QED BY <1>1, <2>1, <2>2, <2>7, <3>1, AnewFacts
  <2> HIDE DEF a, ds
  <2>8. ds[q].conn # "closed" /\ ds[q].toGet = << >> /\ CallFor(a, q, ds[q], Nobody)
        /\ \A r \in a.rest \cup a.again : ds[r].conn # "closed"
    BY <2>1, <2>2, <2>4, <2>6
  <2>9. Ready(ds, Append(js, a))
    BY <2>1, <2>5, <2>6, <2>8, ReadyCall
  <2>10. ASSUME NEW H, ~overtaken', FetchOf(cs, js, H)
         PROVE  FetchOf(ds, Append(js, a), H)
    BY <1>1, <2>1, <2>4, <2>6, <2>7, <2>8, <2>10, OneTaskCall
  <2> QED BY <1>0, <1>4, <2>3, <2>9, <2>10 DEF WentOn
<1>5. ASSUME peers' = cs, jobs' = js, UNCHANGED overtaken,
             \/ due' = d
             \/ TriggerBacklog(js, d)
             \/ due' = d \cup {"fetch"}
      PROVE  WentOn(cs, js)
  <2>1. due' \subseteq {"fetch", "backlog"}
    BY <1>0, <1>5 DEF TriggerBacklog
  <2> QED BY <1>0, <1>5, <2>1 DEF WentOn
<1> QED BY <1>0, <1>3, <1>4, <1>5 DEF GoOn

\* The step of a task keeps the invariant when it leaves connections and calls
\* that it may leave.
LEMMA TaskDone ==
    ASSUME SyncInv, Ready(peers', jobs'), RestTyped', HaveOK', UNCHANGED << active, lacking >>,
           overtaken => overtaken',
           FetchOK /\ ~overtaken' => FetchOf(peers', jobs', held'.have)
    PROVE  SyncInv'
<1>1. SyncBase'
  BY BaseKept DEF SyncInv, Ready
<1>2. ~overtaken' => FetchOK'
  <2>1. SUFFICES ASSUME ~overtaken' PROVE FetchOK'
    OBVIOUS
  <2>2. FetchOf(peers', jobs', held'.have)
    BY <2>1 DEF SyncInv
  <2>3. (FetchOf(peers, jobs, held.have))'
    BY <2>2
  <2> QED BY <2>3 DEF FetchOK
<1> QED BY <1>1, <1>2 DEF SyncInv


-----------------------------------------------------------------------------
(* The backlog.                                                            *)

\* The first block of the list goes to the delegate, or was there before.
LEMMA FirstTaken ==
    ASSUME NEW p \in Peer, NEW c \in Connection, NEW d \in Connection, NEW b,
           NEW J, NEW M, NEW K, NEW L, c.toGet # << >>, Head(c.toGet) = b,
           d.toGet = Tail(c.toGet), d.seen = c.seen, d.asked = c.asked, d.conn = c.conn,
           K \subseteq L, b \in L, J \subseteq M, \A j \in M : j \notin J => j.kind = "sync",
           PeerOK(p, c, J, K)
    PROVE  PeerOK(p, d, M, L)
<1> DEFINE l == c.toGet
           t == Tail(l)
<1>1. l \in Seq(Block)
  BY ConnectionFields
<1>2. Range(l) = Range(t) \cup {b} /\ l[1] = b
  BY <1>1, RangeOfTail
<1>3. Linked(t) /\ (t # << >> => Parent(t[1]) = b)
  BY <1>1, <1>2, TailLinked DEF PeerOK, ListOK
<1>4. SafeBy(K) \subseteq SafeBy(L) /\ b \in SafeBy(L)
  BY DEF SafeBy
<1>5. ListOK(d, L)
  BY <1>3, <1>4 DEF PeerOK, ListOK
<1> HIDE DEF t
<1>6. ASSUME NEW j \in M, j.kind = "ask", j.peer = p
      PROVE  AskOK(j, d, M, L)
  <2>1. j \in J
    BY <1>6
  <2>2. AskOK(j, c, J, K)
    BY <1>6, <2>1 DEF PeerOK, AsksOK
  <2>3. (\E k \in M : k.kind = "normal" /\ k.handler = j.peer) => \E k \in J : k.kind = "normal" /\ k.handler = j.peer
    OBVIOUS
  <2>4. Range(j.ids) \subseteq Range(d.toGet) \cup SafeBy(L)
    BY <1>2, <1>4, <2>2 DEF AskOK, t
  <2> QED BY <1>4, <2>2, <2>3, <2>4 DEF AskOK
<1>7. ASSUME NEW s \in d.asked
      PROVE  /\ s # << >>
             /\ (\A j \in M : j.kind = "ask" => j.handler # p)
                   => Range(s) \subseteq Range(d.toGet) \cup SafeBy(L)
  <2>1. /\ s # << >>
        /\ (\A j \in J : j.kind = "ask" => j.handler # p) => Range(s) \subseteq Range(l) \cup SafeBy(K)
    BY <1>7 DEF PeerOK, AskedOK
  <2> QED BY <1>2, <1>4, <2>1 DEF t
<1> QED BY <1>5, <1>6, <1>7 DEF PeerOK, AsksOK, AskedOK


BackRecord ==
    [peers : [Peer -> Connection], received : Seq(Block), jobs : Seq(Job), go : BOOLEAN, rest : SUBSET Peer]

\* What holds after some passes.
BackGood(s) ==
    /\ Ready(s.peers, s.jobs)
    /\ \A p \in s.rest : s.peers[p].conn # "closed"
    /\ FetchOK => FetchOf(s.peers, s.jobs, held.have)

Backs == {s \in BackRecord : BackGood(s)}

LEMMA BackFields ==
    /\ \A s \in BackRecord : /\ s.peers \in [Peer -> Connection] /\ s.received \in Seq(Block)
                             /\ s.jobs \in Seq(Job) /\ s.go \in BOOLEAN /\ s.rest \in SUBSET Peer
    /\ \A cs \in [Peer -> Connection], r \in Seq(Block), js \in Seq(Job), g \in BOOLEAN, A \in SUBSET Peer :
          LET s == [peers |-> cs, received |-> r, jobs |-> js, go |-> g, rest |-> A] IN
          s \in BackRecord /\ s.peers = cs /\ s.received = r /\ s.jobs = js /\ s.go = g /\ s.rest = A
BY DEF BackRecord

LEMMA BackSame ==
    ASSUME NEW s \in Backs, NEW g \in BOOLEAN
    PROVE  [s EXCEPT !.go = g] \in Backs
<1> DEFINE t == [s EXCEPT !.go = g]
<1>1. t \in BackRecord /\ t.peers = s.peers /\ t.jobs = s.jobs /\ t.rest = s.rest
  BY DEF Backs, BackRecord
<1>2. BackGood(s)
  BY DEF Backs
<1> HIDE DEF t
<1>3. BackGood(t)
  BY <1>1, <1>2 DEF BackGood
<1> QED BY <1>1, <1>3 DEF Backs, t

\* The connection when the first block of its list is taken off.
TookOff(c, b) == [c EXCEPT !.toGet = Tail(@), !.processing = @ \cup {b}]

LEMMA TakenOff ==
    ASSUME NEW c \in Connection, c.toGet # << >>, NEW b \in Block
    PROVE  LET d == TookOff(c, b) IN
           /\ d \in Connection /\ d.toGet = Tail(c.toGet) /\ d.seen = c.seen /\ d.asked = c.asked
           /\ d.conn = c.conn /\ d.requested = c.requested
<1> DEFINE t == Tail(c.toGet)
           u == c.processing \cup {b}
           c1 == [c EXCEPT !.toGet = t]
           c2 == [c1 EXCEPT !.processing = u]
<1>1. t \in Seq(Block) /\ u \in SUBSET Block
  BY ConnectionFields, RangeOfTail
<1>2. TookOff(c, b) = c2
  BY DEF TookOff
<1> HIDE DEF t, u
<1>3. /\ c1 \in Connection /\ c1.toGet = t /\ c1.seen = c.seen /\ c1.asked = c.asked
      /\ c1.conn = c.conn /\ c1.requested = c.requested
  BY <1>1, SetToGet
<1> HIDE DEF c1
<1>4. /\ c2 \in Connection /\ c2.toGet = t /\ c2.seen = c.seen /\ c2.asked = c.asked
      /\ c2.conn = c.conn /\ c2.requested = c.requested
  BY <1>1, <1>3, SetProcessing
<1> HIDE DEF c2
<1> QED BY <1>2, <1>4 DEF t

\* One element is left out of a list.
LEMMA WithoutOne ==
    ASSUME NEW r \in Seq(Block), NEW k \in 1 .. Len(r)
    PROVE  RemoveAt(r, k) \in Seq(Block)
<1>1. Len(r) \in Nat /\ k - 1 \in Nat /\ k - 1 <= Len(r) /\ k + 1 \in Nat /\ k + 1 > 0
  OBVIOUS
<1>2. SubSeq(r, 1, k - 1) \in Seq(Block) /\ SubSeq(r, k + 1, Len(r)) \in Seq(Block)
  BY <1>1, RangeOfPart
<1> QED BY <1>2, RangeOfJoin DEF RemoveAt

\* The lists without b, where they start with it.
PoppedOf(cs, b) ==
    [p \in Peer |-> IF p \notin StartWith(cs, b) THEN cs[p] ELSE TookOff(cs[p], b)]

\* Only blocks are added to the calls.
BlocksAdded(J, M) == J \subseteq M /\ \A j \in M : j \notin J => j.kind = "sync"

\* The same connections, with the same requests.
AlikeAll(cs, ds) == \A p \in Peer : ds[p].conn = cs[p].conn /\ ds[p].requested = cs[p].requested

\* The lists without the block that goes to the delegate.
LEMMA PoppedFacts ==
    ASSUME NEW cs \in [Peer -> Connection], NEW b \in Block, NEW J, NEW M, NEW K, NEW L,
           K \subseteq L, b \in L, BlocksAdded(J, M)
    PROVE  LET ds == PoppedOf(cs, b) IN
           ds \in [Peer -> Connection] /\ AlikeAll(cs, ds) /\ (AllOK(cs, J, K) => AllOK(ds, M, L))
<1> DEFINE d(p) == IF p \notin StartWith(cs, b) THEN cs[p] ELSE TookOff(cs[p], b)
           Good(p) == /\ d(p) \in Connection /\ (PeerOK(p, cs[p], J, K) => PeerOK(p, d(p), M, L)) /\ d(p).conn = cs[p].conn
                      /\ d(p).requested = cs[p].requested
           ds == PoppedOf(cs, b)
<1>1. ds = [p \in Peer |-> d(p)]
  BY DEF PoppedOf
<1>2. ASSUME NEW p \in Peer
      PROVE  Good(p)
  <2> DEFINE c == cs[p]
  <2>1. c \in Connection
    OBVIOUS
  <2>a. J \subseteq M /\ \A j \in M : j \notin J => j.kind = "sync"
    BY DEF BlocksAdded
  <2>2. CASE p \notin StartWith(cs, b)
    <3>1. d(p) = c
      BY <2>2
    <3>2. c.toGet \in Seq(Block)
      BY <2>1, ConnectionFields
    <3>3. Grows(K, L) /\ SameList(c, c) /\ CallsFor(p, J, M)
      BY <2>a, SetGrows DEF SameList, CallsFor
    <3> HIDE DEF c, d
    <3>4. PeerOK(p, c, J, K) => PeerOK(p, c, M, L)
      BY <2>1, <3>2, <3>3, PeerKept
    <3> QED BY <2>1, <3>1, <3>4 DEF c
  <2>3. CASE p \in StartWith(cs, b)
    <3> DEFINE e == TookOff(c, b)
    <3>1. d(p) = e
      BY <2>3
    <3>2. c.toGet # << >> /\ Head(c.toGet) = b
      BY <2>3 DEF StartWith
    <3> HIDE DEF c, d
    <3>3. /\ e \in Connection /\ e.toGet = Tail(c.toGet) /\ e.seen = c.seen /\ e.asked = c.asked
          /\ e.conn = c.conn /\ e.requested = c.requested
      BY <2>1, <3>2, TakenOff
    <3> HIDE DEF e
    <3>4. PeerOK(p, c, J, K) => PeerOK(p, e, M, L)
      BY <2>1, <2>a, <3>2, <3>3, FirstTaken
    <3> QED BY <3>1, <3>3, <3>4 DEF c
  <2> QED BY <2>2, <2>3
<1> HIDE DEF d, ds
<1>3. ds \in [Peer -> Connection] /\ \A p \in Peer : ds[p] = d(p)
  BY <1>1, <1>2
<1>4. (AllOK(cs, J, K) => AllOK(ds, M, L)) /\ AlikeAll(cs, ds)
  BY <1>2, <1>3 DEF AllOK, AlikeAll
<1> QED BY <1>3, <1>4 DEF ds


\* Connections that are alike may be left as well.
LEMMA ReadyAlike ==
    ASSUME NEW cs, NEW js, Ready(cs, js), NEW ds \in [Peer -> Connection], AlikeAll(cs, ds)
    PROVE  Ready(ds, js)
<1>1. cs \in [Peer -> Connection] /\ js \in Seq(Job) /\ TasksOf(cs, Range(js))
      /\ SameRequests(peers, cs) /\ StillOpen(peers, cs)
  BY DEF Ready
<1>2. StillOpen(cs, ds) /\ StillOpen(peers, ds) /\ SameRequests(peers, ds)
  BY <1>1 DEF StillOpen, SameRequests, AlikeAll
<1>3. Range(js) \in SUBSET Job
  BY <1>1, RangeIs
<1>4. TasksOf(ds, Range(js))
  BY <1>1, <1>2, <1>3, TasksKept
<1> QED BY <1>1, <1>2, <1>4 DEF Ready

\* A block goes to the delegate.
LEMMA PassPushes ==
    ASSUME NEW s \in Backs, NEW k \in 1 .. Len(s.received), NEW g \in BOOLEAN,
           StartWith(s.peers, s.received[k]) # {}
    PROVE  [peers |-> PoppedOf(s.peers, s.received[k]), received |-> RemoveAt(s.received, k),
            jobs |-> Append(s.jobs, PushSync(s.received[k])), go |-> g, rest |-> {}] \in Backs
<1> DEFINE cs == s.peers
           r == s.received
           b == r[k]
           js == s.jobs
           n == PushSync(b)
           ms == Append(js, n)
           J == Range(js)
           M == Range(ms)
           K == HeldBy(held.have, J)
           L == HeldBy(held.have, M)
           ds == PoppedOf(cs, b)
           w == RemoveAt(r, k)
           none == {}
           t == [peers |-> ds, received |-> w, jobs |-> ms, go |-> g, rest |-> none]
<1>1. cs \in [Peer -> Connection] /\ r \in Seq(Block) /\ js \in Seq(Job) /\ BackGood(s)
  BY BackFields DEF Backs
<1>a. Ready(cs, js) /\ (FetchOK => FetchOf(cs, js, held.have))
  BY <1>1 DEF BackGood
<1>2. b \in Block
  BY <1>1
<1>3. n \in Job /\ n.kind = "sync" /\ n.block = b /\ n.handler = Nobody
  BY <1>2 DEF PushSync, Job
<1>4. w \in Seq(Block) /\ none \in SUBSET Peer /\ none = {}
  BY <1>1, WithoutOne
<1>5. FetchOK => Parent(b) \in K /\ AllOK(cs, J, K) /\ LinksIn(js, held.have)
  <2>1. PICK p \in Peer : cs[p].toGet # << >> /\ Head(cs[p].toGet) = b
    BY DEF StartWith
  <2>2. cs[p].toGet \in Seq(Block)
    BY <1>1, ConnectionFields
  <2>3. cs[p].toGet[1] = b
    BY <2>1, <2>2, RangeOfTail
  <2>4. FetchOK => AllOK(cs, J, K) /\ LinksIn(js, held.have)
    BY <1>a DEF FetchOf
  <2>5. AllOK(cs, J, K) => Parent(b) \in K
    BY <2>1, <2>3 DEF AllOK, PeerOK, ListOK
  <2> QED BY <2>4, <2>5
<1> HIDE DEF cs, r, b, js, n, w, none
<1>6. ms \in Seq(Job) /\ M = J \cup {n}
  BY <1>1, <1>3, RangeOfAppend
<1>7. FetchOK => LinksIn(ms, held.have)
  BY <1>1, <1>3, <1>5, LinksAppend
<1>b. Ready(cs, ms)
  <2>1. CallOK(n, cs)
    BY <1>3 DEF CallOK
  <2>2. TasksOf(cs, M)
    BY <1>a, <1>6, <2>1 DEF Ready, TasksOf
  <2> QED BY <1>a, <1>6, <2>2 DEF Ready
<1> HIDE DEF ms, J, M
<1>8. K \subseteq L /\ b \in L
  BY <1>3, <1>6, PendFacts DEF HeldBy
<1>10. BlocksAdded(J, M)
  BY <1>3, <1>6 DEF BlocksAdded
<1> HIDE DEF K, L
<1>12. ds \in [Peer -> Connection] /\ (AllOK(cs, J, K) => AllOK(ds, M, L)) /\ AlikeAll(cs, ds)
  BY <1>1, <1>2, <1>8, <1>10, PoppedFacts
<1> HIDE DEF ds
<1>13. t \in BackRecord /\ t.peers = ds /\ t.jobs = ms /\ t.rest = none
  BY <1>4, <1>6, <1>12, BackFields
<1> HIDE DEF t
<1>14. Ready(ds, ms)
  BY <1>b, <1>12, ReadyAlike
<1>15. FetchOK => FetchOf(ds, ms, held.have)
  BY <1>5, <1>7, <1>12 DEF FetchOf, M, L
<1>16. BackGood(t)
  BY <1>4, <1>13, <1>14, <1>15 DEF BackGood
<1>17. t \in Backs
  BY <1>13, <1>16 DEF Backs
<1> QED BY <1>17 DEF t, ds, w, ms, n, js, b, r, cs, none

\* The connections that hold b among the blocks being processed, and what they
\* are without it.
HoldersOf(cs, b) == {p \in Peer : cs[p].conn = "active" /\ b \in PoppedOf(cs, b)[p].processing}

LeftOf(cs, b) ==
    [p \in Peer |-> IF p \in HoldersOf(cs, b) THEN [PoppedOf(cs, b)[p] EXCEPT !.processing = @ \ {b}]
                    ELSE PoppedOf(cs, b)[p]]

\* The lists without a block that was accepted before.
LEMMA LeftFacts ==
    ASSUME NEW cs \in [Peer -> Connection], NEW b \in Block, NEW J, NEW K, b \in K
    PROVE  LET es == LeftOf(cs, b) IN
           es \in [Peer -> Connection] /\ AlikeAll(cs, es) /\ (AllOK(cs, J, K) => AllOK(es, J, K))
<1> DEFINE ds == PoppedOf(cs, b)
           H == HoldersOf(cs, b)
           e(p) == IF p \in H THEN [ds[p] EXCEPT !.processing = @ \ {b}] ELSE ds[p]
           Good(p) == /\ e(p) \in Connection /\ (PeerOK(p, ds[p], J, K) => PeerOK(p, e(p), J, K))
                      /\ e(p).conn = cs[p].conn /\ e(p).requested = cs[p].requested
           es == LeftOf(cs, b)
<1>1. ds \in [Peer -> Connection] /\ (AllOK(cs, J, K) => AllOK(ds, J, K)) /\ AlikeAll(cs, ds)
  <2>1. BlocksAdded(J, J) /\ K \subseteq K
    BY DEF BlocksAdded
  <2> QED BY <2>1, PoppedFacts
<1>2. es = [p \in Peer |-> e(p)]
  BY DEF LeftOf
<1> HIDE DEF ds, H
<1>3. ASSUME NEW p \in Peer
      PROVE  Good(p)
  <2> DEFINE c == ds[p]
             u == c.processing \ {b}
             d == [c EXCEPT !.processing = u]
  <2>1. c \in Connection /\ c.conn = cs[p].conn /\ c.requested = cs[p].requested
    BY <1>1 DEF AlikeAll
  <2>2. CASE p \notin H
    BY <2>1, <2>2
  <2>3. CASE p \in H
    <3>1. e(p) = d
      BY <2>3
    <3>2. u \in SUBSET Block /\ c.toGet \in Seq(Block)
      BY <2>1, ConnectionFields
    <3> HIDE DEF u, c, e
    <3>3. d \in Connection /\ SameList(c, d) /\ d.conn = c.conn /\ d.requested = c.requested
      BY <2>1, <3>2, SetProcessing DEF SameList
    <3> HIDE DEF d
    <3>4. Grows(K, K) /\ CallsFor(p, J, J)
      BY SetGrows DEF CallsFor
    <3>5. PeerOK(p, c, J, K) => PeerOK(p, d, J, K)
      BY <2>1, <3>2, <3>3, <3>4, PeerKept
    <3> QED BY <2>1, <3>1, <3>3, <3>5 DEF c
  <2> QED BY <2>2, <2>3
<1> HIDE DEF e, es
<1>4. es \in [Peer -> Connection] /\ \A p \in Peer : es[p] = e(p)
  BY <1>2, <1>3
<1>5. (AllOK(cs, J, K) => AllOK(es, J, K)) /\ AlikeAll(cs, es)
  BY <1>1, <1>3, <1>4 DEF AllOK, AlikeAll
<1> QED BY <1>4, <1>5 DEF es


\* A block that was accepted before is taken off the lists.
LEMMA PassEnds ==
    ASSUME NEW s \in Backs, NEW b \in Block, b \in held.have, NEW g \in BOOLEAN
    PROVE  LET es == LeftOf(s.peers, b) IN
           [peers |-> es, received |-> s.received, go |-> g, jobs |-> s.jobs,
            rest |-> {p \in HoldersOf(s.peers, b) : NewlyEmpty(es[p])}] \in Backs
<1> DEFINE cs == s.peers
           r == s.received
           js == s.jobs
           es == LeftOf(cs, b)
           A == {p \in HoldersOf(cs, b) : NewlyEmpty(es[p])}
           J == Range(js)
           K == HeldBy(held.have, J)
           t == [peers |-> es, received |-> r, jobs |-> js, go |-> g, rest |-> A]
           u == [peers |-> es, received |-> r, go |-> g, jobs |-> js, rest |-> A]
<1>1. cs \in [Peer -> Connection] /\ r \in Seq(Block) /\ js \in Seq(Job) /\ BackGood(s)
  BY BackFields DEF Backs
<1>2. b \in K
  BY DEF HeldBy
<1>3. Ready(cs, js) /\ (FetchOK => LinksIn(js, held.have) /\ AllOK(cs, J, K))
  BY <1>1 DEF BackGood, FetchOf
<1>4. \A p \in A : p \in Peer /\ cs[p].conn = "active"
  BY DEF HoldersOf
<1>u. t = u
  OBVIOUS
<1> HIDE DEF cs, r, js
<1>5. es \in [Peer -> Connection] /\ (AllOK(cs, J, K) => AllOK(es, J, K)) /\ AlikeAll(cs, es)
  BY <1>1, <1>2, LeftFacts
<1> HIDE DEF es, A
<1>6. (\A p \in A : p \in Peer /\ es[p].conn # "closed") /\ A \in SUBSET Peer
  BY <1>4, <1>5 DEF AlikeAll
<1>7. Ready(es, js)
  BY <1>3, <1>5, ReadyAlike
<1>8. FetchOK => FetchOf(es, js, held.have)
  BY <1>3, <1>5 DEF FetchOf
<1>9. t \in BackRecord /\ t.peers = es /\ t.jobs = js /\ t.rest = A
  BY <1>1, <1>5, <1>6, BackFields
<1> HIDE DEF t, u
<1>12. BackGood(t)
  BY <1>6, <1>7, <1>8, <1>9 DEF BackGood
<1>13. u \in Backs
  BY <1>u, <1>9, <1>12 DEF Backs
<1> QED BY <1>13 DEF u, js, r, es, A, cs

\* One more pass over the backlog.
LEMMA BackGoesOn ==
    ASSUME NEW s \in Backs, NEW i, Range(recent) \subseteq held.have
    PROVE  BacklogPass(s, i) \in Backs
<1> DEFINE first == {k \in DOMAIN s.received : StartWith(s.peers, s.received[k]) # {}}
           k == Min(first)
           b == s.received[k]
           ms == Append(s.jobs, PushSync(b))
           g == InProgress(ms) < MaxHandled
           no == FALSE
           es == LeftOf(s.peers, b)
           A == {p \in HoldersOf(s.peers, b) : NewlyEmpty(es[p])}
           t1 == [s EXCEPT !.go = no]
           t2 == [peers |-> PoppedOf(s.peers, b), received |-> RemoveAt(s.received, k), jobs |-> ms, go |-> g, rest |-> {}]
           t3 == [peers |-> es, received |-> s.received, go |-> no, jobs |-> s.jobs, rest |-> A]
<1>1. BacklogPass(s, i) =
        CASE ~s.go -> s
          [] s.go /\ first = {} -> t1
          [] s.go /\ first # {} /\ b \notin Range(recent) -> t2
          [] OTHER -> t3
  BY DEF BacklogPass, PoppedOf, HoldersOf, LeftOf, TookOff
<1>2. s.received \in Seq(Block) /\ s.go \in BOOLEAN
  BY BackFields DEF Backs
<1>3. first # {} => k \in 1 .. Len(s.received) /\ b \in Block /\ StartWith(s.peers, b) # {}
  <2>1. SUFFICES ASSUME first # {}
                 PROVE  k \in 1 .. Len(s.received) /\ b \in Block /\ StartWith(s.peers, b) # {}
    OBVIOUS
  <2>2. first \subseteq Nat
    BY <1>2
  <2>3. \E x \in first : \A y \in first : x <= y
    BY <2>1, <2>2, NatMin
  <2>4. k \in first
    BY <2>3 DEF Min
  <2>5. \A n \in first : n \in 1 .. Len(s.received) /\ StartWith(s.peers, s.received[n]) # {}
    BY <1>2
  <2>6. k \in 1 .. Len(s.received) /\ StartWith(s.peers, s.received[k]) # {}
    BY <2>4, <2>5
  <2> HIDE DEF k
  <2> QED BY <1>2, <2>6
<1>4. g \in BOOLEAN /\ no \in BOOLEAN
  OBVIOUS
<1> HIDE DEF first, k, g, no
<1>5. t1 \in Backs
  BY <1>4, BackSame
<1>6. first # {} => t2 \in Backs
  BY <1>3, <1>4, PassPushes
<1>7. first # {} /\ b \in Range(recent) => t3 \in Backs
  <2>1. SUFFICES ASSUME first # {}, b \in Range(recent) PROVE t3 \in Backs
    OBVIOUS
  <2>2. b \in Block /\ b \in held.have
    BY <1>3, <2>1
  <2> HIDE DEF b
  <2> QED BY <1>4, <2>2, PassEnds
<1> HIDE DEF t1, t2, t3, b
<1> QED BY <1>1, <1>2, <1>5, <1>6, <1>7


BackStart(all) == [peers |-> peers, received |-> all, jobs |-> jobs, go |-> TRUE, rest |-> {}]

\* The backlog before the first pass.
LEMMA BackStarts ==
    ASSUME SyncBase, NEW all \in Seq(Block)
    PROVE  BackStart(all) \in Backs
<1> DEFINE s == BackStart(all)
           yes == TRUE
           none == {}
           t == [peers |-> peers, received |-> all, jobs |-> jobs, go |-> yes, rest |-> none]
<1>1. peers \in [Peer -> Connection] /\ jobs \in Seq(Job) /\ TasksOf(peers, Range(jobs))
  BY SyncTypes DEF SyncBase
<1>2. yes \in BOOLEAN /\ none \in SUBSET Peer /\ none = {} /\ s = t
  BY DEF BackStart
<1> HIDE DEF yes, none, s
<1>3. t \in BackRecord /\ t.peers = peers /\ t.jobs = jobs /\ t.rest = none
  BY <1>1, <1>2, BackFields
<1> HIDE DEF t
<1>4. Ready(peers, jobs)
  BY <1>1 DEF Ready, SameRequests, StillOpen
<1>5. BackGood(s)
  BY <1>2, <1>3, <1>4 DEF BackGood, FetchOK
<1>6. s \in Backs
  BY <1>2, <1>3, <1>5 DEF Backs
<1> QED BY <1>6 DEF s

LEMMA WithEnd ==
    ASSUME NEW all \in Seq(Block)
    PROVE  /\ all \o << NoBlock >> \in Seq(Block \cup {NoBlock})
OBVIOUS

\* What the fold over the backlog has after each pass.
LEMMA BacklogIs ==
    ASSUME SyncBase, NEW all \in Seq(Block), NEW line, line = all \o << NoBlock >>,
           line \in Seq(Block \cup {NoBlock})
    PROVE  \E h \in [0 .. Len(line) -> Backs] :
              /\ h[0] = BackStart(all)
              /\ \A n \in 1 .. Len(line) : h[n] = BacklogPass(h[n - 1], line[n])
              /\ Backlog(all) = h[Len(line)]
<1> DEFINE N == Len(line)
           D == DOMAIN line
           b == BackStart(all)
           R == Backs
           Raw(g) == g = [t \in SUBSET D |->
                            IF t = {} THEN b
                            ELSE BacklogPass(g[t \ {LargestOf(t)}], line[LargestOf(t)])]
           F == [n \in 1 .. N |-> [r \in R |-> BacklogPass(r, line[n])]]
<1>1. Backlog(all) = (CHOOSE g : Raw(g))[D]
  BY DEF Backlog, FoldLeft, MapThenFoldSet, Max, LargestOf, BackStart
<1>2. N \in Nat /\ D = 1 .. N
  OBVIOUS
<1>3. b \in R
  BY BackStarts
<1>4. \A n \in 1 .. N, r \in R : BacklogPass(r, line[n]) \in R
  <2>1. Range(recent) \subseteq held.have
    BY DEF SyncBase, HaveOK
  <2> QED BY <2>1, BackGoesOn
<1>5. F \in [1 .. N -> [R -> R]] /\ \A n \in 1 .. N, r \in R : F[n][r] = BacklogPass(r, line[n])
  BY <1>4
<1> HIDE DEF N, D, F, b, R
<1>6. PICK h \in [0 .. N -> R] : Follows(h, b, F, N)
  BY <1>2, <1>3, <1>5, Recursion
<1>7. PICK g0 \in [SUBSET (1 .. N) -> R] : FoldsOver(g0, b, F, N)
  BY <1>2, <1>3, <1>5, FoldExists
<1>8. Raw(g0)
  <2>1. ASSUME NEW t \in SUBSET D
        PROVE  g0[t] = IF t = {} THEN b
                       ELSE BacklogPass(g0[t \ {LargestOf(t)}], line[LargestOf(t)])
    <3>1. CASE t = {}
      BY <1>2, <1>7, <3>1 DEF FoldsOver
    <3>2. CASE t # {}
      <4>1. LargestOf(t) \in 1 .. N /\ t \ {LargestOf(t)} \in SUBSET (1 .. N)
        BY <1>2, <3>2, LargestIs
      <4>2. g0[t] = F[LargestOf(t)][g0[t \ {LargestOf(t)}]]
        BY <1>2, <1>7, <3>2 DEF FoldsOver
      <4> QED BY <1>5, <1>7, <3>2, <4>1, <4>2
    <3> QED BY <3>1, <3>2
  <2> QED BY <1>2, <1>7, <2>1
<1>9. ASSUME NEW g, Raw(g)
      PROVE  g[D] = h[N]
  <2>1. \A t \in SUBSET D : g[t] = IF t = {} THEN b
                                  ELSE BacklogPass(g[t \ {LargestOf(t)}], line[LargestOf(t)])
    BY <1>9
  <2> HIDE DEF Raw
  <2>2. g[{}] = b
    BY <2>1
  <2>3. ASSUME NEW t \in SUBSET (1 .. N), t # {}, g[t \ {LargestOf(t)}] \in R
        PROVE  g[t] = F[LargestOf(t)][g[t \ {LargestOf(t)}]]
    <3>1. LargestOf(t) \in 1 .. N
      BY <1>2, <2>3, LargestIs
    <3> QED BY <1>2, <1>5, <2>1, <2>3, <3>1
  <2>4. FoldsWithin(g, b, F, N, R)
    BY <2>2, <2>3 DEF FoldsWithin
  <2>5. Folding(g, h, b, F, N, R)
    BY <1>2, <1>3, <1>5, <1>6, <2>4 DEF Folding
  <2>6. EndsAlike(g, h, N)
    BY <2>5, FoldEnds
  <2> QED BY <1>2, <2>6 DEF EndsAlike
<1> HIDE DEF Raw
<1>10. (CHOOSE g : Raw(g))[D] = h[N]
  BY <1>8, <1>9
<1>11. \A n \in 1 .. N : h[n] = BacklogPass(h[n - 1], line[n])
  <2>1. ASSUME NEW n \in 1 .. N
        PROVE  h[n] = BacklogPass(h[n - 1], line[n])
    <3>1. n - 1 \in 0 .. N
      BY <1>2
    <3>2. h[n] = F[n][h[n - 1]] /\ h[n - 1] \in R
      BY <1>6, <3>1 DEF Follows
    <3> QED BY <1>5, <3>2
  <2> QED BY <2>1
<1>12. h[0] = b
  BY <1>6 DEF Follows
<1>13. Backlog(all) = h[N]
  BY <1>1, <1>10
<1> QED BY <1>6, <1>11, <1>12, <1>13 DEF N, b, R

\* The passes keep what holds of the connections and calls.
LEMMA BacklogFacts ==
    ASSUME SyncBase, NEW all \in Seq(Block)
    PROVE  Backlog(all) \in Backs
<1> DEFINE line == all \o << NoBlock >>
           N == Len(line)
<1>1. line \in Seq(Block \cup {NoBlock})
  BY WithEnd
<1> HIDE DEF line
<1>2. PICK h \in [0 .. N -> Backs] : Backlog(all) = h[N]
  <2>1. line = all \o << NoBlock >>
    BY DEF line
  <2> QED BY <1>1, <2>1, BacklogIs
<1>3. N \in 0 .. N
  BY <1>1
<1> QED BY <1>2, <1>3

LEMMA ReverseFacts ==
    ASSUME NEW s \in Seq(Block)
    PROVE  Reverse(s) \in Seq(Block)
<1>1. \A i \in 1 .. Len(s) : (Len(s) - i) + 1 \in 1 .. Len(s)
  OBVIOUS
<1>2. \A i \in 1 .. Len(s) : s[(Len(s) - i) + 1] \in Block
  BY <1>1
<1>3. Reverse(s) \in [1 .. Len(s) -> Block]
  BY <1>2 DEF Reverse
<1> QED BY <1>3


\* process_backlog_of_sync_blocks passes blocks to the delegate.
LEMMA ProcessBacklogKeeps ==
    ASSUME SyncConstants, SyncInv, ProcessBacklog
    PROVE  SyncInv'
<1> DEFINE all == Reverse(arrived) \o received
           s == Backlog(all)
           full == InProgress(s.jobs) >= MaxHandled /\ Len(s.received) >= MaxPrefetched
           left == due \ {"backlog"}
<1>1. SyncBase /\ SyncTypeOK /\ HaveOK
  BY DEF SyncInv, SyncBase
<1>2. UNCHANGED << tip, held, active, recent, connects, skipped, lacking >>
  BY DEF ProcessBacklog
<1>3. CASE UNCHANGED << peers, arrived, received, jobs, suspended, overtaken, missed >> /\ due' = left
  <2>1. RestTyped'
    BY <1>1, <1>2, <1>3 DEF SyncTypeOK, RestTyped
  <2> QED BY <1>2, <1>3, <2>1, NothingChanges
<1>4. ASSUME received' = s.received, arrived' = << >>, missed' = {}, suspended' = full,
             \/ /\ s.rest # {}
                /\ GoOn("backlog", s.rest, {}, s.peers, s.jobs, left)
             \/ /\ s.rest = {}
                /\ peers' = s.peers /\ jobs' = s.jobs /\ UNCHANGED overtaken
                /\ due' = IF full THEN left ELSE left \cup {"fetch"}
      PROVE  SyncInv'
  <2>1. all \in Seq(Block)
    BY <1>1, ReverseFacts, RangeOfJoin DEF SyncTypeOK
  <2> HIDE DEF all
  <2>2. s \in BackRecord /\ BackGood(s)
    BY <1>1, <2>1, BacklogFacts DEF Backs
  <2>3. suspended' \in BOOLEAN /\ left \in SUBSET {"fetch", "backlog"} /\ overtaken \in BOOLEAN
    BY <1>1, <1>4 DEF SyncTypeOK
  <2> HIDE DEF s, full
  <2>4. /\ s.peers \in [Peer -> Connection] /\ s.received \in Seq(Block) /\ s.jobs \in Seq(Job)
        /\ s.rest \in SUBSET Peer
    BY <2>2, BackFields
  <2>5. /\ Ready(s.peers, s.jobs) /\ (\A p \in s.rest : s.peers[p].conn # "closed")
        /\ FetchOK => FetchOf(s.peers, s.jobs, held.have)
    BY <2>2 DEF BackGood
  <2>6. /\ Ready(peers', jobs') /\ due' \subseteq {"fetch", "backlog"}
        /\ overtaken' \in BOOLEAN /\ (overtaken => overtaken')
        /\ ~overtaken' /\ FetchOf(s.peers, s.jobs, held.have) => FetchOf(peers', jobs', held.have)
    <3>1. CASE s.rest = {}
      <4>1. peers' = s.peers /\ jobs' = s.jobs /\ UNCHANGED overtaken
            /\ due' = IF full THEN left ELSE left \cup {"fetch"}
        BY <1>4, <3>1
      <4>2. due' \subseteq {"fetch", "backlog"}
        BY <2>3, <4>1
      <4> QED BY <2>3, <2>5, <4>1, <4>2
    <3>2. CASE s.rest # {}
      <4> DEFINE t == "backlog"
                 none == {}
      <4>1. /\ t \in {"read", "push", "backlog"} /\ none \subseteq Peer
            /\ GoOn(t, s.rest, none, s.peers, s.jobs, left)
            /\ \A q \in s.rest \cup none : s.peers[q].conn # "closed"
        BY <1>4, <2>5, <3>2
      <4> HIDE DEF t, none, left
      <4>2. MayGoOn(t, s.rest, none, s.peers, s.jobs, left)
        BY <2>3, <2>4, <2>5, <4>1 DEF MayGoOn
      <4>3. WentOn(s.peers, s.jobs)
        BY <4>2, GoOnFacts
      <4> QED BY <4>3 DEF WentOn
    <3> QED BY <3>1, <3>2
  <2>7. RestTyped'
    BY <1>1, <1>2, <1>4, <2>3, <2>4, <2>6 DEF SyncTypeOK, RestTyped
  <2>8. HaveOK'
    BY <1>1, <1>2 DEF HaveOK
  <2>9. FetchOK /\ ~overtaken' => FetchOf(peers', jobs', held'.have)
    BY <1>2, <2>5, <2>6
  <2> QED BY <1>2, <2>6, <2>7, <2>8, <2>9, TaskDone
<1> QED BY <1>3, <1>4 DEF ProcessBacklog


-----------------------------------------------------------------------------
(* The delegate.                                                           *)

\* The first call leaves the queue.
LEMMA Served ==
    ASSUME SyncBase, jobs # << >>
    PROVE  /\ Head(jobs) \in Job /\ Tail(jobs) \in Seq(Job)
           /\ Range(jobs) = Range(Tail(jobs)) \cup {Head(jobs)}
           /\ CallOK(Head(jobs), peers) /\ TasksOf(peers, Range(Tail(jobs)))
<1>1. jobs \in Seq(Job) /\ TasksOf(peers, Range(jobs))
  BY SyncTypes DEF SyncBase
<1>2. /\ Head(jobs) \in Job /\ Tail(jobs) \in Seq(Job)
      /\ Range(jobs) = Range(Tail(jobs)) \cup {Head(jobs)}
  BY <1>1, RangeOfTail
<1> QED BY <1>1, <1>2 DEF TasksOf

LEMMA ServedReady ==
    ASSUME SyncBase, jobs # << >>, NEW cs \in [Peer -> Connection],
           SameRequests(peers, cs), StillOpen(peers, cs)
    PROVE  Ready(cs, Tail(jobs))
<1>1. Tail(jobs) \in Seq(Job) /\ TasksOf(peers, Range(Tail(jobs)))
  BY Served
<1>2. Range(Tail(jobs)) \in SUBSET Job
  BY <1>1, RangeIs
<1>3. TasksOf(cs, Range(Tail(jobs)))
  BY <1>1, <1>2, TasksKept
<1> QED BY <1>1, <1>3 DEF Ready

Elsewhere ==
    UNCHANGED << tip, active, arrived, received, suspended, connects, missed, skipped, lacking >>

\* A call was served and its task goes on.
LEMMA ServedOn ==
    ASSUME SyncConstants, SyncInv, Elsewhere, HaveOK', held' \in [have : SUBSET Block, head : Block],
           recent' \in Seq(Block), NEW t, NEW rest, NEW again, NEW cs, NEW js,
           MayGoOn(t, rest, again, cs, js, due), FetchOK => FetchOf(cs, js, held'.have)
    PROVE  SyncInv'
<1>1. WentOn(cs, js)
  BY GoOnFacts
<1>2. RestTyped'
  <2>1. SyncTypeOK /\ due' \subseteq {"fetch", "backlog"} /\ overtaken' \in BOOLEAN
    BY <1>1 DEF SyncInv, SyncBase, WentOn
  <2> QED BY <2>1 DEF SyncTypeOK, RestTyped, Elsewhere
<1>3. FetchOK /\ ~overtaken' => FetchOf(peers', jobs', held'.have)
  BY <1>1 DEF WentOn
<1>4. Ready(peers', jobs') /\ (overtaken => overtaken') /\ UNCHANGED << active, lacking >>
  BY <1>1 DEF WentOn, Elsewhere
<1> QED BY <1>2, <1>3, <1>4, TaskDone

\* Nothing that the delegate has changes.
LEMMA SameHeld ==
    ASSUME SyncBase, UNCHANGED << held, recent >>
    PROVE  HaveOK' /\ held' \in [have : SUBSET Block, head : Block] /\ recent' \in Seq(Block)
BY DEF SyncBase, HaveOK, SyncTypeOK

\* A call that is not a block was served: the delegate will have what it would.
LEMMA NoBlockServed ==
    ASSUME NEW H, NEW J, NEW M, NEW j, J = M \cup {j}, j.kind # "sync"
    PROVE  HeldBy(H, M) = HeldBy(H, J)
<1>1. M \subseteq J /\ \A k \in J : k.kind = "sync" => k \in M
  OBVIOUS
<1>2. PendOf(M) \subseteq PendOf(J) /\ PendOf(J) \subseteq PendOf(M)
  BY <1>1, PendFacts
<1>3. PendOf(M) = PendOf(J)
  BY <1>2
<1> QED BY <1>3 DEF HeldBy

\* The connection when the request for ids is sent.
WithSent(c, s) == [c EXCEPT !.asked = {s}, !.sent = Append(@, s)]

LEMMA SentFacts ==
    ASSUME NEW c \in Connection, NEW s \in Seq(Block)
    PROVE  LET d == WithSent(c, s) IN
           /\ d \in Connection /\ d.asked = {s} /\ d.toGet = c.toGet /\ d.seen = c.seen
           /\ d.conn = c.conn /\ d.requested = c.requested
<1> DEFINE a == {s}
           t == Append(c.sent, s)
           c1 == [c EXCEPT !.asked = a]
           c2 == [c1 EXCEPT !.sent = t]
<1>1. a \in SUBSET Seq(Block) /\ t \in Seq(Seq(Block))
  BY ConnectionFields, RangeOfAppend
<1>2. WithSent(c, s) = c2
  BY DEF WithSent
<1> HIDE DEF a, t
<1>3. /\ c1 \in Connection /\ c1.asked = a /\ c1.toGet = c.toGet /\ c1.seen = c.seen
      /\ c1.conn = c.conn /\ c1.requested = c.requested
  BY <1>1, SetAsked
<1> HIDE DEF c1
<1>4. /\ c2 \in Connection /\ c2.asked = a /\ c2.toGet = c.toGet /\ c2.seen = c.seen
      /\ c2.conn = c.conn /\ c2.requested = c.requested
  BY <1>1, <1>3, SetSent
<1> HIDE DEF c2
<1> QED BY <1>2, <1>4 DEF a


\* The synopsis is a list of ids.
LEMMA SynopsisTyped ==
    ASSUME SyncConstants, SyncBase, NEW j \in Job, j.kind = "ask"
    PROVE  CreateSynopsis(j.ref, j.ids) \in Seq(Block)
<1>1. held.head \in Block
  BY SyncTypes DEF SyncBase
<1>2. NoneOr(j.ref) /\ j.ids \in Seq(Block)
  BY JobFields
<1> QED BY <1>1, <1>2, SynopsisFacts

\* The synopsis that is sent consists of blocks of the list, and of blocks that
\* the delegate will have.
LEMMA SynopsisSafe ==
    ASSUME SyncConstants, SyncBase, FetchOK, NEW K, K = HeldBy(held.have, Range(jobs)),
           NEW j \in Job, j.kind = "ask", NEW c, NEW J, AskOK(j, c, J, K)
    PROVE  LET s == CreateSynopsis(j.ref, j.ids) IN
           s \in Seq(Block) /\ s # << >> /\ Range(s) \subseteq Range(c.toGet) \cup SafeBy(K)
<1> DEFINE s == CreateSynopsis(j.ref, j.ids)
           r == IF j.ref = NoBlock THEN held.head ELSE j.ref
<1>1. held.head \in Block /\ held.head \in held.have
  BY SyncTypes DEF SyncBase, HaveOK
<1>2. NoneOr(j.ref) /\ j.ids \in Seq(Block)
  BY JobFields
<1>3. s \in Seq(Block) /\ s # << >> /\ Range(s) \subseteq Range(Path[r]) \cup Range(j.ids)
  BY <1>1, <1>2, SynopsisFacts
<1>4. held.have \subseteq K /\ \A b \in Block : b \in K => Parent(b) \in K
  BY WillHave
<1>5. r \in Block /\ r \in SafeBy(K)
  <2>1. CASE j.ref = NoBlock
    BY <1>1, <1>4, <2>1 DEF SafeBy
  <2>2. CASE j.ref # NoBlock
    BY <1>2, <2>2 DEF NoneOr, AskOK
  <2> QED BY <2>1, <2>2
<1> HIDE DEF r, s
<1>6. Range(Path[r]) \subseteq SafeBy(K)
  BY <1>4, <1>5, SafeFacts
<1>7. Range(j.ids) \subseteq Range(c.toGet) \cup SafeBy(K)
  BY DEF AskOK
<1>8. Range(s) \subseteq Range(c.toGet) \cup SafeBy(K)
  BY <1>3, <1>6, <1>7
<1> QED BY <1>3, <1>8 DEF s


\* The connections when the synopsis that the call j is for was sent.
SentTo(j) ==
    IF j.peer = Nobody THEN peers
    ELSE [peers EXCEPT ![j.peer] = WithSent(peers[j.peer], CreateSynopsis(j.ref, j.ids))]

LEMMA SentToFacts ==
    ASSUME SyncConstants, SyncBase, NEW j \in Job, j.kind = "ask"
    PROVE  LET cs == SentTo(j) IN
           /\ cs \in [Peer -> Connection] /\ SameRequests(peers, cs) /\ StillOpen(peers, cs)
           /\ \A q \in Peer : q # j.peer => cs[q] = peers[q]
<1> DEFINE s == CreateSynopsis(j.ref, j.ids)
           p == j.peer
           c == peers[p]
           d == WithSent(c, s)
           cs == SentTo(j)
<1>1. peers \in [Peer -> Connection] /\ p \in Peer \cup {Nobody} /\ Nobody \notin Peer
  BY SyncTypes, JobFields, NoOthers DEF SyncBase
<1>2. s \in Seq(Block)
  BY SynopsisTyped
<1>3. CASE p = Nobody
  <2>1. cs = peers
    BY <1>3 DEF SentTo
  <2> QED BY <1>1, <2>1 DEF SameRequests, StillOpen
<1>4. CASE p # Nobody
  <2>1. cs = [peers EXCEPT ![p] = d] /\ p \in Peer /\ c \in Connection
    BY <1>1, <1>4 DEF SentTo
  <2> HIDE DEF s, cs, p
  <2>2. d \in Connection /\ d.conn = c.conn /\ d.requested = c.requested
    BY <1>2, <2>1, SentFacts
  <2> HIDE DEF d
  <2>3. cs \in [Peer -> Connection] /\ cs[p] = d /\ \A q \in Peer : q # p => cs[q] = peers[q]
    BY <1>1, <2>1, <2>2
  <2>4. SameRequests(peers, cs) /\ StillOpen(peers, cs)
    BY <2>2, <2>3 DEF SameRequests, StillOpen
  <2> QED BY <2>3, <2>4 DEF cs, p
<1> QED BY <1>3, <1>4

\* What holds of the connections then.
LEMMA SentToOK ==
    ASSUME SyncConstants, SyncBase, FetchOK, jobs # << >>, NEW j, j = Head(jobs), j.kind = "ask"
    PROVE  FetchOf(SentTo(j), Tail(jobs), held.have)
<1> DEFINE p == j.peer
           c == peers[p]
           s == CreateSynopsis(j.ref, j.ids)
           d == WithSent(c, s)
           cs == SentTo(j)
           ms == Tail(jobs)
           H == held.have
           J == Range(jobs)
           M == Range(ms)
           K == HeldBy(H, J)
<1>1. jobs \in Seq(Job) /\ peers \in [Peer -> Connection] /\ LinksIn(jobs, H) /\ AllOK(peers, J, K)
  BY SyncTypes DEF SyncBase, FetchOK, FetchOf
<1>2. j \in Job /\ ms \in Seq(Job) /\ J = M \cup {j} /\ CallOK(j, peers)
  BY Served
<1>3. LinksIn(ms, H)
  BY <1>1, LinksTail
<1>4. p \in Peer \cup {Nobody} /\ Nobody \notin Peer
  BY <1>2, JobFields, NoOthers
<1>5. cs \in [Peer -> Connection] /\ \A q \in Peer : q # p => cs[q] = peers[q]
  BY <1>2, SentToFacts
<1>6. HeldBy(H, M) = K
  <2> HIDE DEF J, M
  <2> QED BY <1>2, NoBlockServed
<1> HIDE DEF ms, M
<1>7. ASSUME NEW q \in Peer, q # p
      PROVE  PeerOK(q, peers[q], M, K)
  <2>1. j.handler = p \/ j.handler = Nobody
    BY <1>2 DEF CallOK
  <2>2. CallsFor(q, J, M)
    BY <1>2, <1>4, <1>7, <2>1 DEF CallsFor
  <2>3. Grows(K, K) /\ SameList(peers[q], peers[q]) /\ peers[q].toGet \in Seq(Block)
    BY <1>1, SetGrows, ConnectionFields DEF SameList
  <2>4. PeerOK(q, peers[q], J, K)
    BY <1>1 DEF AllOK
  <2> HIDE DEF J, K
  <2> QED BY <2>2, <2>3, <2>4, PeerKept
<1>8. ASSUME p \in Peer
      PROVE  PeerOK(p, cs[p], M, K)
  <2>1. c \in Connection /\ PeerOK(p, c, J, K)
    BY <1>1, <1>8 DEF AllOK
  <2>2. AskOK(j, c, J, K)
    BY <1>2, <2>1 DEF PeerOK, AsksOK
  <2>3. s \in Seq(Block) /\ s # << >> /\ Range(s) \subseteq Range(c.toGet) \cup SafeBy(K)
    BY <1>2, <2>2, SynopsisSafe
  <2>4. cs[p] = d
    BY <1>1, <1>4, <1>8 DEF SentTo
  <2> HIDE DEF s, c, K, J, p, cs
  <2>5. d \in Connection /\ d.asked = {s} /\ d.toGet = c.toGet /\ d.seen = c.seen /\ d.conn = c.conn
    BY <2>1, <2>3, SentFacts
  <2> HIDE DEF d
  <2>6. ListOK(d, K)
    BY <2>1, <2>5 DEF PeerOK, ListOK
  <2>7. ASSUME NEW k \in M, k.kind = "ask", k.peer = p
        PROVE  AskOK(k, d, M, K)
    <3>1. AskOK(k, c, J, K)
      BY <1>2, <2>1, <2>7 DEF PeerOK, AsksOK
    <3> QED BY <1>2, <2>5, <3>1 DEF AskOK
  <2>8. AskedOK(p, d, M, K)
    BY <2>3, <2>5 DEF AskedOK
  <2> QED BY <2>4, <2>6, <2>7, <2>8 DEF PeerOK, AsksOK
<1> HIDE DEF cs, K, J
<1>9. AllOK(cs, M, K)
  <2>1. ASSUME NEW q \in Peer
        PROVE  PeerOK(q, cs[q], M, K)
    <3>1. CASE q = p
      BY <1>8, <3>1
    <3>2. CASE q # p
      BY <1>5, <1>7, <3>2
    <3> QED BY <3>1, <3>2
  <2> QED BY <2>1 DEF AllOK
<1> QED BY <1>3, <1>6, <1>9 DEF FetchOf, M, ms, cs

\* The synopsis is there, and the request for ids is sent.
LEMMA SendKeeps ==
    ASSUME SyncConstants, SyncInv, jobs # << >>, SendFetchIds(Head(jobs)), Elsewhere
    PROVE  SyncInv'
<1> DEFINE j == Head(jobs)
           p == j.peer
           s == CreateSynopsis(j.ref, j.ids)
           raw == IF p = Nobody THEN peers
                  ELSE [peers EXCEPT ![p].asked = {s}, ![p].sent = Append(@, s)]
           cs == SentTo(j)
           ms == Tail(jobs)
<1>1. SyncBase /\ peers \in [Peer -> Connection] /\ overtaken \in BOOLEAN /\ due \subseteq {"fetch", "backlog"}
  BY SyncTypes DEF SyncInv, SyncBase, SyncTypeOK
<1>2. j \in Job /\ CallOK(j, peers)
  BY <1>1, Served
<1>3. j.kind = "ask" /\ GoOn(j.task, j.rest, j.again, raw, ms, due) /\ UNCHANGED << held, recent >>
  BY DEF SendFetchIds
<1> HIDE DEF j, ms
<1>4. /\ p \in Peer \cup {Nobody} /\ j.task \in {"read", "push", "backlog"}
      /\ j.rest \subseteq Peer /\ j.again \subseteq Peer
  BY <1>2, <1>3, JobFields
<1>5. raw = cs
  <2>1. CASE p = Nobody
    BY <2>1 DEF SentTo
  <2>2. CASE p # Nobody
    <3>1. p \in Peer /\ peers[p] \in Connection
      BY <1>1, <1>4, <2>2
    <3>2. cs = [peers EXCEPT ![p] = WithSent(peers[p], s)]
      BY <2>2 DEF SentTo
    <3>3. raw = [peers EXCEPT ![p].asked = {s}, ![p].sent = Append(@, s)]
      BY <2>2
    <3> HIDE DEF raw, cs, s, p
    <3> QED BY <1>1, <3>1, <3>2, <3>3 DEF WithSent
  <2> QED BY <2>1, <2>2
<1> HIDE DEF raw
<1>6. cs \in [Peer -> Connection] /\ SameRequests(peers, cs) /\ StillOpen(peers, cs)
  BY <1>1, <1>2, <1>3, SentToFacts
<1> HIDE DEF cs
<1>7. Ready(cs, ms)
  BY <1>1, <1>6, ServedReady DEF ms
<1>8. \A q \in j.rest \cup j.again : cs[q].conn # "closed"
  BY <1>2, <1>3, <1>4, <1>6 DEF CallOK, StillOpen
<1>9. MayGoOn(j.task, j.rest, j.again, cs, ms, due)
  BY <1>1, <1>3, <1>4, <1>5, <1>7, <1>8 DEF MayGoOn
<1>10. FetchOK => FetchOf(cs, ms, held'.have)
  BY <1>1, <1>3, SentToOK DEF cs, ms, j
<1>11. HaveOK' /\ held' \in [have : SUBSET Block, head : Block] /\ recent' \in Seq(Block)
  BY <1>1, <1>3, SameHeld
<1> QED BY <1>9, <1>10, <1>11, ServedOn

\* The delegate accepts a block: it has the block, and the chain up to it.
LEMMA AcceptFacts ==
    ASSUME SyncBase, NEW b \in Block, Links(b),
           held' = Pushed(b), recent' = Remember(b)
    PROVE  /\ held'.have = held.have \cup {b} /\ HaveOK'
           /\ held' \in [have : SUBSET Block, head : Block] /\ recent' \in Seq(Block)
<1> DEFINE H == held.have \cup {b}
           h == IF Num(b) > Num(held.head) THEN b ELSE held.head
           r == Append(recent, b)
<1>1. held.have \subseteq Block /\ held.head \in Block /\ recent \in Seq(Block) /\ HaveOK
  BY SyncTypes DEF SyncBase
<1>2. held' = [have |-> H, head |-> h]
  BY DEF Pushed
<1>3. h \in Block /\ h \in H /\ H \in SUBSET Block
  BY <1>1 DEF HaveOK
<1>4. \A x \in H : Parent(x) \in H \cup {NoBlock}
  BY <1>1 DEF HaveOK, Links
<1>5. r \in Seq(Block) /\ Range(r) = Range(recent) \cup {b} /\ r # << >>
  BY <1>1, RangeOfAppend
<1>6. recent' = r \/ recent' = Tail(r)
  BY DEF Remember
<1> HIDE DEF H, h, r
<1>7. held'.have = H /\ held'.head = h /\ held' \in [have : SUBSET Block, head : Block]
  BY <1>2, <1>3
<1>8. Tail(r) \in Seq(Block) /\ Range(Tail(r)) \subseteq Range(r)
  BY <1>5, RangeOfTail
<1>9. recent' \in Seq(Block) /\ Range(recent') \subseteq Range(r)
  BY <1>5, <1>6, <1>8
<1>10. Range(recent') \subseteq H
  BY <1>1, <1>5, <1>9 DEF HaveOK, H
<1>11. HaveOK'
  BY <1>3, <1>4, <1>7, <1>10 DEF HaveOK
<1> QED BY <1>7, <1>9, <1>11 DEF H

\* What the delegate will have when it accepted the block of the first call.
LEMMA AcceptedHeld ==
    ASSUME NEW H, NEW J, NEW M, NEW j, NEW b, J = M \cup {j}, j.kind = "sync" => j.block = b
    PROVE  HeldBy(H, J) \subseteq HeldBy(H \cup {b}, M) /\ b \in HeldBy(H \cup {b}, M)
<1>1. ASSUME NEW x \in PendOf(J)
      PROVE  x = b \/ x \in PendOf(M)
  BY <1>1 DEF PendOf
<1> QED BY <1>1 DEF HeldBy

DoneSync(c, b) == [c EXCEPT !.seen = b, !.processing = @ \ {b}]

LEMMA DoneFacts ==
    ASSUME NEW c \in Connection, NEW b \in Block
    PROVE  LET d == DoneSync(c, b) IN
           /\ d \in Connection /\ d.seen = b /\ d.toGet = c.toGet /\ d.asked = c.asked
           /\ d.conn = c.conn /\ d.requested = c.requested
<1> DEFINE u == c.processing \ {b}
           c1 == [c EXCEPT !.seen = b]
           c2 == [c1 EXCEPT !.processing = u]
<1>1. u \in SUBSET Block /\ b \in Block \cup {NoBlock}
  BY ConnectionFields
<1>2. DoneSync(c, b) = c2
  BY DEF DoneSync
<1> HIDE DEF u
<1>3. /\ c1 \in Connection /\ c1.seen = b /\ c1.toGet = c.toGet /\ c1.asked = c.asked
      /\ c1.conn = c.conn /\ c1.requested = c.requested
  BY <1>1, SetSeen
<1> HIDE DEF c1
<1>4. /\ c2 \in Connection /\ c2.seen = b /\ c2.toGet = c.toGet /\ c2.asked = c.asked
      /\ c2.conn = c.conn /\ c2.requested = c.requested
  BY <1>1, <1>3, SetProcessing
<1> HIDE DEF c2
<1> QED BY <1>2, <1>4


\* The connections when the delegate has accepted b.
DoneOf(b) ==
    [p \in Peer |-> IF Active(p) /\ b \in peers[p].processing THEN DoneSync(peers[p], b) ELSE peers[p]]

LEMMA DoneOfFacts ==
    ASSUME peers \in [Peer -> Connection], NEW b \in Block, NEW J, NEW K, b \in K
    PROVE  /\ DoneOf(b) \in [Peer -> Connection]
           /\ \A q \in Peer : /\ DoneOf(b)[q].conn = peers[q].conn
                              /\ DoneOf(b)[q].requested = peers[q].requested
                              /\ PeerOK(q, peers[q], J, K) => PeerOK(q, DoneOf(b)[q], J, K)
<1>1. ASSUME NEW q \in Peer
      PROVE  /\ DoneOf(b)[q] \in Connection /\ DoneOf(b)[q].conn = peers[q].conn
             /\ DoneOf(b)[q].requested = peers[q].requested
             /\ PeerOK(q, peers[q], J, K) => PeerOK(q, DoneOf(b)[q], J, K)
  <2> DEFINE c == peers[q]
             d == DoneSync(c, b)
  <2>1. DoneOf(b)[q] = c \/ DoneOf(b)[q] = d
    BY DEF DoneOf
  <2>2. c \in Connection
    OBVIOUS
  <2> HIDE DEF c
  <2>3. /\ d \in Connection /\ d.conn = c.conn /\ d.toGet = c.toGet /\ d.seen = b
        /\ d.asked = c.asked /\ d.requested = c.requested
    BY <2>2, DoneFacts
  <2> HIDE DEF d
  <2>4. b \in SafeBy(K)
    BY DEF SafeBy
  <2>5. PeerOK(q, c, J, K) => PeerOK(q, d, J, K)
    BY <2>3, <2>4, SeenSet
  <2> QED BY <2>1, <2>2, <2>3, <2>5 DEF c
<1>2. DoneOf(b) \in [Peer -> Connection]
  BY <1>1 DEF DoneOf
<1> QED BY <1>1, <1>2

\* What holds of the connections when the first call was a block that the delegate
\* has now.
LEMMA AcceptedOK ==
    ASSUME SyncConstants, SyncBase, FetchOK, jobs # << >>, NEW j, j = Head(jobs), NEW b,
           j.kind # "ask", j.kind = "sync" => j.block = b
    PROVE  /\ LinksIn(Tail(jobs), held.have \cup {b})
           /\ b \in HeldBy(held.have \cup {b}, Range(Tail(jobs)))
           /\ AllOK(peers, Range(Tail(jobs)), HeldBy(held.have \cup {b}, Range(Tail(jobs))))
<1> DEFINE ms == Tail(jobs)
           H == held.have
           I == H \cup {b}
           J == Range(jobs)
           M == Range(ms)
           K == HeldBy(H, J)
           L == HeldBy(I, M)
<1>1. jobs \in Seq(Job) /\ peers \in [Peer -> Connection] /\ LinksIn(jobs, H) /\ AllOK(peers, J, K)
  BY SyncTypes DEF SyncBase, FetchOK, FetchOf
<1>2. j \in Job /\ ms \in Seq(Job) /\ J = M \cup {j}
  BY Served
<1>3. LinksIn(ms, I)
  BY <1>1, LinksTail
<1> HIDE DEF ms, J, M, I
<1>4. K \subseteq L /\ b \in L
  BY <1>2, AcceptedHeld DEF I
<1> HIDE DEF K, L
<1>5. ASSUME NEW q \in Peer
      PROVE  PeerOK(q, peers[q], M, L)
  <2>1. Grows(K, L) /\ SameList(peers[q], peers[q])
    BY <1>4, SetGrows DEF SameList
  <2>2. CallsFor(q, J, M)
    BY <1>2 DEF CallsFor
  <2>3. PeerOK(q, peers[q], J, K) /\ peers[q].toGet \in Seq(Block)
    BY <1>1, ConnectionFields DEF AllOK
  <2> QED BY <2>1, <2>2, <2>3, PeerKept
<1>6. AllOK(peers, M, L)
  BY <1>5 DEF AllOK
<1> QED BY <1>3, <1>4, <1>6 DEF L, M, I, ms

\* The delegate accepts a block of the backlog.
LEMMA SyncAcceptedKeeps ==
    ASSUME SyncConstants, SyncInv, jobs # << >>, SyncAccepted(Head(jobs)), Elsewhere
    PROVE  SyncInv'
<1> DEFINE j == Head(jobs)
           b == j.block
           Bare(p) == peers[p].toGet = << >> /\ peers[p].processing = {}
           again == {p \in Peer : Active(p) /\ Bare(p) /\ ~peers[p].peerNeeds /\ ~peers[p].weNeed}
           done == DoneOf(b)
           empty == {p \in Peer : Active(p) /\ b \in peers[p].processing /\ NewlyEmpty(done[p])}
           t == "push"
           ms == Tail(jobs)
           M == Range(ms)
           I == held.have \cup {b}
           L == HeldBy(I, M)
<1>1. SyncBase /\ peers \in [Peer -> Connection] /\ overtaken \in BOOLEAN /\ due \subseteq {"fetch", "backlog"}
  BY SyncTypes DEF SyncInv, SyncBase, SyncTypeOK
<1>2. j \in Job
  BY <1>1, Served
<1>3. /\ j.kind = "sync" /\ Links(b) /\ held' = Pushed(b) /\ recent' = Remember(b)
      /\ GoOn(t, empty, again, done, ms, due)
  BY ZenonT(60) DEF SyncAccepted, DoneOf, DoneSync
<1>4. t \in {"read", "push", "backlog"}
  OBVIOUS
<1>5. again \subseteq Peer /\ empty \subseteq Peer /\ \A p \in empty \cup again : peers[p].conn = "active"
  BY DEF Active
<1> HIDE DEF again, empty, t
<1>6. b \in Block
  <2> HIDE DEF j
  <2> QED BY <1>2, <1>3, JobFields
<1>7. /\ held'.have = I /\ HaveOK' /\ recent' \in Seq(Block)
      /\ held' \in [have : SUBSET Block, head : Block]
  BY <1>1, <1>3, <1>6, AcceptFacts
<1>8. b \in L
  BY DEF HeldBy
<1>9. FetchOK => LinksIn(ms, I) /\ AllOK(peers, M, L)
  BY <1>1, <1>3, AcceptedOK
<1> HIDE DEF j, b, I, M, ms, L
<1>10. /\ done \in [Peer -> Connection]
       /\ \A q \in Peer : /\ done[q].conn = peers[q].conn /\ done[q].requested = peers[q].requested
                          /\ PeerOK(q, peers[q], M, L) => PeerOK(q, done[q], M, L)
  BY <1>1, <1>6, <1>8, DoneOfFacts
<1> HIDE DEF done
<1>11. SameRequests(peers, done) /\ StillOpen(peers, done)
  BY <1>10 DEF SameRequests, StillOpen
<1>12. Ready(done, ms)
  BY <1>1, <1>10, <1>11, ServedReady DEF ms
<1>13. \A p \in empty \cup again : done[p].conn # "closed"
  BY <1>5, <1>10
<1>14. MayGoOn(t, empty, again, done, ms, due)
  BY <1>1, <1>3, <1>4, <1>5, <1>12, <1>13 DEF MayGoOn
<1>15. FetchOK => FetchOf(done, ms, held'.have)
  BY <1>7, <1>9, <1>10 DEF FetchOf, AllOK, M, L
<1> QED BY <1>7, <1>14, <1>15, ServedOn

\* A connection that is dropped keeps its list.
LEMMA DropFacts ==
    ASSUME NEW c \in Connection
    PROVE  LET d == Disconnect(c) IN
           d \in Connection /\ SameList(c, d) /\ d.requested = c.requested
<1> DEFINE u == "closing"
           d == [c EXCEPT !.conn = u]
<1>1. u \in {"closed", "active", "closing"} /\ u # "closed" /\ Disconnect(c) = d
  BY DEF Disconnect
<1> HIDE DEF u
<1>2. d \in Connection /\ SameList(c, d) /\ d.requested = c.requested
  BY <1>1, SetConn DEF SameList
<1> HIDE DEF d
<1> QED BY <1>1, <1>2


\* Some connections are dropped.
Dropped(A) == [p \in Peer |-> IF p \in A THEN Disconnect(peers[p]) ELSE peers[p]]

LEMMA SomeDropped ==
    ASSUME peers \in [Peer -> Connection], NEW A
    PROVE  /\ Dropped(A) \in [Peer -> Connection]
           /\ SameRequests(peers, Dropped(A)) /\ StillOpen(peers, Dropped(A))
           /\ \A p \in Peer : SameList(peers[p], Dropped(A)[p])
<1>1. ASSUME NEW p \in Peer
      PROVE  /\ Dropped(A)[p] \in Connection /\ SameList(peers[p], Dropped(A)[p])
             /\ Dropped(A)[p].requested = peers[p].requested
  <2> DEFINE c == peers[p]
             d == Dropped(A)[p]
  <2>1. c \in Connection /\ (d = Disconnect(c) \/ d = c)
    BY DEF Dropped
  <2> HIDE DEF c, d
  <2>2. SameList(c, c)
    BY DEF SameList
  <2>3. d \in Connection /\ SameList(c, d) /\ d.requested = c.requested
    BY <2>1, <2>2, DropFacts
  <2> QED BY <2>3 DEF c, d
<1>2. Dropped(A) \in [Peer -> Connection]
  BY <1>1 DEF Dropped
<1> QED BY <1>1, <1>2 DEF SameRequests, StillOpen, SameList

\* What holds of the connections when some are dropped and a call that was not for
\* a synopsis was served.
LEMMA DroppedOK ==
    ASSUME peers \in [Peer -> Connection], NEW A, NEW J, NEW M, NEW K, NEW L, AllOK(peers, J, K),
           Grows(K, L), M \subseteq J, \A j \in J : j.kind = "ask" => j \in M
    PROVE  AllOK(Dropped(A), M, L)
<1>1. ASSUME NEW p \in Peer
      PROVE  PeerOK(p, Dropped(A)[p], M, L)
  <2>1. peers[p].toGet \in Seq(Block) /\ PeerOK(p, peers[p], J, K)
    BY ConnectionFields DEF AllOK
  <2>2. SameList(peers[p], Dropped(A)[p])
    BY SomeDropped
  <2>3. CallsFor(p, J, M)
    BY DEF CallsFor
  <2> QED BY <2>1, <2>2, <2>3, PeerKept
<1> QED BY <1>1 DEF AllOK

\* Only an invalid block is rejected: the parent of the block is there.
LEMMA RejectedOK ==
    ASSUME SyncConstants, SyncBase, FetchOK, jobs # << >>, NEW j, j = Head(jobs), NEW A,
           j.kind = "sync", ~Links(j.block) \/ Fails(j.block)
    PROVE  FetchOf(Dropped(A), Tail(jobs), held.have)
<1> DEFINE b == j.block
           ms == Tail(jobs)
           H == held.have
           J == Range(jobs)
           M == Range(ms)
           K == HeldBy(H, J)
           L == HeldBy(H, M)
<1>1. jobs \in Seq(Job) /\ peers \in [Peer -> Connection] /\ LinksIn(jobs, H) /\ AllOK(peers, J, K)
  BY SyncTypes DEF SyncBase, FetchOK, FetchOf
<1>2. j \in Job /\ ms \in Seq(Job) /\ J = M \cup {j}
  BY Served
<1>3. Parent(b) \in H \cup {NoBlock}
  <2>1. jobs[1] = j /\ 1 \in 1 .. Len(jobs) /\ 1 - 1 = 0
    BY <1>1, RangeOfTail
  <2>2. Parent(b) \in HeldBy(H, FirstOf(jobs, 0))
    BY <1>1, <2>1 DEF LinksIn
  <2>3. FirstOf(jobs, 0) = {}
    BY DEF FirstOf
  <2> QED BY <2>2, <2>3, PendFacts DEF HeldBy
<1>4. b \in Block
  BY <1>2, JobFields
<1>5. b \in Invalid /\ \A x \in Block : Parent(x) # b
  <2>1. Links(b)
    BY <1>3 DEF Links
  <2>2. b \in Invalid
    BY <2>1 DEF Fails
  <2> HIDE DEF b
  <2> QED BY <2>2 DEF SyncConstants
<1>6. LinksIn(ms, H)
  BY <1>1, <1>5, LinksTail
<1> HIDE DEF ms, J, M
<1>7. Grows(K, L)
  <2>1. \A x \in K : x = b \/ x \in L
    <3>1. ASSUME NEW x \in PendOf(J)
          PROVE  x = b \/ x \in PendOf(M)
      BY <1>2, <3>1 DEF PendOf
    <3> QED BY <3>1 DEF HeldBy
  <2>2. Parent(b) \in L
    BY <1>3 DEF HeldBy
  <2> HIDE DEF K, L, b
  <2>3. \A x \in Block : Parent(x) \in K => Parent(x) \in L
    BY <1>5, <2>1
  <2>4. SafeBy(K) \subseteq SafeBy(L)
    BY <1>4, <1>5, <2>1, <2>2, <2>3 DEF SafeBy
  <2> QED BY <2>3, <2>4 DEF Grows
<1>8. M \subseteq J /\ \A k \in J : k.kind = "ask" => k \in M
  BY <1>2
<1> HIDE DEF K, L
<1>9. AllOK(Dropped(A), M, L)
  BY <1>1, <1>7, <1>8, DroppedOK
<1> QED BY <1>6, <1>9 DEF FetchOf, L, M, ms

LEMMA SyncRejectedKeeps ==
    ASSUME SyncConstants, SyncInv, jobs # << >>, SyncRejected(Head(jobs)), Elsewhere
    PROVE  SyncInv'
<1> DEFINE j == Head(jobs)
           b == j.block
           A == {p \in Peer : Active(p) /\ b \in peers[p].processing}
           raw == [p \in Peer |-> IF Active(p) /\ b \in peers[p].processing
                                  THEN Disconnect(peers[p]) ELSE peers[p]]
           ds == Dropped(A)
           ms == Tail(jobs)
           t == "push"
           none == {}
<1>1. SyncBase /\ peers \in [Peer -> Connection] /\ overtaken \in BOOLEAN /\ due \subseteq {"fetch", "backlog"}
  BY SyncTypes DEF SyncInv, SyncBase, SyncTypeOK
<1>2. /\ j.kind = "sync" /\ (~Links(b) \/ Fails(b)) /\ GoOn(t, none, none, raw, ms, due)
      /\ UNCHANGED << held, recent >>
  BY ZenonT(30) DEF SyncRejected
<1>3. raw = ds
  <2>1. \A p \in Peer : p \in A <=> Active(p) /\ b \in peers[p].processing
    OBVIOUS
  <2> HIDE DEF A
  <2> QED BY <2>1 DEF Dropped
<1> HIDE DEF raw, A
<1>4. ds \in [Peer -> Connection] /\ SameRequests(peers, ds) /\ StillOpen(peers, ds)
  BY <1>1, SomeDropped
<1>5. FetchOK => FetchOf(ds, ms, held'.have)
  BY <1>1, <1>2, RejectedOK
<1>6. t \in {"read", "push", "backlog"} /\ none \subseteq Peer /\ \A p \in none \cup none : ds[p].conn # "closed"
  OBVIOUS
<1> HIDE DEF ds, t, none
<1>7. Ready(ds, ms)
  BY <1>1, <1>4, ServedReady
<1> HIDE DEF ms
<1>8. MayGoOn(t, none, none, ds, ms, due)
  BY <1>1, <1>2, <1>3, <1>6, <1>7 DEF MayGoOn
<1>9. HaveOK' /\ held' \in [have : SUBSET Block, head : Block] /\ recent' \in Seq(Block)
  BY <1>1, <1>2, SameHeld
<1> QED BY <1>5, <1>8, <1>9, ServedOn


\* The step of an advertised block, which triggers no task.
LEMMA NormalOn ==
    ASSUME SyncInv, Elsewhere, UNCHANGED << due, overtaken >>, HaveOK',
           held' \in [have : SUBSET Block, head : Block], recent' \in Seq(Block),
           Ready(peers', jobs'), FetchOK => FetchOf(peers', jobs', held'.have)
    PROVE  SyncInv'
<1>1. RestTyped'
  BY DEF SyncInv, SyncBase, SyncTypeOK, RestTyped, Elsewhere
<1>2. UNCHANGED << active, lacking >>
  BY DEF Elsewhere
<1> QED BY <1>1, <1>2, TaskDone

\* An advertised block does not link: the connection of its peer starts anew.
LEMMA AnewOK ==
    ASSUME SyncConstants, SyncBase, FetchOK, jobs # << >>, NEW j, j = Head(jobs), j.kind = "normal",
           NEW p \in Peer, j.peer = p, NEW d \in Connection, d = StartSync(peers[p]), NEW a \in Job, CallFor(a, p, d, p)
    PROVE  FetchOf([peers EXCEPT ![p] = d], Append(Tail(jobs), a), held.have)
<1> DEFINE c == peers[p]
           cs == [peers EXCEPT ![p] = d]
           ms == Tail(jobs)
           ns == Append(ms, a)
           H == held.have
           J == Range(jobs)
           M == Range(ms)
           N == Range(ns)
           K == HeldBy(H, J)
<1>1. jobs \in Seq(Job) /\ peers \in [Peer -> Connection] /\ LinksIn(jobs, H) /\ AllOK(peers, J, K)
  BY SyncTypes DEF SyncBase, FetchOK, FetchOf
<1>2. j \in Job /\ ms \in Seq(Job) /\ J = M \cup {j} /\ CallOK(j, peers)
  BY Served
<1>3. LinksIn(ms, H)
  BY <1>1, LinksTail
<1>4. j.handler = p /\ c.conn # "closed"
  <2>1. p # Nobody
    BY NoOthers
  <2> QED BY <1>2, <2>1 DEF CallOK
<1>5. c \in Connection /\ c.toGet \in Seq(Block) /\ PeerOK(p, c, J, K)
  BY <1>1, ConnectionFields DEF AllOK
<1>6. /\ d.conn = c.conn /\ d.toGet = << >> /\ d.seen = NoBlock /\ d.asked = c.asked
  BY <1>5, StartFacts
<1>7. a.kind = "ask" /\ a.peer = p
  BY DEF CallFor
<1> HIDE DEF ms, J, M
<1>8. ns \in Seq(Job) /\ N = M \cup {a}
  BY <1>2, RangeOfAppend DEF M
<1>9. LinksIn(ns, H)
  BY <1>2, <1>3, <1>7, LinksAppend
<1> HIDE DEF ns, N, c
<1>10. HeldBy(H, M) = K
  BY <1>2, NoBlockServed
<1>11. HeldBy(H, N) = HeldBy(H, M)
  BY <1>7, <1>8, NoBlockServed
<1>12. NoBlock \in K /\ Nobody \notin Peer
  BY EmptyList, NoOthers
<1>13. M \subseteq J /\ \A k \in J : k.kind = "ask" => k \in M
  BY <1>2
<1> HIDE DEF K
<1>14. PeerOK(p, c, M, K)
  <2>1. Grows(K, K) /\ SameList(c, c) /\ CallsFor(p, J, M)
    BY <1>13, SetGrows DEF SameList, CallsFor
  <2> QED BY <1>5, <2>1, PeerKept
<1>15. ASSUME NEW k \in M, k.kind = "ask", k.peer = p
       PROVE  k.ids = << >>
  <2>1. AskOK(k, c, J, K)
    BY <1>5, <1>13, <1>15 DEF PeerOK, AsksOK
  <2>2. j \in J /\ j.kind = "normal" /\ j.handler = k.peer
    BY <1>2, <1>4, <1>15
  <2> QED BY <2>1, <2>2 DEF AskOK
<1>16. PeerOK(p, d, M \cup {a}, K)
  BY <1>4, <1>5, <1>6, <1>12, <1>14, <1>15, Restarted
<1>17. ASSUME NEW q \in Peer, q # p
       PROVE  PeerOK(q, peers[q], N, K)
  <2>1. Grows(K, K) /\ SameList(peers[q], peers[q])
    BY SetGrows DEF SameList
  <2>2. CallsFor(q, J, N)
    BY <1>7, <1>8, <1>13, <1>17 DEF CallsFor
  <2>3. PeerOK(q, peers[q], J, K) /\ peers[q].toGet \in Seq(Block)
    BY <1>1, ConnectionFields DEF AllOK
  <2> QED BY <2>1, <2>2, <2>3, PeerKept
<1>18. cs[p] = d /\ \A q \in Peer : q # p => cs[q] = peers[q]
  BY <1>1
<1> HIDE DEF cs
<1>19. AllOK(cs, N, K)
  <2>1. ASSUME NEW q \in Peer
        PROVE  PeerOK(q, cs[q], N, K)
    <3>1. CASE q = p
      BY <1>8, <1>16, <1>18, <3>1
    <3>2. CASE q # p
      BY <1>17, <1>18, <3>2
    <3> QED BY <3>1, <3>2
  <2> QED BY <2>1 DEF AllOK
<1> QED BY <1>9, <1>10, <1>11, <1>19 DEF FetchOf, N, ns, ms, cs

\* A block that a peer advertised was pushed, or could not be.
LEMMA NormalPushedKeeps ==
    ASSUME SyncConstants, SyncInv, jobs # << >>, NormalPushed(Head(jobs)), Elsewhere
    PROVE  SyncInv'
<1> DEFINE j == Head(jobs)
           p == j.peer
           b == j.block
           c == peers[p]
           d == StartSync(c)
           a == Ask(p, d)
           ms == Tail(jobs)
           H == held.have
           drop(q) == q = p \/ (Active(q) /\ peers[q].toGet # << >> /\ Head(peers[q].toGet) = b)
           Accepts == /\ Links(b) /\ held' = Pushed(b) /\ recent' = Remember(b)
                      /\ peers' = SeenBy(b) /\ jobs' = ms
           Starts == /\ peers' = [peers EXCEPT ![p] = d] /\ jobs' = Append(ms, a)
                     /\ UNCHANGED << held, recent >>
           Drops == /\ peers' = [q \in Peer |-> IF drop(q) THEN Disconnect(peers[q]) ELSE peers[q]]
                    /\ jobs' = ms /\ UNCHANGED << held, recent >>
<1>1. SyncBase /\ peers \in [Peer -> Connection]
  BY SyncTypes DEF SyncInv, SyncBase
<1>2. j \in Job /\ CallOK(j, peers) /\ ms \in Seq(Job) /\ Range(jobs) = Range(ms) \cup {j}
  BY <1>1, Served
<1>3. j.kind = "normal" /\ UNCHANGED << due, overtaken >>
  BY DEF NormalPushed
<1>4. Accepts \/ Starts \/ Drops
  BY ZenonT(30) DEF NormalPushed
<1> HIDE DEF Accepts, Starts, Drops
<1>5. p \in Peer /\ b \in Block /\ j.handler = p /\ c \in Connection
  <2> HIDE DEF j
  <2>1. p \in Peer /\ b \in Block /\ j.handler = p
    BY <1>2, <1>3, JobFields DEF CallOK
  <2> QED BY <1>1, <2>1
<1>6. c.conn # "closed"
  <2>1. p # Nobody
    BY <1>5, NoOthers
  <2> QED BY <1>2, <1>5, <2>1 DEF CallOK
<1>7. UNCHANGED << held, recent >> =>
          HaveOK' /\ held' \in [have : SUBSET Block, head : Block] /\ recent' \in Seq(Block)
  BY <1>1, SameHeld
<1>8. CASE Accepts
  <2> DEFINE I == H \cup {b}
             M == Range(ms)
             L == HeldBy(I, M)
             cs == SeenBy(b)
  <2>1. Links(b) /\ held' = Pushed(b) /\ recent' = Remember(b) /\ peers' = cs /\ jobs' = ms
    BY <1>8 DEF Accepts
  <2>2. held'.have = I /\ HaveOK' /\ recent' \in Seq(Block) /\ held' \in [have : SUBSET Block, head : Block]
    BY <1>1, <1>5, <2>1, AcceptFacts
  <2>3. b \in L
    BY DEF HeldBy
  <2>4. FetchOK => LinksIn(ms, I) /\ AllOK(peers, M, L)
    BY <1>1, <1>3, AcceptedOK
  <2> HIDE DEF j, b, I, M, L, ms
  <2>5. /\ cs \in [Peer -> Connection]
        /\ \A q \in Peer : /\ cs[q].conn = peers[q].conn /\ cs[q].requested = peers[q].requested
                           /\ PeerOK(q, peers[q], M, L) => PeerOK(q, cs[q], M, L)
    BY <1>1, <1>5, <2>3, SeenByFacts
  <2> HIDE DEF cs
  <2>6. SameRequests(peers, cs) /\ StillOpen(peers, cs)
    BY <2>5 DEF SameRequests, StillOpen
  <2>7. Ready(cs, ms)
    BY <1>1, <2>5, <2>6, ServedReady DEF ms
  <2>8. FetchOK => FetchOf(cs, ms, held'.have)
    BY <2>2, <2>4, <2>5 DEF FetchOf, AllOK, L, M
  <2> QED BY <1>3, <2>1, <2>2, <2>7, <2>8, NormalOn
<1>9. CASE Starts
  <2> DEFINE cs == [peers EXCEPT ![p] = d]
  <2>1. peers' = cs /\ jobs' = Append(ms, a) /\ UNCHANGED << held, recent >>
    BY <1>9 DEF Starts
  <2>2. d \in Connection /\ d.conn = c.conn /\ d.requested = c.requested
    BY <1>5, StartFacts
  <2>3. CalledFor(p, a) /\ CallFor(a, p, d, p)
    BY <1>5, <2>2, AskCalled
  <2>4. a \in Job
    BY <2>3 DEF CalledFor
  <2>5. FetchOK => FetchOf(cs, Append(ms, a), H)
    BY <1>1, <1>3, <1>5, <2>2, <2>3, <2>4, AnewOK
  <2> HIDE DEF d, a, p
  <2>6. /\ cs \in [Peer -> Connection] /\ cs[p] = d
        /\ \A q \in Peer : cs[q].conn = peers[q].conn /\ cs[q].requested = peers[q].requested
    BY <1>1, <1>5, <2>2
  <2> HIDE DEF cs
  <2>7. SameRequests(peers, cs) /\ StillOpen(peers, cs)
    BY <2>6 DEF SameRequests, StillOpen
  <2>8. Ready(cs, ms)
    BY <1>1, <2>6, <2>7, ServedReady
  <2> HIDE DEF ms, c
  <2>9. CallOK(a, cs)
    BY <1>5, <1>6, <2>2, <2>3, <2>6 DEF CalledFor, CallOK
  <2>10. Append(ms, a) \in Seq(Job) /\ Range(Append(ms, a)) = Range(ms) \cup {a}
    BY <1>2, <2>4, RangeOfAppend
  <2>11. Ready(cs, Append(ms, a))
    BY <2>8, <2>9, <2>10 DEF Ready, TasksOf
  <2>12. FetchOK => FetchOf(peers', jobs', held'.have)
    BY <2>1, <2>5
  <2> QED BY <1>3, <1>7, <2>1, <2>11, <2>12, NormalOn
<1>10. CASE Drops
  <2> DEFINE A == {q \in Peer : drop(q)}
             cs == Dropped(A)
             J == Range(jobs)
             M == Range(ms)
             K == HeldBy(H, J)
  <2>1. peers' = cs /\ jobs' = ms /\ UNCHANGED << held, recent >>
    <3>1. /\ peers' = [q \in Peer |-> IF drop(q) THEN Disconnect(peers[q]) ELSE peers[q]]
          /\ jobs' = ms /\ UNCHANGED << held, recent >>
      BY <1>10 DEF Drops
    <3>2. \A q \in Peer : q \in A <=> drop(q)
      OBVIOUS
    <3> HIDE DEF A, drop
    <3> QED BY <3>1, <3>2 DEF Dropped
  <2> HIDE DEF A
  <2>2. cs \in [Peer -> Connection] /\ SameRequests(peers, cs) /\ StillOpen(peers, cs)
    BY <1>1, SomeDropped
  <2>3. Ready(cs, ms)
    BY <1>1, <2>2, ServedReady
  <2>4. ASSUME FetchOK
        PROVE  FetchOf(cs, ms, H)
    <3>1. jobs \in Seq(Job) /\ LinksIn(jobs, H) /\ AllOK(peers, J, K)
      BY <1>1, <2>4, SyncTypes DEF SyncBase, FetchOK, FetchOf
    <3>2. LinksIn(ms, H)
      BY <1>3, <3>1, LinksTail
    <3> HIDE DEF j, ms, J, M
    <3>3. HeldBy(H, M) = K
      BY <1>2, <1>3, NoBlockServed DEF J, M
    <3>4. M \subseteq J /\ \A k \in J : k.kind = "ask" => k \in M
      BY <1>2, <1>3 DEF J, M
    <3> HIDE DEF K
    <3>5. Grows(K, K)
      BY SetGrows
    <3>6. AllOK(cs, M, K)
      BY <1>1, <3>1, <3>4, <3>5, DroppedOK
    <3> QED BY <3>2, <3>3, <3>6 DEF FetchOf, M
  <2> QED BY <1>3, <1>7, <2>1, <2>3, <2>4, NormalOn
<1> QED BY <1>4, <1>8, <1>9, <1>10

\* Whatever the next call is.
LEMMA DelegateKeeps ==
    ASSUME SyncConstants, SyncInv, Delegate
    PROVE  SyncInv'
<1>1. jobs # << >> /\ Elsewhere
  BY DEF Delegate, Elsewhere
<1>2. \/ SendFetchIds(Head(jobs)) \/ SyncAccepted(Head(jobs))
      \/ SyncRejected(Head(jobs)) \/ NormalPushed(Head(jobs))
  BY DEF Delegate
<1> QED BY <1>1, <1>2, SendKeeps, SyncAcceptedKeeps, SyncRejectedKeeps, NormalPushedKeeps

-----------------------------------------------------------------------------
(* The theorems.                                                           *)

\* The delegate has its own chain at first, and nothing is asked of anyone.
LEMMA SyncStarts ==
    ASSUME SyncConstants, SyncInit
    PROVE  SyncInv
<1> DEFINE H == Range(Path[StartHead])
           h == StartHead
           c == NewConnection
<1>1. h \in Block /\ Path[h] \in Seq(Block) /\ Len(Path[h]) = Num(h) /\ Path[h][Num(h)] = h /\ Num(h) > 0
      /\ Num(h) \in Nat
  BY TreeFacts DEF SyncConstants
<1>2. held = [have |-> H, head |-> h]
  BY DEF SyncInit
<1>3. H \subseteq Block /\ h \in H
  BY <1>1, RangeIs
<1>4. \A b \in H : Parent(b) \in H \cup {NoBlock}
  <2>1. ASSUME NEW b \in H
        PROVE  Parent(b) \in H \cup {NoBlock}
    <3>1. PICK i \in 1 .. Num(h) : Path[h][i] = b
      BY <1>1, <2>1, RangeIs
    <3>2. Parent(b) = IF i = 1 THEN NoBlock ELSE Path[h][i - 1]
      BY <1>1, <3>1, PathFacts DEF OnPath
    <3>3. i # 1 => i - 1 \in 1 .. Num(h)
      BY <1>1
    <3>4. i # 1 => Path[h][i - 1] \in H
      BY <1>1, <3>3, RangeIs
    <3> QED BY <3>2, <3>4
  <2> QED BY <2>1
<1> HIDE DEF H, h
<1>5. held.have = H /\ held.head = h /\ held \in [have : SUBSET Block, head : Block]
  BY <1>1, <1>2, <1>3
<1>6. recent = <<h>> /\ jobs = << >> /\ peers = [p \in Peer |-> c]
  BY DEF SyncInit, h
<1>7. /\ c \in Connection /\ c.conn = "closed" /\ c.toGet = << >> /\ c.seen = NoBlock
      /\ c.asked = {} /\ c.requested = << >>
  BY NewFacts
<1> HIDE DEF c
<1>8. \A p \in Peer : peers[p] = c
  BY <1>6
<1>9. peers \in [Peer -> Connection]
  BY <1>6, <1>7
<1>10. recent \in Seq(Block) /\ Range(recent) = {h}
  BY <1>1, <1>6 DEF Range
<1>11. SyncTypeOK
  <2>1. /\ tip = StartTip /\ active = {} /\ arrived = << >> /\ received = << >> /\ due = {}
        /\ suspended = FALSE /\ connects = 0
    BY DEF SyncInit
  <2>2. overtaken = FALSE /\ missed = {} /\ skipped = {} /\ lacking = {}
    BY DEF SyncInit
  <2>3. tip \in [Peer -> Block \cup {NoBlock}]
    BY <2>1 DEF SyncConstants
  <2>4. jobs \in Seq(Job)
    BY <1>6
  <2>5. suspended \in BOOLEAN /\ overtaken \in BOOLEAN
    BY <2>1, <2>2
  <2>6. /\ active \subseteq Block /\ due \subseteq {"fetch", "backlog"} /\ connects \in Nat
        /\ missed \subseteq Block /\ skipped \subseteq Peer /\ lacking \subseteq Block
    BY <2>1, <2>2
  <2>7. arrived \in Seq(Block) /\ received \in Seq(Block)
    BY <2>1
  <2> QED BY <1>5, <1>9, <1>10, <2>3, <2>4, <2>5, <2>6, <2>7 DEF SyncTypeOK
<1>12. HaveOK
  BY <1>3, <1>4, <1>5, <1>10 DEF HaveOK
<1>13. Range(jobs) = {}
  BY <1>6, EmptyList
<1>14. TasksOf(peers, Range(jobs))
  BY <1>13 DEF TasksOf
<1>15. FetchOK
  <2> DEFINE K == HeldBy(held.have, Range(jobs))
  <2>1. NoBlock \in SafeBy(K)
    BY EmptyList DEF SafeBy
  <2>2. ListOK(c, K)
    BY <1>7, <2>1, EmptyList DEF ListOK
  <2>3. \A p \in Peer : PeerOK(p, c, Range(jobs), K)
    BY <1>7, <1>13, <2>2 DEF PeerOK, AsksOK, AskedOK
  <2>4. LinksIn(jobs, held.have)
    BY <1>6 DEF LinksIn
  <2> QED BY <1>8, <2>3, <2>4 DEF FetchOK, FetchOf, AllOK
<1>16. active = {} /\ lacking = {}
  BY DEF SyncInit
<1>17. Range(<< >>) = {} /\ IsInjective(<< >>)
  BY EmptyList DEF IsInjective
<1>18. OneRequestEach
  <2>1. \A p \in Peer : peers[p].requested = << >> /\ Range(peers[p].requested) = {}
    BY <1>7, <1>8, <1>17
  <2>2. active = lacking \cup UNION { Range(peers[p].requested) : p \in Peer }
    BY <1>16, <2>1
  <2> QED BY <1>17, <2>1, <2>2 DEF OneRequestEach
<1>19. RefusedApart
  BY <1>7, <1>8, <1>16 DEF RefusedApart
<1> QED BY <1>11, <1>12, <1>14, <1>15, <1>18, <1>19 DEF SyncInv, SyncBase


\* Every step keeps the invariant.
LEMMA SyncGoesOn ==
    ASSUME SyncConstants, SyncInv, [SyncNext]_syncVars
    PROVE  SyncInv'
<1>1. CASE UNCHANGED syncVars
  <2>1. UNCHANGED << peers, tip, held, active, arrived, received, recent, jobs, due, suspended, connects,
                     overtaken, missed, skipped, lacking >>
    BY <1>1 DEF syncVars, noted
  <2>2. RestTyped'
    BY <2>1 DEF SyncInv, SyncBase, SyncTypeOK, RestTyped
  <2> QED BY <2>1, <2>2, NothingChanges
<1>2. CASE FetchSyncItems
  BY <1>2, FetchItemsKeeps
<1>3. CASE ProcessBacklog
  BY <1>3, ProcessBacklogKeeps
<1>4. CASE Delegate
  BY <1>4, DelegateKeeps
<1>5. ASSUME NEW p \in Peer,
             \/ Connect(p) \/ ConnectionClosed(p) \/ TerminateInactive(p) \/ AdoptChain(p)
             \/ SyncBlock(p) \/ ItemNotAvailable(p)
             \/ RequestBlock(p) \/ FetchBlockchainItemIds(p)
      PROVE  SyncInv'
  BY <1>5, ConnectKeeps, ConnectionClosedKeeps, TerminateKeeps, AdoptKeeps, SyncBlockKeeps,
     ItemNotAvailableKeeps, RequestBlockKeeps, FetchIdsKeeps
<1>6. ASSUME NEW p \in Peer, NEW b \in peers[p].normal, NormalBlock(p, b) \/ NormalNotAvailable(p, b)
      PROVE  SyncInv'
  BY <1>6, NormalBlockKeeps, NormalNotAvailableKeeps
<1>7. ASSUME NEW p \in Peer, NEW ids \in Replies(p), BlockchainItemIdsInventory(p, ids)
      PROVE  SyncInv'
  BY <1>7, InventoryKeeps
<1> QED BY <1>1, <1>2, <1>3, <1>4, <1>5, <1>6, <1>7 DEF SyncNext

\* The calls under way, the connections and the requests stay consistent whatever
\* the peers do; and so do the lists of the connections with the blocks that the
\* delegate has, as long as no task called for a connection that had got a list.
THEOREM SyncSafety == SyncSpec => []SyncInv
<1>1. SyncInit => SyncInv
  BY SyncAssumption, SyncStarts
<1>2. SyncInv /\ [SyncNext]_syncVars => SyncInv'
  BY SyncAssumption, SyncGoesOn
<1> QED BY <1>1, <1>2, PTL DEF SyncSpec

\* The variables of node_impl and of its connections keep their types.
THEOREM SyncTypeCorrect == SyncSpec => []SyncTypeOK
<1>1. SyncInv => SyncTypeOK
  BY DEF SyncInv, SyncBase
<1> QED BY <1>1, SyncSafety, PTL

\* Every block that process_backlog_of_sync_blocks passes to the delegate builds
\* on a block that the delegate has or was passed before, unless a task called for
\* a connection that had got a list: send_sync_block_to_node_delegate rejects a
\* block only when it is invalid itself.
THEOREM PassedBlocksLink == SyncSpec => []BlocksLink
<1>1. SyncInv => BlocksLink
  <2> SUFFICES ASSUME SyncInv
               PROVE  BlocksLink
    OBVIOUS
  <2>1. CASE overtaken
    BY <2>1 DEF BlocksLink
  <2>2. CASE ~overtaken
    <3>1. SyncTypeOK /\ LinksIn(jobs, held.have)
      BY <2>2 DEF SyncInv, SyncBase, FetchOK, FetchOf
    <3> QED BY <3>1, LinksMeans
  <2> QED BY <2>1, <2>2
<1> QED BY <1>1, SyncSafety, PTL

\* fetch_sync_items_loop requests a block from one peer at a time, and
\* _active_sync_requests holds what is waited for and what a peer refused.
THEOREM RequestedFromOne == SyncSpec => []OneRequestEach
<1>1. SyncInv => OneRequestEach
  BY DEF SyncInv, SyncBase
<1> QED BY <1>1, SyncSafety, PTL
=============================================================================
