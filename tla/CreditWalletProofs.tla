------------------------- MODULE CreditWalletProofs -------------------------
(***************************************************************************)
(* Proofs about CreditWallet, for any finite sets of keys and purchase      *)
(* requests, any devices and accounts, and any starter grant, cost and pack.*)
(* Every operation settles the wallet (releaseExpiredReservations) and then *)
(* commits one Write; so the argument is made once about a settled wallet   *)
(* and once about Write, and each action only supplies the row it writes.   *)
(***************************************************************************)
EXTENDS CreditWallet, Sequences, FiniteSetTheorems, TLAPS

OpenKeys(res) == {k \in Keys : res[k] = "reserved"}

Balanced(r, res) ==
    r.available + Cost * Cardinality(OpenKeys(res)) + r.spent = r.granted

Reservations == [Keys -> Statuses]

\* An overdue reservation is still an open one, and a wallet that was never
\* opened has none: without these the expiry pass could refund what it owes to
\* no one.
OverdueIsOpen == \A p \in overdue : reservation[p[1]][p[2]] = "reserved"

UnopenedIsEmpty ==
    \A w \in Devices \ wallets : \A k \in Keys : reservation[w][k] = "none"

BalanceInv ==
    /\ TypeOK
    /\ OverdueIsOpen
    /\ UnopenedIsEmpty
    /\ \A w \in wallets : Balanced(row[w], reservation[w])

-----------------------------------------------------------------------------
\* Counting: open keys of a wallet are finitely many, and taking out a set of
\* them or adding one changes the held credits accordingly.
LEMMA OpenKeysFinite ==
    ASSUME NEW res
    PROVE  IsFiniteSet(OpenKeys(res)) /\ Cardinality(OpenKeys(res)) \in Nat
<1>1. OpenKeys(res) \in SUBSET Keys
    BY DEF OpenKeys
<1>2. IsFiniteSet(OpenKeys(res))
    BY <1>1, CreditAssumption, FS_Subset DEF CreditAssumption
<1> QED
    BY <1>2, FS_CardinalityType

LEMMA Distribute ==
    ASSUME NEW n \in Nat, NEW m \in Nat
    PROVE  /\ Cost * n \in Nat
           /\ Cost * (n + 1) = Cost * n + Cost
           /\ m <= n => Cost * (n - m) = Cost * n - Cost * m
    BY CreditAssumption DEF CreditAssumption

LEMMA HoldOne ==
    ASSUME NEW res \in Reservations, NEW k \in Keys, res[k] # "reserved"
    PROVE  Cost * Cardinality(OpenKeys([res EXCEPT ![k] = "reserved"]))
               = Cost * Cardinality(OpenKeys(res)) + Cost
<1>1. OpenKeys([res EXCEPT ![k] = "reserved"]) = OpenKeys(res) \cup {k}
    BY DEF OpenKeys, Reservations
<1>2. k \notin OpenKeys(res)
    BY DEF OpenKeys
<1>3. Cardinality(OpenKeys(res) \cup {k}) = Cardinality(OpenKeys(res)) + 1
    BY <1>2, OpenKeysFinite, FS_AddElement
<1> QED
    BY <1>1, <1>3, OpenKeysFinite, Distribute

LEMMA FreeOne ==
    ASSUME NEW res \in Reservations, NEW k \in Keys, res[k] = "reserved",
           NEW s \in Statuses, s # "reserved"
    PROVE  Cost * Cardinality(OpenKeys([res EXCEPT ![k] = s]))
               = Cost * Cardinality(OpenKeys(res)) - Cost
<1> DEFINE rest == OpenKeys([res EXCEPT ![k] = s])
<1>1. OpenKeys(res) = rest \cup {k} /\ k \notin rest
    BY DEF OpenKeys, Reservations
<1>2. Cardinality(OpenKeys(res)) = Cardinality(rest) + 1
    BY <1>1, OpenKeysFinite, FS_AddElement
<1>3. Cardinality(rest) \in Nat
    BY OpenKeysFinite
<1>4. Cost * (Cardinality(rest) + 1) = Cost * Cardinality(rest) + Cost
    BY <1>3, Distribute
<1>5. Cost * Cardinality(rest) \in Nat
    BY <1>3, Distribute
<1>6. Cost \in Nat
    BY CreditAssumption DEF CreditAssumption
<1> HIDE DEF rest
<1>7. Cost * Cardinality(OpenKeys(res)) = Cost * Cardinality(rest) + Cost
    BY <1>2, <1>4
<1>8. Cost * Cardinality(rest) = Cost * Cardinality(OpenKeys(res)) - Cost
    BY <1>7, <1>5, <1>6
<1> QED
    BY <1>8 DEF rest

-----------------------------------------------------------------------------
\* The expiry pass keeps a wallet balanced: what it refunds is what the lapsed
\* reservations held.
LEMMA DueIsFinite ==
    ASSUME NEW w
    PROVE  IsFiniteSet(Due(w)) /\ Cardinality(Due(w)) \in Nat
<1>1. Due(w) \in SUBSET Keys
    BY DEF Due
<1> QED
    BY <1>1, CreditAssumption, FS_Subset, FS_CardinalityType
       DEF CreditAssumption

LEMMA SettleOpen ==
    ASSUME BalanceInv, NEW w \in Devices
    PROVE  /\ Settled(w) \in Reservations
           /\ OpenKeys(Settled(w)) = OpenKeys(reservation[w]) \ Due(w)
           /\ Due(w) \subseteq OpenKeys(reservation[w])
<1>1. reservation[w] \in Reservations
    BY DEF BalanceInv, TypeOK, Reservations
<1> QED
    BY <1>1 DEF Settled, Due, Reservations, OpenKeys, Statuses, BalanceInv,
                OverdueIsOpen

LEMMA ReleasedType ==
    ASSUME BalanceInv, NEW w \in Devices
    PROVE  /\ Released(w) \in Rows
           /\ Released(w).available = row[w].available + Cost * Cardinality(Due(w))
           /\ Released(w).granted = row[w].granted
           /\ Released(w).spent = row[w].spent
           /\ Released(w).account = row[w].account
<1>1. row[w] \in Rows
    BY DEF BalanceInv, TypeOK
<1>2. Cost * Cardinality(Due(w)) \in Nat
    BY DueIsFinite, Distribute
<1> QED
    BY <1>1, <1>2 DEF Released, Rows

LEMMA ReleasedBalanced ==
    ASSUME BalanceInv, NEW w \in wallets
    PROVE  Balanced(Released(w), Settled(w))
<1> DEFINE open == OpenKeys(reservation[w])
<1>0. w \in Devices
    BY DEF BalanceInv, TypeOK
<1>1. open \cap Due(w) = Due(w)
    BY <1>0, SettleOpen
<1>2. Cardinality(open \ Due(w)) = Cardinality(open) - Cardinality(Due(w))
    BY <1>1, OpenKeysFinite, FS_Difference
<1>3. Cardinality(Due(w)) <= Cardinality(open)
    BY <1>0, SettleOpen, OpenKeysFinite, FS_Subset
<1>nat. Cardinality(open) \in Nat /\ Cardinality(Due(w)) \in Nat
    BY OpenKeysFinite, DueIsFinite
<1>dist. Cost * (Cardinality(open) - Cardinality(Due(w)))
        = Cost * Cardinality(open) - Cost * Cardinality(Due(w))
    BY <1>3, <1>nat, Distribute
<1>4. Cost * Cardinality(OpenKeys(Settled(w)))
        = Cost * Cardinality(open) - Cost * Cardinality(Due(w))
    BY <1>0, <1>2, <1>dist, SettleOpen
<1>5. row[w].available + Cost * Cardinality(open) + row[w].spent = row[w].granted
    BY DEF BalanceInv, Balanced
<1>6. row[w] \in Rows /\ Released(w) \in Rows
    BY <1>0, ReleasedType DEF BalanceInv, TypeOK
<1>7. Cost * Cardinality(open) \in Nat /\ Cost * Cardinality(Due(w)) \in Nat
    BY OpenKeysFinite, DueIsFinite, Distribute
<1> HIDE DEF open
<1> QED
    BY <1>0, <1>4, <1>5, <1>6, <1>7, ReleasedType DEF Balanced, Rows

\* What a transaction finds after opening or settling its wallet.
LEMMA OpenedBalanced ==
    ASSUME BalanceInv, NEW w \in Devices, NEW used \in 0..Starter
    PROVE  /\ Opened(w, used) \in Rows
           /\ Settled(w) \in Reservations
           /\ Balanced(Opened(w, used), Settled(w))
<1>1. CASE w \in wallets
    BY <1>1, ReleasedBalanced, ReleasedType, SettleOpen DEF Opened
<1>2. CASE w \notin wallets
  <2>1. OpenKeys(Settled(w)) = {}
      BY <1>2, SettleOpen DEF BalanceInv, UnopenedIsEmpty, OpenKeys
  <2>2. Cost * Cardinality(OpenKeys(Settled(w))) = 0
      BY <2>1, FS_EmptySet, CreditAssumption DEF CreditAssumption
  <2>3. Opened(w, used) = [available |-> Starter - used, granted |-> Starter,
                           spent |-> used, account |-> NoAccount]
      BY <1>2 DEF Opened
  <2>4. Starter \in Nat /\ used \in Nat /\ used <= Starter
      BY CreditAssumption DEF CreditAssumption
  <2> QED
      BY <2>2, <2>3, <2>4, SettleOpen DEF Rows, Balanced
<1> QED
    BY <1>1, <1>2

\* Entries never matter to the balance, only their type does.
LEMMA OpeningEntriesType ==
    ASSUME NEW w \in Devices, NEW used \in 0..Starter
    PROVE  \A e \in OpeningEntries(w, used) \cup ExpiryEntries(w) :
               e.wallet = w /\ e.delta \in Int
    BY CreditAssumption
       DEF OpeningEntries, ExpiryEntries, Entry, CreditAssumption

-----------------------------------------------------------------------------
\* A Write of a balanced row keeps the invariant: it touches one wallet, and
\* leaves none of that wallet's reservations overdue.
WrittenVars == <<wallets, row, reservation, overdue, ledger>>

LEMMA WriteKeepsBalance ==
    ASSUME BalanceInv, NEW w \in Devices,
           NEW r \in Rows, NEW res \in Reservations, NEW es,
           Balanced(r, res),
           \A e \in es : e.wallet = w /\ e.delta \in Int,
           Write(w, r, res, es),
           alias' \in [Devices -> Accounts \cup {NoAccount}],
           UNCHANGED <<session, quoted>>
    PROVE  BalanceInv'
<1>1. TypeOK'
    BY DEF BalanceInv, TypeOK, Write, Reservations
<1>2. OverdueIsOpen'
    BY DEF BalanceInv, TypeOK, OverdueIsOpen, Write
<1>3. UnopenedIsEmpty'
    BY DEF BalanceInv, TypeOK, UnopenedIsEmpty, Write
<1>4. \A v \in wallets' : Balanced(row'[v], reservation'[v])
    BY DEF BalanceInv, TypeOK, Write
<1> QED
    BY <1>1, <1>2, <1>3, <1>4 DEF BalanceInv, Balanced, OpenKeys

LEMMA TouchKeepsBalance ==
    ASSUME BalanceInv, NEW w \in Devices, NEW used \in 0..Starter,
           Touch(w, used),
           alias' \in [Devices -> Accounts \cup {NoAccount}],
           UNCHANGED <<session, quoted>>
    PROVE  BalanceInv'
    BY OpenedBalanced, OpeningEntriesType, WriteKeepsBalance DEF Touch

LEMMA Zero == 0 \in 0..Starter
    BY CreditAssumption DEF CreditAssumption

LEMMA ReserveKeepsBalance ==
    ASSUME BalanceInv, NEW w \in Devices, NEW k \in Keys, ReserveOn(w, k),
           UNCHANGED <<alias, session, quoted>>
    PROVE  BalanceInv'
<1> DEFINE r == Opened(w, 0)
           paid == [r EXCEPT !.available = @ - Cost]
           held == [Settled(w) EXCEPT ![k] = "reserved"]
<1>0. alias' \in [Devices -> Accounts \cup {NoAccount}]
    BY DEF BalanceInv, TypeOK
<1>1. CASE ~Admissible(w, k)
    BY <1>0, <1>1, Zero, TouchKeepsBalance DEF ReserveOn
<1>2. CASE Admissible(w, k)
  <2> DEFINE es == OpeningEntries(w, 0) \cup {Entry(w, <<"reserve", k>>, -Cost)}
  <2>1. Write(w, paid, held, es)
      BY <1>2 DEF ReserveOn
  <2>2. r \in Rows /\ Settled(w) \in Reservations /\ Balanced(r, Settled(w))
      BY Zero, OpenedBalanced
  <2>3. Settled(w)[k] # "reserved" /\ r.available >= Cost
      BY <1>2 DEF Admissible
  <2>4. Cost \in Nat
      BY CreditAssumption DEF CreditAssumption
  <2>5. /\ paid \in Rows
        /\ paid.available = r.available - Cost
        /\ paid.spent = r.spent /\ paid.granted = r.granted
      BY <2>2, <2>3, <2>4 DEF Rows
  <2>6. held \in Reservations
      BY <2>2 DEF Reservations, Statuses
  <2>7. Cost * Cardinality(OpenKeys(held))
          = Cost * Cardinality(OpenKeys(Settled(w))) + Cost
      BY <2>2, <2>3, HoldOne
  <2>8. Cost * Cardinality(OpenKeys(Settled(w))) \in Nat
      BY OpenKeysFinite, Distribute
  <2>9. \A e \in es : e.wallet = w /\ e.delta \in Int
      BY <2>4, Zero, OpeningEntriesType DEF Entry
  <2> HIDE DEF r, paid, held, es
  <2>10. Balanced(paid, held)
      BY <2>2, <2>4, <2>5, <2>7, <2>8 DEF Balanced, Rows
  <2> QED
      BY <1>0, <2>1, <2>5, <2>6, <2>9, <2>10, WriteKeepsBalance
<1> QED
    BY <1>1, <1>2

LEMMA FinalizeKeepsBalance ==
    ASSUME BalanceInv, NEW w \in wallets, NEW k \in Keys, NEW outcome,
           FinalizeOn(w, k, outcome),
           UNCHANGED <<alias, session, quoted>>
    PROVE  BalanceInv'
<1> DEFINE r == Released(w)
<1>0. w \in Devices /\ alias' \in [Devices -> Accounts \cup {NoAccount}]
    BY DEF BalanceInv, TypeOK
<1>1. r \in Rows /\ Settled(w) \in Reservations /\ Balanced(r, Settled(w))
    BY <1>0, ReleasedType, SettleOpen, ReleasedBalanced
<1>2. Cost \in Nat
    BY CreditAssumption DEF CreditAssumption
<1>3. Cost * Cardinality(OpenKeys(Settled(w))) \in Nat
    BY OpenKeysFinite, Distribute
<1>4. ASSUME NEW s \in {"committed", "released"}, Settled(w)[k] = "reserved"
      PROVE  /\ [Settled(w) EXCEPT ![k] = s] \in Reservations
             /\ Cost * Cardinality(OpenKeys([Settled(w) EXCEPT ![k] = s]))
                  = Cost * Cardinality(OpenKeys(Settled(w))) - Cost
    BY <1>1, <1>4, FreeOne DEF Reservations, Statuses
<1>5. ASSUME NEW key, NEW delta \in Int
      PROVE  \A e \in ExpiryEntries(w) \cup {Entry(w, key, delta)} :
                 e.wallet = w /\ e.delta \in Int
    BY <1>0, Zero, OpeningEntriesType DEF Entry
<1> HIDE DEF r
<1>6. CASE Settled(w)[k] = "reserved" /\ Commit(w, k)
  <2> DEFINE used == [r EXCEPT !.spent = @ + Cost]
             done == [Settled(w) EXCEPT ![k] = "committed"]
  <2>1. used \in Rows /\ used.available = r.available
        /\ used.spent = r.spent + Cost /\ used.granted = r.granted
      BY <1>1, <1>2 DEF Rows
  <2>2. done \in Reservations
        /\ Cost * Cardinality(OpenKeys(done))
             = Cost * Cardinality(OpenKeys(Settled(w))) - Cost
      BY <1>4, <1>6
  <2>3. Write(w, used, done,
              ExpiryEntries(w) \cup {Entry(w, <<"commit", k>>, 0)})
      BY <1>6 DEF Commit, r
  <2> HIDE DEF used, done
  <2>4. Balanced(used, done)
      BY <1>1, <1>2, <1>3, <2>1, <2>2 DEF Balanced, Rows
  <2> QED
      BY <1>0, <1>5, <2>1, <2>2, <2>3, <2>4, WriteKeepsBalance
<1>7. CASE Settled(w)[k] = "reserved" /\ Release(w, k)
  <2> DEFINE back == [r EXCEPT !.available = @ + Cost]
             done == [Settled(w) EXCEPT ![k] = "released"]
  <2>1. back \in Rows /\ back.available = r.available + Cost
        /\ back.spent = r.spent /\ back.granted = r.granted
      BY <1>1, <1>2 DEF Rows
  <2>2. done \in Reservations
        /\ Cost * Cardinality(OpenKeys(done))
             = Cost * Cardinality(OpenKeys(Settled(w))) - Cost
      BY <1>4, <1>7
  <2>3. Write(w, back, done,
              ExpiryEntries(w) \cup {Entry(w, <<"release", k>>, Cost)})
      BY <1>7 DEF Release, r
  <2> HIDE DEF back, done
  <2>4. Balanced(back, done)
      BY <1>1, <1>2, <1>3, <2>1, <2>2 DEF Balanced, Rows
  <2> QED
      BY <1>0, <1>2, <1>5, <2>1, <2>2, <2>3, <2>4, WriteKeepsBalance
<1>8. CASE Touch(w, 0)
    BY <1>0, <1>8, Zero, TouchKeepsBalance
<1> QED
    BY <1>6, <1>7, <1>8 DEF FinalizeOn, Finalizable

-----------------------------------------------------------------------------
\* The two bindings that commit one wallet.
LEMMA BindFirstKeepsBalance ==
    ASSUME BalanceInv, NEW a \in Accounts, NEW d \in Devices, BindFirst(a, d)
    PROVE  BalanceInv'
<1> DEFINE r == Opened(d, 0)
           owned == [r EXCEPT !.account = a]
<1>1. r \in Rows /\ Settled(d) \in Reservations /\ Balanced(r, Settled(d))
    BY Zero, OpenedBalanced
<1>2. owned \in Rows /\ owned.available = r.available
      /\ owned.spent = r.spent /\ owned.granted = r.granted
    BY <1>1 DEF Rows
<1>3. Balanced(owned, Settled(d))
    BY <1>1, <1>2 DEF Balanced
<1>4. alias' \in [Devices -> Accounts \cup {NoAccount}]
    BY DEF BindFirst, BalanceInv, TypeOK
<1>5. \A e \in OpeningEntries(d, 0) : e.wallet = d /\ e.delta \in Int
    BY Zero, OpeningEntriesType
<1>6. Write(d, owned, Settled(d), OpeningEntries(d, 0))
      /\ UNCHANGED <<session, quoted>>
    BY DEF BindFirst
<1> HIDE DEF r, owned
<1> QED
    BY <1>1, <1>2, <1>3, <1>4, <1>5, <1>6, WriteKeepsBalance

LEMMA BindNewKeepsBalance ==
    ASSUME BalanceInv, NEW a \in Accounts, NEW d \in Devices, BindNew(a, d)
    PROVE  BalanceInv'
<1>1. alias' \in [Devices -> Accounts \cup {NoAccount}]
    BY DEF BindNew, BalanceInv, TypeOK
<1>2. PICK w \in AccountWallets(a) : Touch(w, 0)
    BY DEF BindNew
<1>3. w \in Devices /\ UNCHANGED <<session, quoted>>
    BY DEF AccountWallets, BalanceInv, TypeOK, BindNew
<1> QED
    BY <1>1, <1>2, <1>3, Zero, TouchKeepsBalance

\* The binding that moves usage from one wallet to another: both are settled,
\* and the imported usage is taken from the account's available credits.
LEMMA BindExistingKeepsBalance ==
    ASSUME BalanceInv, NEW a \in Accounts, NEW d \in Devices, BindExisting(a, d)
    PROVE  BalanceInv'
<1>1. PICK o \in AccountWallets(a) :
        /\ row' = [row EXCEPT
              ![d] = Released(d),
              ![o] = [Released(o) EXCEPT !.available = @ - Imported(o, d),
                                         !.spent = @ + Imported(o, d)]]
        /\ reservation' = [reservation EXCEPT ![d] = Settled(d),
                                              ![o] = Settled(o)]
        /\ overdue' = {p \in overdue : p[1] \notin {d, o}}
        /\ ledger' = ledger \cup ExpiryEntries(d) \cup ExpiryEntries(o)
                            \cup UsageEntries(o, d)
    BY DEF BindExisting
<1>2. /\ d \in wallets /\ d \in Devices /\ row[d].account = NoAccount
      /\ o \in wallets /\ o \in Devices /\ row[o].account = a
      /\ UNCHANGED <<wallets, session, quoted>>
    BY DEF BindExisting, AccountWallets, BalanceInv, TypeOK
<1>3. d # o
    BY <1>2, CreditAssumption DEF CreditAssumption
<1> DEFINE n == Imported(o, d)
           r == Released(o)
           paid == [r EXCEPT !.available = @ - n, !.spent = @ + n]
<1>4. n \in Nat /\ n <= row[o].available
    BY <1>2 DEF Imported, BalanceInv, TypeOK, Rows
<1>5. /\ r \in Rows /\ Balanced(r, Settled(o)) /\ Settled(o) \in Reservations
      /\ r.available = row[o].available + Cost * Cardinality(Due(o))
    BY <1>2, ReleasedType, ReleasedBalanced, SettleOpen
<1>6. /\ Released(d) \in Rows /\ Settled(d) \in Reservations
      /\ Balanced(Released(d), Settled(d))
    BY <1>2, ReleasedType, ReleasedBalanced, SettleOpen
<1>7. Cost * Cardinality(Due(o)) \in Nat /\ row[o].available \in Nat
    BY <1>2, DueIsFinite, Distribute DEF BalanceInv, TypeOK, Rows
<1>8. /\ paid \in Rows /\ paid.available = r.available - n
      /\ paid.spent = r.spent + n /\ paid.granted = r.granted
  <2>1. r.available - n \in Nat /\ r.spent + n \in Nat
      BY <1>4, <1>5, <1>7 DEF Rows
  <2> DEFINE x == r.available - n
             y == r.spent + n
  <2>2. r \in Rows
      BY <1>5
  <2> HIDE DEF r, n, x, y
  <2>3. LET p == [r EXCEPT !.available = x, !.spent = y]
        IN  /\ p \in Rows /\ p.available = x /\ p.spent = y
            /\ p.granted = r.granted
      BY <2>1, <2>2 DEF Rows, x, y
  <2> QED
      BY <2>3 DEF x, y
<1>9. Cost * Cardinality(OpenKeys(Settled(o))) \in Nat
    BY OpenKeysFinite, Distribute
<1>10. row' = [row EXCEPT ![d] = Released(d), ![o] = paid]
    BY <1>1
<1>11. alias' \in [Devices -> Accounts \cup {NoAccount}]
    BY DEF BindExisting, BalanceInv, TypeOK
<1>12. \A e \in ExpiryEntries(d) \cup ExpiryEntries(o) \cup UsageEntries(o, d) :
          e.wallet \in wallets /\ e.delta \in Int
  <2>1. \A e \in UsageEntries(o, d) : e.wallet \in wallets /\ e.delta \in Int
      BY <1>2, <1>4 DEF UsageEntries, Entry
  <2> QED
      BY <1>2, <2>1, Zero, OpeningEntriesType
<1> HIDE DEF n, r, paid
<1>13. Balanced(paid, Settled(o))
    BY <1>4, <1>5, <1>8, <1>9 DEF Balanced, Rows
<1>14. TypeOK'
  <2>1. /\ wallets \subseteq Devices /\ row \in [Devices -> Rows]
        /\ reservation \in [Devices -> [Keys -> Statuses]]
        /\ overdue \subseteq Devices \X Keys
        /\ \A e \in ledger : e.wallet \in wallets /\ e.delta \in Int
      BY DEF BalanceInv, TypeOK
  <2>2. row' \in [Devices -> Rows]
      BY <1>2, <1>6, <1>8, <1>10, <2>1
  <2>3. reservation' \in [Devices -> [Keys -> Statuses]]
      BY <1>1, <1>2, <1>5, <1>6, <2>1 DEF Reservations
  <2>4. \A e \in ledger' : e.wallet \in wallets' /\ e.delta \in Int
      BY <1>1, <1>2, <1>12, <2>1
  <2>5. overdue' \subseteq Devices \X Keys
      BY <1>1, <2>1
  <2> QED
      BY <1>2, <1>11, <2>1, <2>2, <2>3, <2>4, <2>5 DEF BalanceInv, TypeOK
<1>15. OverdueIsOpen'
    BY <1>1, <1>2 DEF BalanceInv, TypeOK, OverdueIsOpen
<1>16. UnopenedIsEmpty'
    BY <1>1, <1>2 DEF BalanceInv, TypeOK, UnopenedIsEmpty
<1>17. \A v \in wallets' : Balanced(row'[v], reservation'[v])
    BY <1>1, <1>2, <1>3, <1>6, <1>10, <1>13 DEF BalanceInv, TypeOK
<1> QED
    BY <1>14, <1>15, <1>16, <1>17 DEF BalanceInv, Balanced, OpenKeys

-----------------------------------------------------------------------------
\* The purchase and the passing of time.
LEMMA QuoteKeepsBalance ==
    ASSUME BalanceInv, NEW d \in Devices, NEW q \in Requests, QuotePack(d, q)
    PROVE  BalanceInv'
<1>1. PICK w \in DeviceWallets(d) :
        /\ quoted' = quoted \cup {<<d, w, q>>}
        /\ IF w \in wallets THEN UNCHANGED <<wallets, row, ledger>>
           ELSE /\ wallets' = wallets \cup {w}
                /\ row' = [row EXCEPT ![w] = Opened(w, 0)]
                /\ ledger' = ledger \cup OpeningEntries(w, 0)
    BY DEF QuotePack
<1>2. w \in Devices
    BY DEF DeviceWallets, AccountWallets, BalanceInv, TypeOK
<1>3. UNCHANGED <<alias, reservation, overdue, session>>
    BY DEF QuotePack
<1>4. CASE w \in wallets
    BY <1>1, <1>2, <1>3, <1>4
       DEF BalanceInv, TypeOK, OverdueIsOpen, UnopenedIsEmpty, Balanced, OpenKeys
<1>5. CASE w \notin wallets
  <2>1. \A k \in Keys : reservation[w][k] = "none"
      BY <1>2, <1>5 DEF BalanceInv, UnopenedIsEmpty
  <2>2. Due(w) = {}
      BY <2>1 DEF BalanceInv, OverdueIsOpen, Due
  <2>3. Settled(w) = reservation[w]
      BY <1>2, <2>2 DEF Settled, BalanceInv, TypeOK
  <2>4. Opened(w, 0) \in Rows /\ Balanced(Opened(w, 0), reservation[w])
      BY <1>2, <2>3, Zero, OpenedBalanced
  <2>5. \A e \in OpeningEntries(w, 0) : e.wallet = w /\ e.delta \in Int
      BY <1>2, Zero, OpeningEntriesType
  <2>6. TypeOK'
    <3>1. \A e \in ledger' : e.wallet \in wallets' /\ e.delta \in Int
        BY <1>1, <1>5, <2>5 DEF BalanceInv, TypeOK
    <3>2. row' \in [Devices -> Rows] /\ wallets' \subseteq Devices
      <4>1. row \in [Devices -> Rows] /\ wallets \subseteq Devices
          BY DEF BalanceInv, TypeOK
      <4> QED
          BY <1>1, <1>2, <1>5, <2>4, <4>1
    <3>3. quoted' \subseteq Devices \X Devices \X Requests
        BY <1>1, <1>2 DEF BalanceInv, TypeOK
    <3> QED
        BY <1>3, <3>1, <3>2, <3>3 DEF BalanceInv, TypeOK
  <2>7. \A v \in wallets' : Balanced(row'[v], reservation'[v])
      BY <1>1, <1>2, <1>3, <1>5, <2>4 DEF BalanceInv, TypeOK
  <2>8. OverdueIsOpen' /\ UnopenedIsEmpty'
      BY <1>1, <1>3, <1>5 DEF BalanceInv, OverdueIsOpen, UnopenedIsEmpty
  <2> QED
      BY <2>6, <2>7, <2>8 DEF BalanceInv, Balanced, OpenKeys
<1> QED
    BY <1>4, <1>5

LEMMA FulfillKeepsBalance ==
    ASSUME BalanceInv, NEW w \in Devices, NEW q \in Requests, Fulfill(w, q)
    PROVE  BalanceInv'
<1> DEFINE r == [row[w] EXCEPT !.available = @ + Pack, !.granted = @ + Pack]
<1>1. row[w] \in Rows /\ Pack \in Nat /\ w \in wallets
    BY CreditAssumption DEF BalanceInv, TypeOK, CreditAssumption, Fulfill
<1>2. /\ r \in Rows /\ r.available = row[w].available + Pack
      /\ r.granted = row[w].granted + Pack /\ r.spent = row[w].spent
  <2>1. row[w].available + Pack \in Nat /\ row[w].granted + Pack \in Nat
      BY <1>1 DEF Rows
  <2> DEFINE old == row[w]
             x == old.available + Pack
             y == old.granted + Pack
  <2>2. old \in Rows /\ x \in Nat /\ y \in Nat
      BY <1>1, <2>1
  <2> HIDE DEF old, x, y
  <2>3. LET p == [old EXCEPT !.available = x, !.granted = y]
        IN  /\ p \in Rows /\ p.available = x /\ p.granted = y
            /\ p.spent = old.spent
      BY <2>2 DEF Rows
  <2> QED
      BY <2>3 DEF old, x, y
<1>3. row' = [row EXCEPT ![w] = r]
    BY <1>1 DEF Fulfill, Grant, BalanceInv, TypeOK
<1>4. Balanced(row[w], reservation[w])
    BY <1>1 DEF BalanceInv
<1>5. Cost * Cardinality(OpenKeys(reservation[w])) \in Nat
    BY OpenKeysFinite, Distribute
<1> HIDE DEF r
<1>6. Balanced(r, reservation[w])
    BY <1>1, <1>2, <1>4, <1>5 DEF Balanced, Rows
<1>7. PurchaseEntry(w, q).wallet = w /\ PurchaseEntry(w, q).delta \in Int
    BY <1>1 DEF PurchaseEntry, Entry
<1>8. /\ UNCHANGED <<wallets, alias, reservation, overdue, session, quoted>>
      /\ ledger' = ledger \cup {PurchaseEntry(w, q)}
    BY DEF Fulfill, Grant
<1>9. TypeOK'
    BY <1>1, <1>2, <1>3, <1>7, <1>8 DEF BalanceInv, TypeOK
<1>10. \A v \in wallets' : Balanced(row'[v], reservation'[v])
    BY <1>3, <1>6, <1>8 DEF BalanceInv, TypeOK
<1> QED
    BY <1>8, <1>9, <1>10
       DEF BalanceInv, OverdueIsOpen, UnopenedIsEmpty, Balanced, OpenKeys

LEMMA LapseKeepsBalance ==
    ASSUME BalanceInv, NEW w \in Devices, NEW k \in Keys, Lapse(w, k)
    PROVE  BalanceInv'
    BY DEF Lapse, BalanceInv, TypeOK, OverdueIsOpen, UnopenedIsEmpty, Balanced,
           OpenKeys

LEMMA CheckoutKeepsBalance ==
    ASSUME BalanceInv, NEW w \in Devices, NEW q \in Requests,
           CreateSession(w, q) \/ Pay(w, q)
    PROVE  BalanceInv'
<1>1. \E s \in {"open", "paid"} : session' = [session EXCEPT ![w][q] = s]
    BY DEF CreateSession, Pay
<1>2. session' \in [Devices -> [Requests -> {"none", "open", "paid"}]]
    BY <1>1 DEF BalanceInv, TypeOK
<1>3. UNCHANGED <<wallets, row, alias, reservation, overdue, quoted, ledger>>
    BY DEF CreateSession, Pay
<1> QED
    BY <1>2, <1>3
       DEF BalanceInv, TypeOK, OverdueIsOpen, UnopenedIsEmpty, Balanced, OpenKeys

-----------------------------------------------------------------------------
LEMMA InitBalance == Init => BalanceInv
    BY CreditAssumption
       DEF Init, BalanceInv, TypeOK, Rows, NoRow, Statuses, OverdueIsOpen,
           UnopenedIsEmpty

LEMMA NextKeepsBalance == BalanceInv /\ [Next]_vars => BalanceInv'
<1> SUFFICES ASSUME BalanceInv, [Next]_vars PROVE BalanceInv'
    OBVIOUS
<1>0. wallets \subseteq Devices
      /\ \A d \in Devices : DeviceWallets(d) \subseteq Devices
      /\ \A a \in Accounts : \A w \in AccountWallets(a) :
            w \in wallets /\ w \in Devices
    BY DEF DeviceWallets, AccountWallets, BalanceInv, TypeOK
<1>a. alias \in [Devices -> Accounts \cup {NoAccount}]
    BY DEF BalanceInv, TypeOK
<1>1. CASE \E d \in Devices, used \in LegacyUses : Sync(d, used)
    BY <1>0, <1>a, <1>1, CreditAssumption, TouchKeepsBalance
       DEF Sync, CreditAssumption
<1>2. CASE \E a \in Accounts : SyncAccount(a)
  <2>1. PICK a \in Accounts : SyncAccount(a)
      BY <1>2
  <2>2. PICK w \in AccountWallets(a) : Touch(w, 0)
      BY <2>1 DEF SyncAccount
  <2>3. w \in Devices
      BY <1>0, <2>2 DEF AccountWallets
  <2> QED
      BY <1>a, <2>1, <2>2, <2>3, Zero, TouchKeepsBalance DEF SyncAccount
<1>3. CASE \E d \in Devices, k \in Keys : Reserve(d, k)
    BY <1>0, <1>3, ReserveKeepsBalance DEF Reserve
<1>4. CASE \E a \in Accounts, k \in Keys : ReserveForAccount(a, k)
  <2>1. PICK a \in Accounts, k \in Keys : ReserveForAccount(a, k)
      BY <1>4
  <2>2. PICK w \in AccountWallets(a) : ReserveOn(w, k)
      BY <2>1 DEF ReserveForAccount
  <2>3. w \in Devices
      BY <1>0, <2>2 DEF AccountWallets
  <2> QED
      BY <2>1, <2>2, <2>3, ReserveKeepsBalance DEF ReserveForAccount
<1>5. CASE \E d \in Devices, k \in Keys, outcome \in {"committed", "released"} :
             Finalize(d, k, outcome)
    BY <1>5, FinalizeKeepsBalance DEF Finalize
<1>6. CASE \E a \in Accounts, k \in Keys, outcome \in {"committed", "released"} :
             FinalizeForAccount(a, k, outcome)
  <2>1. PICK a \in Accounts, k \in Keys, outcome \in {"committed", "released"} :
             FinalizeForAccount(a, k, outcome)
      BY <1>6
  <2>2. PICK w \in AccountWallets(a) : FinalizeOn(w, k, outcome)
      BY <2>1 DEF FinalizeForAccount
  <2>3. w \in wallets
      BY <1>0, <2>2 DEF AccountWallets
  <2> QED
      BY <2>1, <2>2, <2>3, FinalizeKeepsBalance DEF FinalizeForAccount
<1>7. CASE \E d \in Devices, r \in Requests : QuotePack(d, r)
    BY <1>7, QuoteKeepsBalance
<1>8. CASE \E w \in Devices, r \in Requests : CreateSession(w, r)
    BY <1>8, CheckoutKeepsBalance
<1>9. CASE \E w \in Devices, r \in Requests : Pay(w, r)
    BY <1>9, CheckoutKeepsBalance
<1>10. CASE \E w \in Devices, r \in Requests : Fulfill(w, r)
    BY <1>10, FulfillKeepsBalance
<1>11. CASE \E a \in Accounts, d \in Devices : BindFirst(a, d)
    BY <1>11, BindFirstKeepsBalance
<1>12. CASE \E a \in Accounts, d \in Devices : BindNew(a, d)
    BY <1>12, BindNewKeepsBalance
<1>13. CASE \E a \in Accounts, d \in Devices : BindExisting(a, d)
    BY <1>13, BindExistingKeepsBalance
<1>14. CASE \E w \in Devices, k \in Keys : Lapse(w, k)
    BY <1>14, LapseKeepsBalance
<1>15. CASE UNCHANGED vars
    BY <1>15 DEF vars, BalanceInv, TypeOK, OverdueIsOpen, UnopenedIsEmpty,
                 Balanced, OpenKeys
<1> QED
    BY <1>1, <1>2, <1>3, <1>4, <1>5, <1>6, <1>7, <1>8, <1>9, <1>10, <1>11,
       <1>12, <1>13, <1>14, <1>15 DEF Next

LEMMA BalanceInvariant == Spec => []BalanceInv
    BY InitBalance, NextKeepsBalance, PTL DEF Spec

\* Every column of every row stays in its range whatever the operations: in
\* particular no balance of download-credits.ts is ever driven below zero.
THEOREM TypeCorrect == Spec => []TypeOK
<1>1. BalanceInv => TypeOK
    BY DEF BalanceInv
<1> QED
    BY <1>1, BalanceInvariant, PTL

\* No credit appears or vanishes, in any wallet of any deployment: granted
\* credits are available, held by an open reservation, or spent.
THEOREM CreditsConserved == Spec => []Conservation
<1>1. BalanceInv => Conservation
    BY DEF BalanceInv, Conservation, Balanced, OpenKeys, Reserved
<1> QED
    BY <1>1, BalanceInvariant, PTL

-----------------------------------------------------------------------------
\* Outcomes: the expiry pass alters open reservations only, and a Write alters
\* beside them at most a key that is free or still reserved after that pass.
Done == {"committed", "released", "expired"}

KeepsOutcomes ==
    \A w \in Devices, k \in Keys :
        reservation[w][k] \in Done => reservation'[w][k] = reservation[w][k]

LEMMA SettledKeepsOutcomes ==
    ASSUME BalanceInv, NEW w \in Devices, NEW k \in Keys,
           reservation[w][k] \in Done
    PROVE  Settled(w)[k] = reservation[w][k]
    BY DEF Settled, Due, BalanceInv, OverdueIsOpen, Done

LEMMA WriteKeepsOutcomes ==
    ASSUME BalanceInv, NEW w \in Devices, NEW r, NEW res, NEW es,
           Write(w, r, res, es),
           \A k \in Keys : Settled(w)[k] \in Done => res[k] = Settled(w)[k]
    PROVE  KeepsOutcomes
<1>1. reservation' = [reservation EXCEPT ![w] = res]
    BY DEF Write
<1>2. reservation \in [Devices -> [Keys -> Statuses]]
    BY DEF BalanceInv, TypeOK
<1> QED
    BY <1>1, <1>2, SettledKeepsOutcomes DEF KeepsOutcomes

LEMMA ReserveKeepsOutcomes ==
    ASSUME BalanceInv, NEW w \in Devices, NEW k \in Keys, ReserveOn(w, k)
    PROVE  KeepsOutcomes
<1>1. Settled(w) \in Reservations
    BY SettleOpen
<1>2. CASE Touch(w, 0)
    BY <1>2, WriteKeepsOutcomes DEF Touch
<1>3. CASE ~Touch(w, 0)
  <2>1. Settled(w)[k] = "none"
      BY <1>3 DEF ReserveOn, Admissible
  <2>2. PICK r, es : Write(w, r, [Settled(w) EXCEPT ![k] = "reserved"], es)
      BY <1>3 DEF ReserveOn
  <2>3. \A j \in Keys : Settled(w)[j] \in Done =>
          [Settled(w) EXCEPT ![k] = "reserved"][j] = Settled(w)[j]
      BY <1>1, <2>1 DEF Done, Reservations
  <2> QED
      BY <2>2, <2>3, WriteKeepsOutcomes
<1> QED
    BY <1>2, <1>3

LEMMA FinalizeKeepsOutcomes ==
    ASSUME BalanceInv, NEW w \in Devices, NEW k \in Keys, NEW outcome,
           FinalizeOn(w, k, outcome)
    PROVE  KeepsOutcomes
<1>1. Settled(w) \in Reservations
    BY SettleOpen
<1>2. CASE Touch(w, 0)
    BY <1>2, WriteKeepsOutcomes DEF Touch
<1>3. CASE ~Touch(w, 0)
  <2>1. Settled(w)[k] = "reserved"
      BY <1>3 DEF FinalizeOn, Finalizable
  <2>2. PICK s, r, es : Write(w, r, [Settled(w) EXCEPT ![k] = s], es)
      BY <1>3 DEF FinalizeOn, Commit, Release
  <2>3. \A j \in Keys : Settled(w)[j] \in Done =>
          [Settled(w) EXCEPT ![k] = s][j] = Settled(w)[j]
      BY <1>1, <2>1 DEF Done, Reservations
  <2> QED
      BY <2>2, <2>3, WriteKeepsOutcomes
<1> QED
    BY <1>2, <1>3

LEMMA BindingsKeepOutcomes ==
    ASSUME BalanceInv, NEW a \in Accounts, NEW d \in Devices,
           BindFirst(a, d) \/ BindNew(a, d) \/ BindExisting(a, d)
    PROVE  KeepsOutcomes
<1>0. \A w \in AccountWallets(a) : w \in Devices
    BY DEF AccountWallets, BalanceInv, TypeOK
<1>1. CASE BindFirst(a, d)
    BY <1>1, WriteKeepsOutcomes DEF BindFirst
<1>2. CASE BindNew(a, d)
    BY <1>0, <1>2, WriteKeepsOutcomes DEF BindNew, Touch
<1>3. CASE BindExisting(a, d)
  <2>1. PICK o \in AccountWallets(a) :
          reservation' = [reservation EXCEPT ![d] = Settled(d), ![o] = Settled(o)]
      BY <1>3 DEF BindExisting
  <2>2. o \in Devices /\ reservation \in [Devices -> [Keys -> Statuses]]
      BY <1>0 DEF BalanceInv, TypeOK
  <2>3. \A w \in Devices : reservation'[w] \in {reservation[w], Settled(w)}
      BY <2>1, <2>2
  <2> QED
      BY <2>3, SettledKeepsOutcomes DEF KeepsOutcomes
<1> QED
    BY <1>1, <1>2, <1>3

LEMMA NextKeepsOutcomes == BalanceInv /\ [Next]_vars => KeepsOutcomes
<1> SUFFICES ASSUME BalanceInv, [Next]_vars PROVE KeepsOutcomes
    OBVIOUS
<1>0. /\ \A d \in Devices : \A w \in DeviceWallets(d) : w \in Devices
      /\ \A a \in Accounts : \A w \in AccountWallets(a) : w \in Devices
    BY DEF DeviceWallets, AccountWallets, BalanceInv, TypeOK
<1>1. CASE \E d \in Devices, used \in LegacyUses : Sync(d, used)
    BY <1>0, <1>1, WriteKeepsOutcomes DEF Sync, Touch
<1>2. CASE \E a \in Accounts : SyncAccount(a)
    BY <1>0, <1>2, WriteKeepsOutcomes DEF SyncAccount, Touch
<1>3. CASE \E d \in Devices, k \in Keys : Reserve(d, k)
    BY <1>0, <1>3, ReserveKeepsOutcomes DEF Reserve
<1>4. CASE \E a \in Accounts, k \in Keys : ReserveForAccount(a, k)
    BY <1>0, <1>4, ReserveKeepsOutcomes DEF ReserveForAccount
<1>5. CASE \E d \in Devices, k \in Keys, outcome \in {"committed", "released"} :
             Finalize(d, k, outcome)
    BY <1>0, <1>5, FinalizeKeepsOutcomes DEF Finalize
<1>6. CASE \E a \in Accounts, k \in Keys, outcome \in {"committed", "released"} :
             FinalizeForAccount(a, k, outcome)
    BY <1>0, <1>6, FinalizeKeepsOutcomes DEF FinalizeForAccount
<1>7. CASE \E a \in Accounts, d \in Devices :
             BindFirst(a, d) \/ BindNew(a, d) \/ BindExisting(a, d)
    BY <1>7, BindingsKeepOutcomes
<1>8. CASE UNCHANGED reservation
    BY <1>8 DEF KeepsOutcomes
<1> QED
    BY <1>1, <1>2, <1>3, <1>4, <1>5, <1>6, <1>7, <1>8
    DEF Next, vars, QuotePack, CreateSession, Pay, Fulfill, Grant, Lapse

\* Retries, late finalizes, expiry passes and bindings never turn one outcome
\* of a reservation into another (finalizeDownloadCredits).
THEOREM OutcomesFinal == Spec => OutcomeIsFinal
<1>1. BalanceInv /\ [Next]_vars =>
        [\A w \in Devices, k \in Keys :
            reservation[w][k] \in {"committed", "released", "expired"}
              => reservation'[w][k] = reservation[w][k]]_vars
    BY NextKeepsOutcomes DEF KeepsOutcomes, Done
<1> QED
    BY <1>1, BalanceInvariant, PTL DEF Spec, OutcomeIsFinal

-----------------------------------------------------------------------------
(***************************************************************************)
(* A paid Session is granted once: the proof of GrantedOncePerSession.      *)
(* A pack is known by the key of its ledger entry.  Every operation but     *)
(* Fulfill writes entries with other keys and leaves the granted column of  *)
(* a wallet as it was, or opens the wallet with the starter grant.          *)
(***************************************************************************)

Packs(w) == {q \in Requests : Granted(w, q)}

\* A wallet that was never opened has been granted nothing.
GrantInv ==
    /\ \A w \in Devices \ wallets : Packs(w) = {}
    /\ \A w \in wallets : row[w].granted = Starter + Pack * Cardinality(Packs(w))

NoPurchase(es) ==
    \A e \in es, w \in Devices, q \in Requests : e.key # <<"purchase", w, q>>

\* A step that grants no pack.
GrantsNothing ==
    /\ \A w \in Devices, q \in Requests : Granted(w, q)' <=> Granted(w, q)
    /\ wallets \subseteq wallets' /\ wallets' \subseteq Devices
    /\ \A w \in wallets : row'[w].granted = row[w].granted
    /\ \A w \in wallets' \ wallets : row'[w].granted = Starter

-----------------------------------------------------------------------------
LEMMA PacksFinite ==
    ASSUME NEW w
    PROVE  IsFiniteSet(Packs(w)) /\ Cardinality(Packs(w)) \in Nat
<1>1. Packs(w) \in SUBSET Requests
    BY DEF Packs
<1> QED
    BY <1>1, CreditAssumption, FS_Subset, FS_CardinalityType DEF CreditAssumption

LEMMA PackTimes ==
    ASSUME NEW n \in Nat
    PROVE  Pack * n \in Nat /\ Pack * (n + 1) = Pack * n + Pack /\ Pack * 0 = 0
    BY CreditAssumption DEF CreditAssumption

LEMMA QuietKeepsGrants == ASSUME GrantInv, GrantsNothing PROVE GrantInv'
<1>1. \A w \in Devices : Packs(w)' = Packs(w)
    BY DEF GrantsNothing, Packs
<1>2. \A w \in Devices \ wallets' : Packs(w)' = {}
    BY <1>1 DEF GrantsNothing, GrantInv
<1>3. ASSUME NEW w \in wallets'
      PROVE  row'[w].granted = Starter + Pack * Cardinality(Packs(w)')
  <2>1. CASE w \in wallets
      BY <1>1, <1>3, <2>1 DEF GrantsNothing, GrantInv
  <2>2. CASE w \notin wallets
    <3>1. Packs(w)' = {} /\ row'[w].granted = Starter
        BY <1>1, <1>3, <2>2 DEF GrantsNothing, GrantInv
    <3>2. Cardinality(Packs(w)') = 0
        BY <3>1, FS_EmptySet
    <3> QED
        BY <3>1, <3>2, CreditAssumption DEF CreditAssumption
  <2> QED
      BY <2>1, <2>2
<1> QED
    BY <1>2, <1>3 DEF GrantInv

\* The entries of everything but a purchase.
LEMMA EntryKeys ==
    ASSUME NEW w, NEW tag, NEW x, NEW delta, tag # "purchase"
    PROVE  NoPurchase({Entry(w, <<tag, x>>, delta)})
    BY DEF NoPurchase, Entry

LEMMA OpeningKeys ==
    ASSUME NEW w, NEW used
    PROVE  NoPurchase(OpeningEntries(w, used)) /\ NoPurchase(ExpiryEntries(w))
<1>1. NoPurchase(ExpiryEntries(w))
    BY DEF NoPurchase, ExpiryEntries, Entry
<1>2. NoPurchase({Entry(w, <<"starter", w>>, Starter)})
      /\ NoPurchase({Entry(w, <<"legacy", w>>, -used)})
    BY EntryKeys
<1> QED
    BY <1>1, <1>2 DEF NoPurchase, OpeningEntries

LEMMA SameGrants ==
    ASSUME NEW es, ledger' = ledger \cup es, NoPurchase(es)
    PROVE  \A w \in Devices, q \in Requests : Granted(w, q)' <=> Granted(w, q)
    BY DEF Granted, NoPurchase

OpenedGrant(w) == IF w \in wallets THEN row[w].granted ELSE Starter

LEMMA OpenedGranted ==
    ASSUME BalanceInv, NEW w \in Devices, NEW used
    PROVE  Opened(w, used).granted = OpenedGrant(w)
    BY ReleasedType DEF Opened, OpenedGrant

LEMMA WriteGrantsNothing ==
    ASSUME BalanceInv, NEW w \in Devices, NEW r, NEW res, NEW es,
           Write(w, r, res, es), r.granted = OpenedGrant(w), NoPurchase(es)
    PROVE  GrantsNothing
<1>1. \A v \in Devices, q \in Requests : Granted(v, q)' <=> Granted(v, q)
    BY SameGrants DEF Write
<1> QED
    BY <1>1 DEF Write, GrantsNothing, OpenedGrant, BalanceInv, TypeOK

LEMMA TouchGrantsNothing ==
    ASSUME BalanceInv, NEW w \in Devices, NEW used, Touch(w, used)
    PROVE  GrantsNothing
    BY OpenedGranted, OpeningKeys, WriteGrantsNothing DEF Touch

LEMMA ReserveGrantsNothing ==
    ASSUME BalanceInv, NEW w \in Devices, NEW k \in Keys, ReserveOn(w, k)
    PROVE  GrantsNothing
<1>1. CASE Touch(w, 0)
    BY <1>1, TouchGrantsNothing
<1>2. CASE ~Touch(w, 0)
  <2> DEFINE r == Opened(w, 0)
             es == OpeningEntries(w, 0) \cup {Entry(w, <<"reserve", k>>, -Cost)}
  <2>1. Write(w, [r EXCEPT !.available = @ - Cost],
              [Settled(w) EXCEPT ![k] = "reserved"], es)
      BY <1>2 DEF ReserveOn
  <2>2. r \in Rows
      BY OpenedBalanced, Zero
  <2>3. [r EXCEPT !.available = @ - Cost].granted = OpenedGrant(w)
      BY <2>2, OpenedGranted DEF Rows
  <2>4. NoPurchase({Entry(w, <<"reserve", k>>, -Cost)})
      BY EntryKeys
  <2>5. NoPurchase(es)
      BY <2>4, OpeningKeys DEF NoPurchase
  <2> QED
      BY <2>1, <2>3, <2>5, WriteGrantsNothing
<1> QED
    BY <1>1, <1>2

LEMMA FinalizeGrantsNothing ==
    ASSUME BalanceInv, NEW w \in wallets, NEW k \in Keys, NEW outcome,
           FinalizeOn(w, k, outcome)
    PROVE  GrantsNothing
<1> DEFINE r == Released(w)
<1>1. w \in Devices
    BY DEF BalanceInv, TypeOK
<1>2. r \in Rows /\ r.granted = OpenedGrant(w)
    BY <1>1, ReleasedType DEF OpenedGrant
<1>3. \A tag, delta : tag # "purchase" =>
        NoPurchase(ExpiryEntries(w) \cup {Entry(w, <<tag, k>>, delta)})
    BY OpeningKeys, EntryKeys DEF NoPurchase
<1>4. CASE Touch(w, 0)
    BY <1>1, <1>4, TouchGrantsNothing
<1>5. CASE Commit(w, k)
  <2>1. [r EXCEPT !.spent = @ + Cost].granted = OpenedGrant(w)
      BY <1>2 DEF Rows
  <2> QED
      BY <1>1, <1>3, <1>5, <2>1, WriteGrantsNothing DEF Commit
<1>6. CASE Release(w, k)
  <2>1. [r EXCEPT !.available = @ + Cost].granted = OpenedGrant(w)
      BY <1>2 DEF Rows
  <2> QED
      BY <1>1, <1>3, <1>6, <2>1, WriteGrantsNothing DEF Release
<1> QED
    BY <1>4, <1>5, <1>6 DEF FinalizeOn

LEMMA QuoteGrantsNothing ==
    ASSUME BalanceInv, NEW d \in Devices, NEW q \in Requests, QuotePack(d, q)
    PROVE  GrantsNothing
<1>1. PICK w \in DeviceWallets(d) :
        IF w \in wallets THEN UNCHANGED <<wallets, row, ledger>>
        ELSE /\ wallets' = wallets \cup {w}
             /\ row' = [row EXCEPT ![w] = Opened(w, 0)]
             /\ ledger' = ledger \cup OpeningEntries(w, 0)
    BY DEF QuotePack
<1>2. w \in Devices
    BY DEF DeviceWallets, AccountWallets, BalanceInv, TypeOK
<1>3. CASE w \in wallets
    BY <1>1, <1>3 DEF GrantsNothing, Granted, BalanceInv, TypeOK
<1>4. CASE w \notin wallets
  <2>1. \A v \in Devices, p \in Requests : Granted(v, p)' <=> Granted(v, p)
      BY <1>1, <1>4, OpeningKeys, SameGrants
  <2>2. Opened(w, 0).granted = Starter
      BY <1>2, <1>4, OpenedGranted DEF OpenedGrant
  <2>3. wallets' = wallets \cup {w} /\ row' = [row EXCEPT ![w] = Opened(w, 0)]
      BY <1>1, <1>4
  <2>4. row \in [Devices -> Rows] /\ wallets \subseteq Devices
      BY DEF BalanceInv, TypeOK
  <2>5. \A v \in wallets : row'[v] = row[v]
      BY <1>4, <2>3, <2>4
  <2>6. row'[w] = Opened(w, 0)
      BY <1>2, <2>3, <2>4
  <2> QED
      BY <1>2, <1>4, <2>1, <2>2, <2>3, <2>4, <2>5, <2>6 DEF GrantsNothing
<1> QED
    BY <1>3, <1>4

LEMMA BindingsGrantNothing ==
    ASSUME BalanceInv, NEW a \in Accounts, NEW d \in Devices,
           BindFirst(a, d) \/ BindNew(a, d) \/ BindExisting(a, d)
    PROVE  GrantsNothing
<1>0. \A w \in AccountWallets(a) : w \in Devices /\ w \in wallets
    BY DEF AccountWallets, BalanceInv, TypeOK
<1>1. CASE BindFirst(a, d)
  <2> DEFINE r == Opened(d, 0)
  <2>1. r \in Rows
      BY OpenedBalanced, Zero
  <2>2. [r EXCEPT !.account = a].granted = OpenedGrant(d)
      BY <2>1, OpenedGranted DEF Rows
  <2> QED
      BY <1>1, <2>2, OpeningKeys, WriteGrantsNothing DEF BindFirst
<1>2. CASE BindNew(a, d)
    BY <1>0, <1>2, TouchGrantsNothing DEF BindNew
<1>3. CASE BindExisting(a, d)
  <2>1. PICK o \in AccountWallets(a) :
          /\ row' = [row EXCEPT
                ![d] = Released(d),
                ![o] = [Released(o) EXCEPT !.available = @ - Imported(o, d),
                                           !.spent = @ + Imported(o, d)]]
          /\ ledger' = ledger \cup ExpiryEntries(d) \cup ExpiryEntries(o)
                              \cup UsageEntries(o, d)
      BY <1>3 DEF BindExisting
  <2> DEFINE n == Imported(o, d)
             r == Released(o)
             paid == [r EXCEPT !.available = @ - n, !.spent = @ + n]
             es == ExpiryEntries(d) \cup ExpiryEntries(o) \cup UsageEntries(o, d)
  <2>2. o \in Devices /\ d \in Devices /\ wallets' = wallets
      BY <1>0, <1>3 DEF BindExisting
  <2>3. /\ r \in Rows /\ r.granted = row[o].granted
        /\ Released(d).granted = row[d].granted
      BY <2>2, ReleasedType
  <2>4. paid.granted = row[o].granted
    <3> HIDE DEF n, r
    <3> QED
        BY <2>3 DEF Rows
  <2>5. NoPurchase(UsageEntries(o, d))
    <3>1. NoPurchase({Entry(o, <<"usage", d>>, -n)})
        BY EntryKeys
    <3> QED
        BY <3>1 DEF UsageEntries, NoPurchase
  <2>6. NoPurchase(es) /\ ledger' = ledger \cup es
      BY <2>1, <2>5, OpeningKeys DEF NoPurchase
  <2>7. \A v \in Devices, p \in Requests : Granted(v, p)' <=> Granted(v, p)
      BY <2>6, SameGrants
  <2>8. row' = [row EXCEPT ![d] = Released(d), ![o] = paid]
      BY <2>1
  <2> HIDE DEF paid
  <2>9. \A w \in wallets : row'[w].granted = row[w].granted
      BY <2>2, <2>3, <2>4, <2>8 DEF BalanceInv, TypeOK
  <2> QED
      BY <2>2, <2>7, <2>9 DEF GrantsNothing, BalanceInv, TypeOK
<1> QED
    BY <1>1, <1>2, <1>3

-----------------------------------------------------------------------------
\* The grant itself: the Session was not granted before, so the wallet has one
\* pack more, and the other wallets have none of it.
LEMMA FulfillKeepsGrants ==
    ASSUME BalanceInv, GrantInv, NEW w \in Devices, NEW q \in Requests,
           Fulfill(w, q)
    PROVE  GrantInv'
<1>1. /\ w \in wallets /\ q \notin Packs(w)
      /\ row' = [row EXCEPT ![w].available = @ + Pack, ![w].granted = @ + Pack]
      /\ ledger' = ledger \cup {PurchaseEntry(w, q)}
      /\ UNCHANGED wallets
    BY DEF Fulfill, Grant, Packs
<1>2. \A v \in Devices, p \in Requests :
        Granted(v, p)' <=> Granted(v, p) \/ (v = w /\ p = q)
  <2>1. PurchaseEntry(w, q).key = <<"purchase", w, q>>
      BY DEF PurchaseEntry, Entry
  <2> SUFFICES ASSUME NEW v \in Devices, NEW p \in Requests
               PROVE  Granted(v, p)' <=> Granted(v, p) \/ (v = w /\ p = q)
      OBVIOUS
  <2>2. <<"purchase", v, p>> = <<"purchase", w, q>> <=> v = w /\ p = q
      OBVIOUS
  <2>3. \A e : e \in ledger' <=> e \in ledger \/ e = PurchaseEntry(w, q)
      BY <1>1
  <2> QED
      BY <2>1, <2>2, <2>3 DEF Granted
<1>3. Packs(w)' = Packs(w) \cup {q}
    BY <1>2 DEF Packs
<1>4. \A v \in Devices \ {w} : Packs(v)' = Packs(v)
    BY <1>2 DEF Packs
<1>5. Cardinality(Packs(w) \cup {q}) = Cardinality(Packs(w)) + 1
    BY <1>1, PacksFinite, FS_AddElement
<1>6. row[w] \in Rows /\ Pack \in Nat /\ Starter \in Nat
    BY <1>1, CreditAssumption DEF BalanceInv, TypeOK, CreditAssumption
<1>7. row'[w].granted = row[w].granted + Pack
    BY <1>1, <1>6 DEF BalanceInv, TypeOK, Rows
<1>8. row[w].granted = Starter + Pack * Cardinality(Packs(w))
    BY <1>1 DEF GrantInv
<1>9. row'[w].granted = Starter + Pack * Cardinality(Packs(w)')
  <2> DEFINE n == Cardinality(Packs(w))
  <2>1. n \in Nat
      BY PacksFinite
  <2>2. Cardinality(Packs(w)') = n + 1
      BY <1>3, <1>5
  <2> HIDE DEF n
  <2>3. Pack * n \in Nat /\ Pack * (n + 1) = Pack * n + Pack
      BY <2>1, PackTimes
  <2>4. row[w].granted = Starter + Pack * n
      BY <1>8 DEF n
  <2> QED
      BY <1>6, <1>7, <2>2, <2>3, <2>4
<1>10. \A v \in wallets \ {w} : row'[v].granted = row[v].granted
    BY <1>1 DEF BalanceInv, TypeOK
<1>11. \A v \in wallets' :
         row'[v].granted = Starter + Pack * Cardinality(Packs(v)')
    BY <1>1, <1>4, <1>9, <1>10 DEF GrantInv, BalanceInv, TypeOK
<1>12. \A v \in Devices \ wallets' : Packs(v)' = {}
    BY <1>1, <1>4 DEF GrantInv
<1> QED
    BY <1>11, <1>12 DEF GrantInv

LEMMA InitGrants == Init => GrantInv
    BY DEF Init, GrantInv, Packs, Granted

LEMMA NextKeepsGrants ==
    BalanceInv /\ GrantInv /\ [Next]_vars => GrantInv'
<1> SUFFICES ASSUME BalanceInv, GrantInv, [Next]_vars PROVE GrantInv'
    OBVIOUS
<1>0. /\ \A d \in Devices : \A w \in DeviceWallets(d) : w \in Devices
      /\ \A a \in Accounts : \A w \in AccountWallets(a) :
           w \in Devices /\ w \in wallets
    BY DEF DeviceWallets, AccountWallets, BalanceInv, TypeOK
<1>1. CASE \E d \in Devices, used \in LegacyUses : Sync(d, used)
    BY <1>0, <1>1, TouchGrantsNothing, QuietKeepsGrants DEF Sync
<1>2. CASE \E a \in Accounts : SyncAccount(a)
    BY <1>0, <1>2, TouchGrantsNothing, QuietKeepsGrants DEF SyncAccount
<1>3. CASE \E d \in Devices, k \in Keys : Reserve(d, k)
    BY <1>0, <1>3, ReserveGrantsNothing, QuietKeepsGrants DEF Reserve
<1>4. CASE \E a \in Accounts, k \in Keys : ReserveForAccount(a, k)
    BY <1>0, <1>4, ReserveGrantsNothing, QuietKeepsGrants DEF ReserveForAccount
<1>5. CASE \E d \in Devices, k \in Keys, outcome \in {"committed", "released"} :
             Finalize(d, k, outcome)
    BY <1>5, FinalizeGrantsNothing, QuietKeepsGrants DEF Finalize
<1>6. CASE \E a \in Accounts, k \in Keys, outcome \in {"committed", "released"} :
             FinalizeForAccount(a, k, outcome)
    BY <1>0, <1>6, FinalizeGrantsNothing, QuietKeepsGrants DEF FinalizeForAccount
<1>7. CASE \E d \in Devices, r \in Requests : QuotePack(d, r)
    BY <1>7, QuoteGrantsNothing, QuietKeepsGrants
<1>8. CASE \E w \in Devices, r \in Requests : Fulfill(w, r)
    BY <1>8, FulfillKeepsGrants
<1>9. CASE \E a \in Accounts, d \in Devices :
             BindFirst(a, d) \/ BindNew(a, d) \/ BindExisting(a, d)
    BY <1>9, BindingsGrantNothing, QuietKeepsGrants
<1>10. CASE UNCHANGED <<wallets, row, ledger>>
    BY <1>10 DEF GrantInv, Packs, Granted
<1> QED
    BY <1>1, <1>2, <1>3, <1>4, <1>5, <1>6, <1>7, <1>8, <1>9, <1>10
    DEF Next, vars, CreateSession, Pay, Lapse

\* However often the events of a paid Session are delivered, its wallet gets the
\* pack once (fulfillDownloadCreditPackCheckout, grantPurchasedCreditsToWallet).
THEOREM PackGrantedOnce == Spec => []GrantedOncePerSession
<1>1. GrantInv => GrantedOncePerSession
    BY DEF GrantInv, GrantedOncePerSession, Packs
<1> QED
    BY <1>1, InitGrants, NextKeepsGrants, BalanceInvariant, PTL DEF Spec

-----------------------------------------------------------------------------
(***************************************************************************)
(* bindDownloadCreditAccount among all the other operations: an account     *)
(* owns one wallet, a bound device always reaches it, and no open           *)
(* reservation stays on a wallet its device has left.                       *)
(***************************************************************************)

OneWalletPerAccount ==
    \A v, w \in wallets :
        row[v].account = row[w].account /\ row[v].account # NoAccount => v = w

\* Only BindFirst gives a wallet an owner, and it binds that device as well.
OwnerIsBound ==
    \A w \in wallets : row[w].account # NoAccount => alias[w] = row[w].account

BoundHasWallet ==
    \A d \in Devices : alias[d] # NoAccount => AccountWallets(alias[d]) # {}

BindingInv ==
    /\ BalanceInv
    /\ OneWalletPerAccount
    /\ OwnerIsBound
    /\ BoundHasWallet
    /\ NoReservationLeftBehind

-----------------------------------------------------------------------------
\* A wallet that some device or account reaches is reached by its own device:
\* so nothing but a grant ever touches a wallet left behind.
LEMMA ReachedByOwnDevice ==
    ASSUME BindingInv, NEW w \in Devices,
           \/ \E d \in Devices : w \in DeviceWallets(d)
           \/ \E a \in Accounts : w \in AccountWallets(a)
    PROVE  w \in DeviceWallets(w)
<1>1. CASE \E a \in Accounts : w \in AccountWallets(a)
  <2>1. w \in wallets /\ row[w].account # NoAccount
      BY <1>1, CreditAssumption DEF AccountWallets, CreditAssumption
  <2>2. alias[w] = row[w].account
      BY <2>1 DEF BindingInv, OwnerIsBound
  <2> QED
      BY <2>1, <2>2 DEF DeviceWallets, AccountWallets
<1>2. CASE \E d \in Devices : w \in DeviceWallets(d)
  <2>1. PICK d \in Devices : w \in DeviceWallets(d)
      BY <1>2
  <2>2. CASE w = d
      BY <2>1, <2>2
  <2>3. CASE w # d
    <3>1. alias[d] # NoAccount /\ w \in AccountWallets(alias[d])
        BY <2>1, <2>3 DEF DeviceWallets
    <3>2. alias[d] \in Accounts
        BY <3>1 DEF BindingInv, BalanceInv, TypeOK
    <3> QED
        BY <1>1, <3>1, <3>2
  <2> QED
      BY <2>2, <2>3
<1> QED
    BY <1>1, <1>2

\* An operation that changes no owner and no alias changes nobody's wallet.
SameOwners(w) ==
    /\ wallets' = wallets \cup {w}
    /\ \A v \in wallets : row'[v].account = row[v].account
    /\ w \notin wallets => row'[w].account = NoAccount
    /\ alias' = alias

LEMMA SameOwnersSameWallets ==
    ASSUME BindingInv, NEW w \in Devices, SameOwners(w)
    PROVE  /\ \A a \in Accounts : AccountWallets(a)' = AccountWallets(a)
           /\ \A d \in Devices : DeviceWallets(d)' = DeviceWallets(d)
           /\ (OneWalletPerAccount /\ OwnerIsBound /\ BoundHasWallet)'
<1>1. \A a \in Accounts : AccountWallets(a)' = AccountWallets(a)
    BY CreditAssumption DEF AccountWallets, SameOwners, CreditAssumption
<1>2. \A d \in Devices : alias[d] # NoAccount => alias[d] \in Accounts
    BY DEF BindingInv, BalanceInv, TypeOK
<1>3. \A d \in Devices : DeviceWallets(d)' = DeviceWallets(d)
    BY <1>1, <1>2 DEF DeviceWallets, SameOwners
<1>4. OneWalletPerAccount'
    BY DEF OneWalletPerAccount, SameOwners, BindingInv
<1>5. \A v \in wallets' : row'[v].account # NoAccount
          => v \in wallets /\ row'[v].account = row[v].account
    BY DEF SameOwners
<1>6. OwnerIsBound'
    BY <1>5 DEF OwnerIsBound, SameOwners, BindingInv
<1>7. BoundHasWallet'
    BY <1>1, <1>2 DEF BoundHasWallet, SameOwners, BindingInv
<1> QED
    BY <1>1, <1>3, <1>4, <1>6, <1>7

LEMMA ReachedKeepsBinding ==
    ASSUME BindingInv, BalanceInv', NEW w \in Devices, SameOwners(w),
           w \in DeviceWallets(w),
           \A v \in Devices : v # w => reservation'[v] = reservation[v]
    PROVE  BindingInv'
<1>1. NoReservationLeftBehind'
  <2> SUFFICES ASSUME NEW d \in wallets', d \notin DeviceWallets(d)'
               PROVE  Reserved(d)' = {}
      BY DEF NoReservationLeftBehind
  <2>1. d \in Devices
      BY DEF BalanceInv, TypeOK
  <2>2. d \notin DeviceWallets(d)
      BY <2>1, SameOwnersSameWallets
  <2>3. d # w /\ d \in wallets
      BY <2>2 DEF SameOwners
  <2>4. Reserved(d) = {}
      BY <2>2, <2>3 DEF BindingInv, NoReservationLeftBehind
  <2> QED
      BY <2>1, <2>3, <2>4 DEF Reserved
<1> QED
    BY <1>1, SameOwnersSameWallets DEF BindingInv

-----------------------------------------------------------------------------
\* The operations on the wallet a device or an account reaches.
Owner(w) == IF w \in wallets THEN row[w].account ELSE NoAccount

LEMMA OpenedOwner ==
    ASSUME BalanceInv, NEW w \in Devices, NEW used
    PROVE  Opened(w, used).account = Owner(w)
    BY ReleasedType DEF Opened, Owner

LEMMA WriteSameOwners ==
    ASSUME BalanceInv, NEW w \in Devices, NEW r, NEW res, NEW es,
           Write(w, r, res, es), r.account = Owner(w), alias' = alias
    PROVE  /\ SameOwners(w)
           /\ \A v \in Devices : v # w => reservation'[v] = reservation[v]
    BY DEF Write, SameOwners, Owner, BalanceInv, TypeOK

LEMMA OperationSameOwners ==
    ASSUME BalanceInv, NEW w \in Devices, NEW k, NEW used, NEW outcome,
           \/ Touch(w, used)
           \/ ReserveOn(w, k)
           \/ w \in wallets /\ FinalizeOn(w, k, outcome),
           alias' = alias
    PROVE  /\ SameOwners(w)
           /\ \A v \in Devices : v # w => reservation'[v] = reservation[v]
<1>1. ASSUME NEW u, Touch(w, u)
      PROVE  /\ SameOwners(w)
             /\ \A v \in Devices : v # w => reservation'[v] = reservation[v]
    BY <1>1, OpenedOwner, WriteSameOwners DEF Touch
<1>2. CASE ReserveOn(w, k)
  <2>1. [Opened(w, 0) EXCEPT !.available = @ - Cost].account = Owner(w)
    <3>1. Opened(w, 0) \in Rows
        BY Zero, OpenedBalanced
    <3> QED
        BY <3>1, OpenedOwner DEF Rows
  <2> QED
      BY <1>1, <1>2, <2>1, WriteSameOwners DEF ReserveOn
<1>3. CASE w \in wallets /\ FinalizeOn(w, k, outcome)
  <2>1. Released(w) \in Rows /\ Released(w).account = Owner(w)
      BY <1>3, ReleasedType DEF Owner
  <2>2. /\ [Released(w) EXCEPT !.spent = @ + Cost].account = Owner(w)
        /\ [Released(w) EXCEPT !.available = @ + Cost].account = Owner(w)
      BY <2>1 DEF Rows
  <2>3. CASE Commit(w, k)
      BY <2>2, <2>3, WriteSameOwners DEF Commit
  <2>4. CASE Release(w, k)
      BY <2>2, <2>4, WriteSameOwners DEF Release
  <2>5. CASE Touch(w, 0)
      BY <1>1, <2>5
  <2> QED
      BY <1>3, <2>3, <2>4, <2>5 DEF FinalizeOn
<1> QED
    BY <1>1, <1>2, <1>3

LEMMA OperationKeepsBinding ==
    ASSUME BindingInv, BalanceInv', NEW w,
           \/ \E d \in Devices : w \in DeviceWallets(d)
           \/ \E a \in Accounts : w \in AccountWallets(a),
           NEW k, NEW used, NEW outcome,
           \/ Touch(w, used)
           \/ ReserveOn(w, k)
           \/ w \in wallets /\ FinalizeOn(w, k, outcome),
           alias' = alias
    PROVE  BindingInv'
<1>1. w \in Devices
    BY DEF BindingInv, BalanceInv, TypeOK, DeviceWallets, AccountWallets
<1>2. w \in DeviceWallets(w)
    BY <1>1, ReachedByOwnDevice
<1>3. /\ SameOwners(w)
      /\ \A v \in Devices : v # w => reservation'[v] = reservation[v]
    BY <1>1, OperationSameOwners DEF BindingInv
<1> QED
    BY <1>1, <1>2, <1>3, ReachedKeepsBinding

\* A purchase, a payment or a lapse changes no owner and opens no reservation.
LEMMA QuietKeepsBinding ==
    ASSUME BindingInv, BalanceInv', NEW w \in Devices, SameOwners(w),
           reservation' = reservation
    PROVE  BindingInv'
<1>1. NoReservationLeftBehind'
  <2> SUFFICES ASSUME NEW d \in wallets', d \notin DeviceWallets(d)'
               PROVE  Reserved(d)' = {}
      BY DEF NoReservationLeftBehind
  <2>1. d \in Devices /\ d \notin DeviceWallets(d)
      BY SameOwnersSameWallets DEF BalanceInv, TypeOK
  <2>2. CASE d \in wallets
      BY <2>1, <2>2 DEF BindingInv, NoReservationLeftBehind, Reserved
  <2>3. CASE d \notin wallets
      BY <2>1, <2>3 DEF BindingInv, BalanceInv, UnopenedIsEmpty, Reserved
  <2> QED
      BY <2>2, <2>3
<1> QED
    BY <1>1, SameOwnersSameWallets DEF BindingInv

-----------------------------------------------------------------------------
\* The first binding of an account gives it exactly one wallet, the device's.
LEMMA BindFirstKeepsBinding ==
    ASSUME BindingInv, BalanceInv', NEW a \in Accounts, NEW d \in Devices,
           BindFirst(a, d)
    PROVE  BindingInv'
<1>1. /\ alias[d] = NoAccount /\ AccountWallets(a) = {}
      /\ row[d].account = NoAccount
      /\ alias' = [alias EXCEPT ![d] = a]
      /\ Write(d, [Opened(d, 0) EXCEPT !.account = a], Settled(d),
               OpeningEntries(d, 0))
    BY DEF BindFirst
<1>2. Opened(d, 0) \in Rows
    BY Zero, OpenedBalanced DEF BindingInv
<1>3. [Opened(d, 0) EXCEPT !.account = a].account = a
    BY <1>2 DEF Rows
<1>4. /\ wallets' = wallets \cup {d} /\ row'[d].account = a
      /\ \A v \in wallets : v # d => row'[v].account = row[v].account
      /\ \A v \in Devices : v # d => reservation'[v] = reservation[v]
    BY <1>1, <1>3 DEF Write, BindingInv, BalanceInv, TypeOK
<1>5. a # NoAccount /\ alias'[d] = a
      /\ \A v \in Devices : v # d => alias'[v] = alias[v]
    BY <1>1, CreditAssumption DEF CreditAssumption, BindingInv, BalanceInv, TypeOK
<1>6. \A v \in wallets : row[v].account # a
    BY <1>1 DEF AccountWallets
<1>7. wallets \subseteq Devices
    BY DEF BindingInv, BalanceInv, TypeOK
<1>8. OneWalletPerAccount'
    BY <1>4, <1>5, <1>6 DEF BindingInv, OneWalletPerAccount
<1>9. OwnerIsBound'
    BY <1>4, <1>5, <1>7 DEF BindingInv, OwnerIsBound
<1>10. AccountWallets(a)' = {d}
    BY <1>4, <1>6 DEF AccountWallets
<1>11. \A b \in Accounts : b # a => AccountWallets(b)' = AccountWallets(b)
    BY <1>1, <1>4, CreditAssumption DEF AccountWallets, CreditAssumption
<1>12. BoundHasWallet'
  <2> SUFFICES ASSUME NEW v \in Devices, alias'[v] # NoAccount
               PROVE  AccountWallets(alias[v])' # {}
      BY DEF BoundHasWallet
  <2>1. CASE alias'[v] = a
      BY <1>10, <2>1 DEF AccountWallets
  <2>2. CASE alias'[v] # a
    <3>1. alias'[v] = alias[v] /\ alias[v] \in Accounts
        BY <1>5, <2>2 DEF BindingInv, BalanceInv, TypeOK
    <3>2. AccountWallets(alias[v]) # {}
        BY <3>1 DEF BindingInv, BoundHasWallet
    <3>3. PICK w \in wallets : row[w].account = alias[v]
        BY <3>2 DEF AccountWallets
    <3>4. w \in wallets' /\ row'[w].account = alias'[v]
        BY <1>1, <1>4, <3>1, <3>3 
    <3> QED
        BY <3>4 DEF AccountWallets
  <2> QED
      BY <2>1, <2>2
<1>13. NoReservationLeftBehind'
  <2> SUFFICES ASSUME NEW v \in wallets', v \notin DeviceWallets(v)'
               PROVE  Reserved(v)' = {}
      BY DEF NoReservationLeftBehind
  <2>1. v # d
      BY <1>4, <1>5 DEF DeviceWallets, AccountWallets
  <2>2. v \in wallets /\ v \in Devices /\ alias'[v] = alias[v]
      BY <1>4, <1>5, <1>7, <2>1
  <2>3. v \notin DeviceWallets(v)
    <3> SUFFICES ASSUME v \in DeviceWallets(v) PROVE FALSE
        OBVIOUS
    <3>1. CASE alias[v] = NoAccount
        BY <2>2, <3>1 DEF DeviceWallets
    <3>2. CASE alias[v] # NoAccount
      <4>1. row[v].account = alias[v]
          BY <2>2, <3>2 DEF DeviceWallets, AccountWallets, BindingInv,
                            BoundHasWallet
      <4>2. row'[v].account = alias'[v] /\ v \in wallets'
          BY <1>4, <2>1, <2>2, <4>1
      <4> QED
          BY <4>2 DEF DeviceWallets, AccountWallets
    <3> QED
        BY <3>1, <3>2
  <2>4. Reserved(v) = {}
      BY <2>2, <2>3 DEF BindingInv, NoReservationLeftBehind
  <2> QED
      BY <1>4, <2>1, <2>2, <2>4 DEF Reserved
<1> QED
    BY <1>8, <1>9, <1>12, <1>13 DEF BindingInv

\* A later binding changes no owner; the wallet its device leaves, if there is
\* one, holds no open reservation any more.
LEMMA LaterBindingKeeps ==
    ASSUME BindingInv, BalanceInv', NEW a \in Accounts, NEW d \in Devices,
           AccountWallets(a) # {}, wallets' = wallets,
           \A v \in wallets : row'[v].account = row[v].account,
           d \in wallets => row[d].account = NoAccount,
           alias[d] = NoAccount, alias' = [alias EXCEPT ![d] = a],
           \A v \in wallets : Reserved(v)' \subseteq Reserved(v),
           d \in wallets => Reserved(d)' = {}
    PROVE  BindingInv'
<1>1. a # NoAccount /\ alias'[d] = a
      /\ \A v \in Devices : v # d => alias'[v] = alias[v]
    BY CreditAssumption DEF CreditAssumption, BindingInv, BalanceInv, TypeOK
<1>2. \A b \in Accounts : AccountWallets(b)' = AccountWallets(b)
    BY DEF AccountWallets
<1>3. OneWalletPerAccount'
    BY DEF BindingInv, OneWalletPerAccount
<1>4. wallets \subseteq Devices
    BY DEF BindingInv, BalanceInv, TypeOK
<1>5. OwnerIsBound'
    BY <1>1, <1>4 DEF BindingInv, OwnerIsBound
<1>6. \A v \in Devices : alias'[v] # NoAccount
          => alias'[v] \in Accounts /\ AccountWallets(alias'[v]) # {}
  <2>1. \A v \in Devices : v # d /\ alias[v] # NoAccount
            => alias[v] \in Accounts /\ AccountWallets(alias[v]) # {}
      BY DEF BindingInv, BalanceInv, TypeOK, BoundHasWallet
  <2> QED
      BY <1>1, <2>1
<1>7. BoundHasWallet'
    BY <1>2, <1>6 DEF BoundHasWallet
<1>8. NoReservationLeftBehind'
  <2> SUFFICES ASSUME NEW v \in wallets', v \notin DeviceWallets(v)'
               PROVE  Reserved(v)' = {}
      BY DEF NoReservationLeftBehind
  <2>1. CASE v = d
      BY <2>1
  <2>2. CASE v # d
    <3>1. v \in wallets /\ v \in Devices /\ alias'[v] = alias[v]
        BY <1>1, <1>4, <2>2
    <3>2. alias[v] # NoAccount
        BY <3>1 DEF DeviceWallets
    <3>3. AccountWallets(alias[v]) # {} /\ alias[v] \in Accounts
        BY <1>6, <3>1, <3>2
    <3>4. DeviceWallets(v)' = DeviceWallets(v)
        BY <1>2, <3>1, <3>3 DEF DeviceWallets
    <3>5. Reserved(v) = {}
        BY <3>1, <3>4 DEF BindingInv, NoReservationLeftBehind
    <3> QED
        BY <3>1, <3>5
  <2> QED
      BY <2>1, <2>2
<1> QED
    BY <1>3, <1>5, <1>7, <1>8 DEF BindingInv

LEMMA SettledReserves ==
    ASSUME BalanceInv, NEW w \in Devices
    PROVE  {k \in Keys : Settled(w)[k] = "reserved"} \subseteq Reserved(w)
    BY DEF Settled, Reserved

LEMMA BindNewKeepsBinding ==
    ASSUME BindingInv, BalanceInv', NEW a \in Accounts, NEW d \in Devices,
           BindNew(a, d)
    PROVE  BindingInv'
<1>1. /\ alias[d] = NoAccount /\ d \notin wallets
      /\ alias' = [alias EXCEPT ![d] = a]
    BY DEF BindNew
<1>2. PICK o \in AccountWallets(a) : Touch(o, 0)
    BY DEF BindNew
<1>3. o \in wallets /\ o \in Devices
    BY <1>2 DEF AccountWallets, BindingInv, BalanceInv, TypeOK
<1>4. Opened(o, 0).account = row[o].account
    BY <1>3, OpenedOwner DEF Owner, BindingInv
<1>5. wallets' = wallets
      /\ \A v \in wallets : row'[v].account = row[v].account
    BY <1>2, <1>3, <1>4 DEF Touch, Write, BindingInv, BalanceInv, TypeOK
<1>6. \A v \in wallets : Reserved(v)' \subseteq Reserved(v)
    BY <1>2, <1>3, SettledReserves
       DEF Touch, Write, Reserved, BindingInv, BalanceInv, TypeOK
<1> QED
    BY <1>1, <1>2, <1>5, <1>6, LaterBindingKeeps

LEMMA BindExistingKeepsBinding ==
    ASSUME BindingInv, BalanceInv', NEW a \in Accounts, NEW d \in Devices,
           BindExisting(a, d)
    PROVE  BindingInv'
<1>1. /\ alias[d] = NoAccount /\ d \in wallets /\ row[d].account = NoAccount
      /\ alias' = [alias EXCEPT ![d] = a] /\ wallets' = wallets
    BY DEF BindExisting
<1>2. PICK o \in AccountWallets(a) :
        /\ MayMerge(o, d)
        /\ row' = [row EXCEPT
              ![d] = Released(d),
              ![o] = [Released(o) EXCEPT !.available = @ - Imported(o, d),
                                         !.spent = @ + Imported(o, d)]]
        /\ reservation' = [reservation EXCEPT ![d] = Settled(d),
                                              ![o] = Settled(o)]
    BY DEF BindExisting
<1>3. o \in wallets /\ o \in Devices /\ o # d
    BY <1>1, <1>2, CreditAssumption
       DEF AccountWallets, BindingInv, BalanceInv, TypeOK, CreditAssumption
<1>4. /\ Released(o) \in Rows /\ Released(o).account = row[o].account
      /\ Released(d).account = row[d].account
    BY <1>3, ReleasedType DEF BindingInv
<1>5. [Released(o) EXCEPT !.available = @ - Imported(o, d),
                          !.spent = @ + Imported(o, d)].account = row[o].account
    BY <1>4 DEF Rows
<1>6. \A v \in wallets : row'[v].account = row[v].account
    BY <1>2, <1>3, <1>4, <1>5 DEF BindingInv, BalanceInv, TypeOK
<1>7. \A v \in wallets : Reserved(v)' \subseteq Reserved(v)
  <2>1. reservation'[d] = Settled(d) /\ reservation'[o] = Settled(o)
        /\ \A v \in Devices : v # d /\ v # o => reservation'[v] = reservation[v]
      BY <1>2, <1>3 DEF BindingInv, BalanceInv, TypeOK
  <2>2. Reserved(d)' \subseteq Reserved(d) /\ Reserved(o)' \subseteq Reserved(o)
      BY <1>3, <2>1, SettledReserves DEF Reserved, BindingInv
  <2>3. \A v \in Devices : v # d /\ v # o => Reserved(v)' = Reserved(v)
      BY <2>1 DEF Reserved
  <2> QED
      BY <2>2, <2>3 DEF BindingInv, BalanceInv, TypeOK
<1>8. Reserved(d)' = {}
    BY <1>2, <1>3 DEF MayMerge, Reserved, BindingInv, BalanceInv, TypeOK
<1>9. AccountWallets(a) # {}
    BY <1>2
<1> QED
    BY <1>1, <1>6, <1>7, <1>8, <1>9, LaterBindingKeeps

-----------------------------------------------------------------------------
LEMMA InitBinding == Init => BindingInv
    BY InitBalance
       DEF Init, BindingInv, OneWalletPerAccount, OwnerIsBound, BoundHasWallet,
           NoReservationLeftBehind

LEMMA NextKeepsBinding ==
    ASSUME BindingInv, [Next]_vars
    PROVE  BindingInv'
<1>0. BalanceInv'
    BY NextKeepsBalance DEF BindingInv
<1>1. CASE \E d \in Devices, used \in LegacyUses : Sync(d, used)
    BY <1>0, <1>1, OperationKeepsBinding DEF Sync
<1>2. CASE \E a \in Accounts : SyncAccount(a)
    BY <1>0, <1>2, OperationKeepsBinding DEF SyncAccount
<1>3. CASE \E d \in Devices, k \in Keys : Reserve(d, k)
    BY <1>0, <1>3, OperationKeepsBinding DEF Reserve
<1>4. CASE \E a \in Accounts, k \in Keys : ReserveForAccount(a, k)
    BY <1>0, <1>4, OperationKeepsBinding DEF ReserveForAccount
<1>5. CASE \E d \in Devices, k \in Keys, outcome \in {"committed", "released"} :
             Finalize(d, k, outcome)
    BY <1>0, <1>5, OperationKeepsBinding DEF Finalize
<1>6. CASE \E a \in Accounts, k \in Keys, outcome \in {"committed", "released"} :
             FinalizeForAccount(a, k, outcome)
  <2>1. PICK a \in Accounts, k \in Keys, outcome \in {"committed", "released"} :
             FinalizeForAccount(a, k, outcome)
      BY <1>6
  <2>2. PICK w \in AccountWallets(a) : FinalizeOn(w, k, outcome)
      BY <2>1 DEF FinalizeForAccount
  <2>3. w \in wallets /\ alias' = alias
      BY <2>1, <2>2 DEF AccountWallets, FinalizeForAccount
  <2> QED
      BY <1>0, <2>1, <2>2, <2>3, OperationKeepsBinding
<1>7. CASE \E d \in Devices, r \in Requests : QuotePack(d, r)
  <2>1. PICK d \in Devices, r \in Requests : QuotePack(d, r)
      BY <1>7
  <2>2. PICK w \in DeviceWallets(d) :
          IF w \in wallets THEN UNCHANGED <<wallets, row, ledger>>
          ELSE /\ wallets' = wallets \cup {w}
               /\ row' = [row EXCEPT ![w] = Opened(w, 0)]
      BY <2>1 DEF QuotePack
  <2>3. w \in Devices /\ alias' = alias /\ reservation' = reservation
      BY <2>1 DEF DeviceWallets, AccountWallets, BindingInv, BalanceInv, TypeOK,
                  QuotePack
  <2>4. w \notin wallets => Opened(w, 0).account = NoAccount
      BY <2>3, OpenedOwner DEF Owner, BindingInv
  <2>5. SameOwners(w)
      BY <2>2, <2>3, <2>4 DEF SameOwners, BindingInv, BalanceInv, TypeOK
  <2> QED
      BY <1>0, <2>3, <2>5, QuietKeepsBinding
<1>8. CASE \E w \in Devices, r \in Requests : Fulfill(w, r)
  <2>1. PICK w \in Devices, r \in Requests : Fulfill(w, r)
      BY <1>8
  <2>2. w \in wallets /\ wallets' = wallets /\ alias' = alias
        /\ reservation' = reservation
      BY <2>1 DEF Fulfill, Grant
  <2>3. row' = [row EXCEPT ![w].available = @ + Pack, ![w].granted = @ + Pack]
      BY <2>1 DEF Fulfill, Grant
  <2>4. \A v \in wallets : row'[v].account = row[v].account
      BY <2>3 DEF BindingInv, BalanceInv, TypeOK, Rows
  <2>5. SameOwners(w)
      BY <2>2, <2>4 DEF SameOwners
  <2> QED
      BY <1>0, <2>2, <2>5, QuietKeepsBinding
<1>9. CASE \/ \E w \in Devices, r \in Requests : CreateSession(w, r)
           \/ \E w \in Devices, r \in Requests : Pay(w, r)
           \/ \E w \in Devices, k \in Keys : Lapse(w, k)
           \/ UNCHANGED vars
  <2>1. UNCHANGED <<wallets, row, alias, reservation>>
      BY <1>9 DEF CreateSession, Pay, Lapse, vars
  <2> QED
      BY <1>0, <2>1
         DEF BindingInv, OneWalletPerAccount, OwnerIsBound, BoundHasWallet,
             NoReservationLeftBehind, AccountWallets, DeviceWallets, Reserved
<1>10. CASE \E a \in Accounts, d \in Devices : BindFirst(a, d)
    BY <1>0, <1>10, BindFirstKeepsBinding
<1>11. CASE \E a \in Accounts, d \in Devices : BindNew(a, d)
    BY <1>0, <1>11, BindNewKeepsBinding
<1>12. CASE \E a \in Accounts, d \in Devices : BindExisting(a, d)
    BY <1>0, <1>12, BindExistingKeepsBinding
<1> QED
    BY <1>1, <1>2, <1>3, <1>4, <1>5, <1>6, <1>7, <1>8, <1>9, <1>10, <1>11,
       <1>12 DEF Next

LEMMA BindingInvariant == Spec => []BindingInv
    BY InitBinding, NextKeepsBinding, PTL DEF Spec

\* A binding never strands a download in progress: the wallet a device has
\* left for its account's holds no open reservation, now or later.
THEOREM NothingLeftBehind == Spec => []NoReservationLeftBehind
<1>1. BindingInv => NoReservationLeftBehind
    BY DEF BindingInv
<1> QED
    BY <1>1, BindingInvariant, PTL

\* A bound device reaches exactly one wallet, its account's: it can never fall
\* back to an installation wallet with an allowance of its own.
THEOREM BoundDeviceReachesAccount == Spec => []BoundDeviceHasAccountWallet
<1>1. BindingInv => BoundDeviceHasAccountWallet
  <2> SUFFICES ASSUME BindingInv, NEW d \in Devices, alias[d] # NoAccount
               PROVE  \E w \in wallets : AccountWallets(alias[d]) = {w}
      BY DEF BoundDeviceHasAccountWallet
  <2>1. PICK w \in wallets : row[w].account = alias[d]
      BY DEF BindingInv, BoundHasWallet, AccountWallets
  <2>2. AccountWallets(alias[d]) = {w}
      BY <2>1 DEF BindingInv, OneWalletPerAccount, AccountWallets
  <2> QED
      BY <2>2
<1> QED
    BY <1>1, BindingInvariant, PTL

-----------------------------------------------------------------------------
(***************************************************************************)
(* Adding up a finite set of entries.  MapThenSumSet is a recursion over    *)
(* the subsets that takes out the chosen element; instead of an induction   *)
(* each fact is proved for a smallest subset that would violate it.         *)
(***************************************************************************)
SumOf(S) == MapThenSumSet(LAMBDA e : e.delta, S)

Some(s) == CHOOSE x \in s : TRUE
Rest(s) == s \ {Some(s)}
Summed(g, S) == [s \in SUBSET S |-> IF s = {} THEN 0 ELSE Some(s).delta + g[Rest(s)]]

\* Among some subsets of a finite set one has none of the others inside it.
LEMMA Smallest ==
    ASSUME NEW S, IsFiniteSet(S), NEW F \in SUBSET (SUBSET S), F # {}
    PROVE  \E T \in F : \A U \in F : U \subseteq T => U = T
<1>1. IsWellFoundedOn(StrictSubsetOrdering(S), FiniteSubsetsOf(S))
    BY FS_StrictSubsetOrderingWellFounded
<1>2. F \subseteq FiniteSubsetsOf(S)
    BY FS_FiniteSubsetsOfFinite
<1>3. PICK T \in F : \A U \in F : ~(<<U, T>> \in StrictSubsetOrdering(S))
    BY <1>1, <1>2, WFMin
<1>4. ASSUME NEW U \in F, U \subseteq T PROVE U = T
    BY <1>3, <1>4 DEF StrictSubsetOrdering
<1> QED
    BY <1>4

LEMMA RestOf ==
    ASSUME NEW s, s # {}
    PROVE  Some(s) \in s /\ Rest(s) \subseteq s /\ Rest(s) # s
    BY DEF Some, Rest

\* Two such sums agree where both are defined.
LEMMA SumsAgree ==
    ASSUME NEW S, NEW T, IsFiniteSet(S), NEW g, NEW h, g = Summed(g, S), h = Summed(h, T),
           NEW W \in SUBSET S, W \in SUBSET T
    PROVE  g[W] = h[W]
<1> DEFINE F == {U \in SUBSET W : g[U] # h[U]}
<1> SUFFICES ASSUME g[W] # h[W] PROVE FALSE
    OBVIOUS
<1>1. W \in F /\ F \in SUBSET (SUBSET S)
    OBVIOUS
<1>2. PICK U \in F : \A V \in F : V \subseteq U => V = U
  <2> HIDE DEF F
  <2> QED
      BY <1>1, Smallest
<1>3. U \in SUBSET S /\ U \in SUBSET T /\ g[U] # h[U]
    OBVIOUS
<1>4. /\ g[U] = IF U = {} THEN 0 ELSE Some(U).delta + g[Rest(U)]
      /\ h[U] = IF U = {} THEN 0 ELSE Some(U).delta + h[Rest(U)]
    BY <1>3 DEF Summed
<1>5. U # {} => Rest(U) \in SUBSET W /\ Rest(U) \notin F
    BY <1>2, RestOf
<1> QED
    BY <1>3, <1>4, <1>5

\* There is one for every finite set.
LEMMA SumExists ==
    ASSUME NEW S, IsFiniteSet(S)
    PROVE  \E g : g = Summed(g, S)
<1> DEFINE F == {T \in SUBSET S : ~\E g : g = Summed(g, T)}
<1> SUFFICES ASSUME F # {} PROVE FALSE
    OBVIOUS
<1>1. F \in SUBSET (SUBSET S)
    OBVIOUS
<1>2. PICK T \in F : \A U \in F : U \subseteq T => U = T
  <2> HIDE DEF F
  <2> QED
      BY <1>1, Smallest
<1>3. T \in SUBSET S /\ ~\E g : g = Summed(g, T)
    OBVIOUS
<1> DEFINE Part(U) == CHOOSE g : g = Summed(g, U)
           h == [s \in SUBSET T |-> IF s = {} THEN 0 ELSE Some(s).delta + Part(Rest(s))[Rest(s)]]
<1>4. \A U : U \subseteq T /\ U # T => U \in SUBSET S /\ Part(U) = Summed(Part(U), U)
    BY <1>2
<1>5. ASSUME NEW s \in SUBSET T
      PROVE  h[s] = IF s = {} THEN 0 ELSE Some(s).delta + h[Rest(s)]
  <2>1. CASE s = {}
      BY <2>1
  <2>2. CASE s # {}
    <3>1. PICK r : r = Rest(s)
        OBVIOUS
    <3>2. r \subseteq T /\ r # T /\ r \in SUBSET T
        BY <2>2, <3>1, RestOf
    <3>3. h[s] = Some(s).delta + Part(r)[r]
        BY <2>2, <3>1
    <3>4. Part(r)[r] = h[r]
      <4>1. h[r] = IF r = {} THEN 0 ELSE Some(r).delta + Part(Rest(r))[Rest(r)]
          BY <3>2
      <4>2. Part(r)[r] = IF r = {} THEN 0 ELSE Some(r).delta + Part(r)[Rest(r)]
        <5> HIDE DEF Part, h
        <5>1. PICK g : g = Part(r)
            OBVIOUS
        <5>2. g = Summed(g, r) /\ r \in SUBSET r
            BY <1>4, <3>2, <5>1
        <5>3. g[r] = IF r = {} THEN 0 ELSE Some(r).delta + g[Rest(r)]
            BY <5>2 DEF Summed
        <5> QED
            BY <5>1, <5>3
      <4>3. r # {} => Rest(r) \subseteq r /\ Rest(r) \subseteq T /\ Rest(r) # T
          BY <3>2, RestOf
      <4>4. r # {} => Part(r)[Rest(r)] = Part(Rest(r))[Rest(r)]
        <5> HIDE DEF Part, h
        <5>1. SUFFICES ASSUME r # {} PROVE Part(r)[Rest(r)] = Part(Rest(r))[Rest(r)]
            OBVIOUS
        <5>2. PICK q : q = Rest(r)
            OBVIOUS
        <5>3. Part(r) = Summed(Part(r), r) /\ Part(q) = Summed(Part(q), q)
            BY <1>4, <3>2, <4>3, <5>1, <5>2
        <5>4. q \in SUBSET r /\ q \in SUBSET q
            BY <4>3, <5>1, <5>2
        <5>5. IsFiniteSet(r)
            BY <1>3, <3>2, FS_Subset
        <5> QED
            BY <5>2, <5>3, <5>4, <5>5, SumsAgree
      <4> QED
          BY <4>1, <4>2, <4>4
    <3> QED
        BY <2>2, <3>1, <3>3, <3>4
  <2> QED
      BY <2>1, <2>2
<1>6. h = Summed(h, T)
  <2>1. h = [s \in SUBSET T |-> h[s]]
      OBVIOUS
  <2> HIDE DEF h
  <2> QED
      BY <1>5, <2>1 DEF Summed
<1> QED
    BY <1>3, <1>6

LEMMA SumIsSummed ==
    ASSUME NEW S, IsFiniteSet(S)
    PROVE  \E g : g = Summed(g, S) /\ SumOf(S) = g[S]
<1>1. PICK h : h = CHOOSE g : g = Summed(g, S)
    OBVIOUS
<1>2. h = Summed(h, S)
    BY <1>1, SumExists
<1>3. SumOf(S) = h[S]
    BY <1>1 DEF SumOf, MapThenSumSet, MapThenFoldSet, Summed, Some, Rest
<1> QED
    BY <1>2, <1>3

Whole(S) == \A e \in S : e.delta \in Int

LEMMA SummedType ==
    ASSUME NEW S, IsFiniteSet(S), Whole(S), NEW g, g = Summed(g, S), NEW W \in SUBSET S
    PROVE  g[W] \in Int
<1> DEFINE F == {U \in SUBSET S : g[U] \notin Int}
<1> SUFFICES ASSUME F # {} PROVE FALSE
    OBVIOUS
<1>1. F \in SUBSET (SUBSET S)
    OBVIOUS
<1>2. PICK U \in F : \A V \in F : V \subseteq U => V = U
  <2> HIDE DEF F
  <2> QED
      BY <1>1, Smallest
<1>3. U \in SUBSET S /\ g[U] \notin Int
    OBVIOUS
<1>4. g[U] = IF U = {} THEN 0 ELSE Some(U).delta + g[Rest(U)]
    BY <1>3 DEF Summed
<1>5. U # {} => Rest(U) \in SUBSET S /\ Rest(U) \notin F /\ Some(U) \in S
    BY <1>2, <1>3, RestOf
<1> QED
    BY <1>3, <1>4, <1>5 DEF Whole

\* It does not matter which element is taken out.
LEMMA AnyFirst ==
    ASSUME NEW S, IsFiniteSet(S), Whole(S), NEW g, g = Summed(g, S), NEW W \in SUBSET S, NEW x \in W
    PROVE  g[W] = x.delta + g[W \ {x}]
<1> DEFINE F == {U \in SUBSET S : \E y \in U : g[U] # y.delta + g[U \ {y}]}
<1> SUFFICES ASSUME F # {} PROVE FALSE
    OBVIOUS
<1>1. F \in SUBSET (SUBSET S)
    OBVIOUS
<1>2. PICK U \in F : \A V \in F : V \subseteq U => V = U
  <2> HIDE DEF F
  <2> QED
      BY <1>1, Smallest
<1>3. U \in SUBSET S
    OBVIOUS
<1>4. PICK y \in U : g[U] # y.delta + g[U \ {y}]
    OBVIOUS
<1>5. PICK z : z = Some(U)
    OBVIOUS
<1>6. z \in U /\ g[U] = z.delta + g[U \ {z}]
    BY <1>3, <1>4, <1>5, RestOf DEF Summed, Rest
<1>7. z # y
    BY <1>4, <1>6
<1>8. \A V : V \subseteq U /\ V # U => \A v \in V : g[V] = v.delta + g[V \ {v}]
    BY <1>2, <1>3
<1>9. g[U \ {z}] = y.delta + g[(U \ {z}) \ {y}]
    BY <1>4, <1>6, <1>7, <1>8
<1>10. g[U \ {y}] = z.delta + g[(U \ {y}) \ {z}]
    BY <1>4, <1>6, <1>7, <1>8
<1>11. PICK V : V = (U \ {y}) \ {z}
    OBVIOUS
<1>12. (U \ {z}) \ {y} = V
    BY <1>11
<1>13. g[V] \in Int
    BY <1>3, <1>11, SummedType
<1>14. y.delta \in Int /\ z.delta \in Int
    BY <1>3, <1>4, <1>6 DEF Whole
<1>15. g[U \ {z}] = y.delta + g[V] /\ g[U \ {y}] = z.delta + g[V]
    BY <1>9, <1>10, <1>11, <1>12
<1>16. g[U] = z.delta + (y.delta + g[V]) /\ g[U] # y.delta + (z.delta + g[V])
    BY <1>4, <1>6, <1>15
<1> QED
    BY <1>13, <1>14, <1>16

LEMMA SumType ==
    ASSUME NEW S, IsFiniteSet(S), Whole(S) PROVE SumOf(S) \in Int
    BY SumIsSummed, SummedType

LEMMA SumOfNone == SumOf({}) = 0
<1>1. PICK g : g = Summed(g, {}) /\ SumOf({}) = g[{}]
    BY SumIsSummed, FS_EmptySet
<1>2. g[{}] = 0
    BY <1>1 DEF Summed
<1> QED
    BY <1>1, <1>2

\* One entry more adds what it says.
LEMMA SumOfOneMore ==
    ASSUME NEW S, IsFiniteSet(S), NEW x, x \notin S, Whole(S \cup {x})
    PROVE  SumOf(S \cup {x}) = SumOf(S) + x.delta
<1>1. PICK T : T = S \cup {x}
    OBVIOUS
<1>2. IsFiniteSet(T)
    BY <1>1, FS_AddElement
<1>3. PICK g : g = Summed(g, T) /\ SumOf(T) = g[T]
    BY <1>2, SumIsSummed
<1>4. PICK h : h = Summed(h, S) /\ SumOf(S) = h[S]
    BY SumIsSummed
<1>5. T \ {x} = S /\ S \in SUBSET T /\ x \in T
    BY <1>1
<1>6. g[T] = x.delta + g[S]
    BY <1>1, <1>2, <1>3, <1>5, AnyFirst
<1>7. g[S] = h[S]
    BY <1>2, <1>3, <1>4, <1>5, SumsAgree
<1>8. h[S] \in Int /\ x.delta \in Int
    BY <1>4, SummedType DEF Whole
<1> QED
    BY <1>1, <1>3, <1>4, <1>6, <1>7, <1>8

\* Two sets that share nothing add up.
LEMMA SumOfBoth ==
    ASSUME NEW S, NEW T, IsFiniteSet(S), IsFiniteSet(T), Whole(S), Whole(T), S \cap T = {}
    PROVE  SumOf(S \cup T) = SumOf(S) + SumOf(T)
<1> DEFINE F == {U \in SUBSET T : SumOf(S \cup U) # SumOf(S) + SumOf(U)}
<1> SUFFICES ASSUME F # {} PROVE FALSE
    OBVIOUS
<1>1. F \in SUBSET (SUBSET T)
    OBVIOUS
<1>2. PICK U \in F : \A V \in F : V \subseteq U => V = U
  <2> HIDE DEF F
  <2> QED
      BY <1>1, Smallest
<1>3. U \in SUBSET T /\ SumOf(S \cup U) # SumOf(S) + SumOf(U)
    OBVIOUS
<1>4. SumOf(S) \in Int
    BY SumType
<1>5. CASE U = {}
    BY <1>3, <1>4, <1>5, SumOfNone
<1>6. CASE U # {}
  <2>1. PICK x \in U : TRUE
      BY <1>6
  <2>2. PICK V : V = U \ {x}
      OBVIOUS
  <2>3. V \subseteq U /\ V # U /\ U = V \cup {x} /\ x \notin V /\ V \in SUBSET T /\ x \notin S
      BY <1>3, <2>1, <2>2
  <2>4. SumOf(S \cup V) = SumOf(S) + SumOf(V)
      BY <1>2, <2>3
  <2>5. IsFiniteSet(V) /\ IsFiniteSet(S \cup V)
      BY <2>3, FS_Subset, FS_Union
  <2>6. Whole(V \cup {x}) /\ Whole((S \cup V) \cup {x}) /\ Whole(V)
      BY <1>3, <2>3 DEF Whole
  <2>7. SumOf(V \cup {x}) = SumOf(V) + x.delta
      BY <2>3, <2>5, <2>6, SumOfOneMore
  <2>8. SumOf((S \cup V) \cup {x}) = SumOf(S \cup V) + x.delta
      BY <2>3, <2>5, <2>6, SumOfOneMore
  <2>9. (S \cup V) \cup {x} = S \cup U
      BY <2>3
  <2>10. SumOf(V) \in Int /\ x.delta \in Int
      BY <2>5, <2>6, SumType DEF Whole
  <2>11. SumOf(S \cup U) = (SumOf(S) + SumOf(V)) + x.delta /\ SumOf(U) = SumOf(V) + x.delta
      BY <2>3, <2>4, <2>7, <2>8, <2>9
  <2>12. (SumOf(S) + SumOf(V)) + x.delta # SumOf(S) + (SumOf(V) + x.delta)
      BY <1>3, <2>11
  <2> QED
      BY <1>4, <2>10, <2>12
<1> QED
    BY <1>5, <1>6

-----------------------------------------------------------------------------
(***************************************************************************)
(* The ledger explains every balance: the proof of LedgerExplainsBalance.   *)
(* An entry is written once, because its key tells something of the wallet  *)
(* or of the binding that was not so before; so what an operation adds to   *)
(* the sum is what it adds to the balance.                                  *)
(***************************************************************************)

EntriesOf(w) == {e \in ledger : e.wallet = w}

\* What a key says of the reservation or the device that it names.
Reports(e, res) ==
    \A k \in Keys :
        /\ e.key = <<"expire", k>> => res[k] = "expired"
        /\ e.key = <<"reserve", k>> => res[k] # "none"
        /\ e.key = <<"commit", k>> => res[k] = "committed"
        /\ e.key = <<"release", k>> => res[k] = "released"
Tells(e) ==
    /\ Reports(e, reservation[e.wallet])
    /\ \A d \in Devices : e.key = <<"usage", d>> => alias[d] # NoAccount

LedgerInv ==
    /\ IsFiniteSet(ledger)
    /\ \A e \in ledger : Tells(e)
    /\ \A w \in wallets : SumOf(EntriesOf(w)) = row[w].available

\* Nothing that an entry may tell is taken back.
TakesNothingBack ==
    /\ KeepsOutcomes
    /\ \A w \in Devices, k \in Keys : reservation[w][k] # "none" => reservation'[w][k] # "none"
    /\ \A d \in Devices : alias[d] # NoAccount => alias'[d] # NoAccount

Before(w) == IF w \in wallets THEN row[w].available ELSE 0

\* A step writes new entries, which tell the truth and add up to the change of
\* each balance.
Explained(es) ==
    /\ ledger' = ledger \cup es /\ IsFiniteSet(es) /\ Whole(es) /\ es \cap ledger = {}
    /\ wallets \subseteq wallets' /\ \A e \in es : e.wallet \in Devices /\ Tells(e)'
    /\ \A w \in wallets' : row'[w].available = Before(w) + SumOf({e \in es : e.wallet = w})

LEMMA ExplainedKeeps ==
    ASSUME BalanceInv, LedgerInv, TakesNothingBack, NEW es, Explained(es) PROVE LedgerInv'
<1>1. IsFiniteSet(ledger')
    BY FS_Union DEF Explained, LedgerInv
<1>2. \A e \in ledger : e.wallet \in Devices
    BY DEF BalanceInv, TypeOK
<1>3. ASSUME NEW e \in ledger PROVE Tells(e)'
  <2>1. Tells(e) /\ e.wallet \in Devices
      BY <1>2 DEF LedgerInv
  <2>2. \A k \in Keys :
          /\ e.key = <<"expire", k>> => reservation'[e.wallet][k] = "expired"
          /\ e.key = <<"reserve", k>> => reservation'[e.wallet][k] # "none"
          /\ e.key = <<"commit", k>> => reservation'[e.wallet][k] = "committed"
          /\ e.key = <<"release", k>> => reservation'[e.wallet][k] = "released"
      BY <2>1 DEF Tells, Reports, TakesNothingBack, KeepsOutcomes, Done
  <2>3. \A d \in Devices : e.key = <<"usage", d>> => alias'[d] # NoAccount
      BY <2>1 DEF Tells, Reports, TakesNothingBack
  <2> QED
      BY <2>2, <2>3 DEF Tells, Reports
<1>4. \A e \in ledger' : Tells(e)'
    BY <1>3 DEF Explained
<1>5. ASSUME NEW w \in wallets' PROVE SumOf(EntriesOf(w)') = row'[w].available
  <2> DEFINE S == EntriesOf(w)
             T == {e \in es : e.wallet = w}
  <2>1. EntriesOf(w)' = S \cup T /\ S \cap T = {}
      BY DEF Explained, EntriesOf
  <2>2. S \in SUBSET ledger /\ T \in SUBSET es
      BY DEF EntriesOf
  <2>3. IsFiniteSet(S) /\ IsFiniteSet(T)
      BY <2>2, FS_Subset DEF Explained, LedgerInv
  <2>4. Whole(S) /\ Whole(T)
      BY <2>2 DEF Explained, Whole, BalanceInv, TypeOK
  <2>5. SumOf(S) = Before(w)
    <3>1. CASE w \in wallets
        BY <3>1 DEF LedgerInv, Before
    <3>2. CASE w \notin wallets
      <4>1. S = {}
          BY <3>2 DEF EntriesOf, BalanceInv, TypeOK
      <4> QED
          BY <3>2, <4>1, SumOfNone DEF Before
    <3> QED
        BY <3>1, <3>2
  <2>6. row'[w].available = Before(w) + SumOf(T)
      BY DEF Explained
  <2> HIDE DEF S, T
  <2>7. SumOf(S \cup T) = SumOf(S) + SumOf(T)
      BY <2>1, <2>3, <2>4, SumOfBoth
  <2> QED
      BY <2>1, <2>5, <2>6, <2>7
<1>6. \A w \in wallets' : SumOf(EntriesOf(w))' = row'[w].available
  <2>1. \A w : SumOf(EntriesOf(w))' = SumOf(EntriesOf(w)')
      BY DEF SumOf, MapThenSumSet, MapThenFoldSet
  <2> QED
      BY <1>5, <2>1
<1> QED
    BY <1>1, <1>4, <1>6 DEF LedgerInv

-----------------------------------------------------------------------------
\* What one wallet's new entries have to be, under the reservations it gets.
Sound(w, res, es, gain) ==
    /\ IsFiniteSet(es) /\ Whole(es) /\ es \cap ledger = {} /\ SumOf(es) = gain
    /\ \A e \in es : e.wallet = w /\ Reports(e, res) /\ \A d \in Devices : e.key # <<"usage", d>>

\* An entry that tells what was not so is new.
LEMMA News ==
    ASSUME LedgerInv, NEW e, ~Reports(e, reservation[e.wallet]) PROVE e \notin ledger
    BY DEF LedgerInv, Tells

LEMMA EntryIs ==
    ASSUME NEW w, NEW key, NEW delta
    PROVE  /\ Entry(w, key, delta).wallet = w /\ Entry(w, key, delta).key = key
           /\ Entry(w, key, delta).delta = delta
    BY DEF Entry

\* The entries of an expiry pass add up to what it refunds.
LEMMA ExpirySum ==
    ASSUME NEW w, NEW D \in SUBSET Keys
    PROVE  LET es == {Entry(w, <<"expire", k>>, Cost) : k \in D} IN
           IsFiniteSet(es) /\ SumOf(es) = Cost * Cardinality(D)
<1> DEFINE E(U) == {Entry(w, <<"expire", k>>, Cost) : k \in U}
           F == {U \in SUBSET Keys : ~(IsFiniteSet(E(U)) /\ SumOf(E(U)) = Cost * Cardinality(U))}
<1> SUFFICES ASSUME F # {} PROVE FALSE
    OBVIOUS
<1>1. F \in SUBSET (SUBSET Keys) /\ IsFiniteSet(Keys)
    BY CreditAssumption DEF CreditAssumption
<1>2. PICK U \in F : \A V \in F : V \subseteq U => V = U
  <2> HIDE DEF F
  <2> QED
      BY <1>1, Smallest
<1>3. U \in SUBSET Keys /\ ~(IsFiniteSet(E(U)) /\ SumOf(E(U)) = Cost * Cardinality(U))
    OBVIOUS
<1>4. CASE U = {}
  <2>1. E(U) = {} /\ Cardinality(U) = 0 /\ IsFiniteSet(E(U))
      BY <1>4, FS_EmptySet
  <2>2. Cost * 0 = 0
      BY CreditAssumption DEF CreditAssumption
  <2> QED
      BY <1>3, <2>1, <2>2, SumOfNone
<1>5. CASE U # {}
  <2>1. PICK k \in U : TRUE
      BY <1>5
  <2>2. PICK V : V = U \ {k}
      OBVIOUS
  <2>3. V \in SUBSET Keys /\ V \subseteq U /\ V # U /\ U = V \cup {k} /\ k \notin V
      BY <1>3, <2>1, <2>2
  <2>4. IsFiniteSet(E(V)) /\ SumOf(E(V)) = Cost * Cardinality(V)
      BY <1>2, <2>3
  <2>5. IsFiniteSet(V) /\ Cardinality(V) \in Nat /\ Cardinality(U) = Cardinality(V) + 1
      BY <1>1, <2>3, FS_Subset, FS_AddElement, FS_CardinalityType
  <2>6. PICK x : x = Entry(w, <<"expire", k>>, Cost)
      OBVIOUS
  <2>7. E(U) = E(V) \cup {x}
      BY <2>3, <2>6
  <2>8. x \notin E(V)
      BY <2>3, <2>6 DEF Entry
  <2>9. Whole(E(V) \cup {x}) /\ x.delta = Cost
      BY <2>6, CreditAssumption DEF Entry, Whole, CreditAssumption
  <2> HIDE DEF E
  <2>10. SumOf(E(V) \cup {x}) = SumOf(E(V)) + Cost
      BY <2>4, <2>8, <2>9, SumOfOneMore
  <2>11. IsFiniteSet(E(U))
      BY <2>4, <2>7, FS_AddElement
  <2>12. Cost * (Cardinality(V) + 1) = Cost * Cardinality(V) + Cost
      BY <2>5, Distribute
  <2> QED
      BY <1>3, <2>4, <2>5, <2>7, <2>10, <2>11, <2>12 DEF E
<1> QED
    BY <1>4, <1>5

LEMMA ExpirySound ==
    ASSUME BalanceInv, LedgerInv, NEW w \in Devices
    PROVE  Sound(w, Settled(w), ExpiryEntries(w), Cost * Cardinality(Due(w)))
<1>1. Due(w) \in SUBSET Keys
    BY DEF Due
<1>2. IsFiniteSet(ExpiryEntries(w)) /\ SumOf(ExpiryEntries(w)) = Cost * Cardinality(Due(w))
    BY <1>1, ExpirySum DEF ExpiryEntries
<1>3. ASSUME NEW e \in ExpiryEntries(w)
      PROVE  /\ e.wallet = w /\ e.delta \in Int /\ e \notin ledger /\ Reports(e, Settled(w))
             /\ \A d \in Devices : e.key # <<"usage", d>>
  <2>1. PICK k \in Due(w) : e = Entry(w, <<"expire", k>>, Cost)
      BY DEF ExpiryEntries
  <2>2. e.wallet = w /\ e.key = <<"expire", k>> /\ e.delta = Cost
      BY <2>1, EntryIs
  <2>3. k \in Keys /\ reservation[w][k] = "reserved" /\ Settled(w)[k] = "expired"
      BY <1>1 DEF Due, Settled, BalanceInv, OverdueIsOpen
  <2>4. e \notin ledger
      BY <2>2, <2>3, News DEF Reports
  <2>5. \A j \in Keys : /\ <<"expire", k>> = <<"expire", j>> => j = k
                        /\ <<"expire", k>> # <<"reserve", j>> /\ <<"expire", k>> # <<"commit", j>>
                        /\ <<"expire", k>> # <<"release", j>>
      OBVIOUS
  <2>6. Reports(e, Settled(w))
      BY <2>2, <2>3, <2>5 DEF Reports
  <2> QED
      BY <2>2, <2>4, <2>6, CreditAssumption DEF CreditAssumption
<1> QED
    BY <1>2, <1>3 DEF Sound, Whole

\* The entry of an unopened wallet is new, and tells of no reservation.
LEMMA OpeningEntrySound ==
    ASSUME BalanceInv, NEW w \in Devices, w \notin wallets, NEW tag \in {"starter", "legacy"},
           NEW delta \in Int, NEW res
    PROVE  /\ Entry(w, <<tag, w>>, delta) \notin ledger /\ Reports(Entry(w, <<tag, w>>, delta), res)
           /\ \A d \in Devices : Entry(w, <<tag, w>>, delta).key # <<"usage", d>>
<1>1. PICK e : e = Entry(w, <<tag, w>>, delta)
    OBVIOUS
<1>2. e.wallet = w /\ e.key = <<tag, w>>
    BY <1>1, EntryIs
<1>3. e \notin ledger
    BY <1>2 DEF BalanceInv, TypeOK
<1>4. \A x : /\ <<tag, w>> # <<"expire", x>> /\ <<tag, w>> # <<"reserve", x>> /\ <<tag, w>> # <<"commit", x>>
             /\ <<tag, w>> # <<"release", x>> /\ <<tag, w>> # <<"usage", x>>
    OBVIOUS
<1> QED
    BY <1>1, <1>2, <1>3, <1>4 DEF Reports

LEMMA SumOfOne ==
    ASSUME NEW x, x.delta \in Int PROVE IsFiniteSet({x}) /\ Whole({x}) /\ SumOf({x}) = x.delta
<1>1. {} \cup {x} = {x} /\ Whole({x})
    BY DEF Whole
<1>2. SumOf({} \cup {x}) = SumOf({}) + x.delta
    BY <1>1, FS_EmptySet, SumOfOneMore
<1>3. SumOf({x}) = 0 + x.delta
    BY <1>1, <1>2, SumOfNone
<1>4. 0 + x.delta = x.delta
    OBVIOUS
<1>5. IsFiniteSet({x})
    BY FS_Singleton
<1> QED
    BY <1>1, <1>3, <1>4, <1>5

\* What opening or settling a wallet writes is what it changes the balance by.
LEMMA OpeningSound ==
    ASSUME BalanceInv, LedgerInv, NEW w \in Devices, NEW used \in 0..Starter
    PROVE  Sound(w, Settled(w), OpeningEntries(w, used), Opened(w, used).available - Before(w))
<1>1. CASE w \in wallets
  <2>1. Opened(w, used).available = row[w].available + Cost * Cardinality(Due(w))
      BY <1>1, ReleasedType DEF Opened
  <2>2. row[w].available \in Nat /\ Cost * Cardinality(Due(w)) \in Nat
      BY DueIsFinite, Distribute DEF BalanceInv, TypeOK, Rows
  <2>3. Opened(w, used).available - Before(w) = Cost * Cardinality(Due(w))
      BY <1>1, <2>1, <2>2 DEF Before
  <2>4. OpeningEntries(w, used) = ExpiryEntries(w)
      BY <1>1 DEF OpeningEntries
  <2> QED
      BY <2>3, <2>4, ExpirySound
<1>2. CASE w \notin wallets
  <2> DEFINE x == Entry(w, <<"starter", w>>, Starter)
             y == Entry(w, <<"legacy", w>>, -used)
  <2>1. Starter \in Int /\ used \in Int /\ Starter \in Nat
      BY CreditAssumption DEF CreditAssumption
  <2>2. Opened(w, used).available - Before(w) = Starter - used
      BY <1>2, <2>1 DEF Opened, Before
  <2>3. /\ x.wallet = w /\ x.delta = Starter /\ x.key = <<"starter", w>>
        /\ y.wallet = w /\ y.delta = -used /\ y.key = <<"legacy", w>>
      BY EntryIs
  <2>4. /\ x \notin ledger /\ Reports(x, Settled(w)) /\ \A d \in Devices : x.key # <<"usage", d>>
        /\ y \notin ledger /\ Reports(y, Settled(w)) /\ \A d \in Devices : y.key # <<"usage", d>>
    <3>1. -used \in Int
        BY <2>1
    <3>2. x \notin ledger /\ Reports(x, Settled(w)) /\ \A d \in Devices : x.key # <<"usage", d>>
        BY <1>2, <2>1, OpeningEntrySound
    <3>3. y \notin ledger /\ Reports(y, Settled(w)) /\ \A d \in Devices : y.key # <<"usage", d>>
        BY <1>2, <3>1, OpeningEntrySound
    <3> QED
        BY <3>2, <3>3
  <2>5. OpeningEntries(w, used) = {x} \cup (IF used > 0 THEN {y} ELSE {})
      BY <1>2 DEF OpeningEntries
  <2>6. x # y
      BY <2>3
  <2> HIDE DEF x, y
  <2>7. IsFiniteSet({x}) /\ Whole({x}) /\ SumOf({x}) = Starter
      BY <2>1, <2>3, SumOfOne
  <2>8. CASE used > 0
    <3>1. OpeningEntries(w, used) = {x} \cup {y}
        BY <2>5, <2>8
    <3>2. Whole({x} \cup {y})
        BY <2>1, <2>3, <2>7 DEF Whole
    <3>3. SumOf({x} \cup {y}) = Starter - used
        BY <2>1, <2>3, <2>6, <2>7, <3>2, SumOfOneMore
    <3>4. IsFiniteSet({x} \cup {y})
        BY <2>7, FS_AddElement
    <3> QED
        BY <2>2, <2>3, <2>4, <3>1, <3>2, <3>3, <3>4 DEF Sound
  <2>9. CASE ~(used > 0)
    <3>1. OpeningEntries(w, used) = {x} /\ used = 0
        BY <2>5, <2>9
    <3>2. Starter - used = Starter
        BY <2>1, <3>1
    <3> QED
        BY <2>2, <2>3, <2>4, <2>7, <3>1, <3>2 DEF Sound
  <2> QED
      BY <2>8, <2>9
<1> QED
    BY <1>1, <1>2

\* A reservation that moves on keeps what was told of the others.
Onward(res, next) ==
    \A k \in Keys : /\ res[k] \in Done => next[k] = res[k]
                    /\ res[k] # "none" => next[k] # "none"

\* One entry more, about a reservation that had not come so far.
LEMMA OneMoreSound ==
    ASSUME BalanceInv, LedgerInv, NEW w \in Devices, NEW es, NEW gain \in Int, NEW res, NEW next,
           Sound(w, res, es, gain), Onward(res, next), NEW e, e.wallet = w, e.delta \in Int,
           ~Reports(e, res), ~Reports(e, reservation[w]), Reports(e, next),
           \A d \in Devices : e.key # <<"usage", d>>
    PROVE  Sound(w, next, es \cup {e}, gain + e.delta)
<1>1. e \notin ledger /\ e \notin es
    BY News DEF Sound
<1>2. IsFiniteSet(es \cup {e}) /\ Whole(es \cup {e})
    BY FS_AddElement DEF Sound, Whole
<1>3. SumOf(es \cup {e}) = gain + e.delta
    BY <1>1, <1>2, SumOfOneMore DEF Sound
<1>4. \A x \in es : Reports(x, next)
    BY DEF Sound, Reports, Onward, Done
<1> QED
    BY <1>1, <1>2, <1>3, <1>4 DEF Sound

\* A Write of sound entries explains itself.
LEMMA WriteExplains ==
    ASSUME BalanceInv, LedgerInv, KeepsOutcomes, NEW w \in Devices, NEW r \in Rows, NEW res \in Reservations,
           NEW es, NEW gain \in Int, Write(w, r, res, es), Onward(Settled(w), res), Sound(w, res, es, gain),
           r.available = Before(w) + gain,
           \A d \in Devices : alias[d] # NoAccount => alias'[d] # NoAccount
    PROVE  LedgerInv'
<1>1. /\ wallets' = wallets \cup {w} /\ row' = [row EXCEPT ![w] = r]
      /\ reservation' = [reservation EXCEPT ![w] = res] /\ ledger' = ledger \cup es
    BY DEF Write
<1>2. /\ wallets \subseteq Devices /\ row \in [Devices -> Rows]
      /\ reservation \in [Devices -> [Keys -> Statuses]]
    BY DEF BalanceInv, TypeOK
<1>3. TakesNothingBack
  <2>1. \A k \in Keys : reservation[w][k] # "none" => Settled(w)[k] # "none"
      BY DEF Settled
  <2>2. \A v \in Devices, k \in Keys : reservation[v][k] # "none" => reservation'[v][k] # "none"
      BY <1>1, <1>2, <2>1 DEF Onward
  <2> QED
      BY <2>2 DEF TakesNothingBack
<1>4. \A e \in es : e.wallet \in Devices /\ Tells(e)'
  <2>1. reservation'[w] = res
      BY <1>1, <1>2
  <2> QED
      BY <2>1 DEF Sound, Tells, Reports
<1>5. ASSUME NEW v \in wallets' PROVE row'[v].available = Before(v) + SumOf({e \in es : e.wallet = v})
  <2>1. CASE v = w
    <3>1. {e \in es : e.wallet = v} = es
        BY <2>1 DEF Sound
    <3>2. row'[v] = r
        BY <1>1, <1>2, <2>1
    <3> QED
        BY <2>1, <3>1, <3>2 DEF Sound
  <2>2. CASE v # w
    <3>1. {e \in es : e.wallet = v} = {}
        BY <2>2 DEF Sound
    <3>2. row'[v] = row[v] /\ v \in wallets /\ row[v].available \in Nat
        BY <1>1, <1>2, <2>2 DEF Rows
    <3>3. row[v].available + 0 = row[v].available
        BY <3>2
    <3> QED
        BY <3>1, <3>2, <3>3, SumOfNone DEF Before
  <2> QED
      BY <2>1, <2>2
<1>6. Explained(es)
    BY <1>1, <1>4, <1>5 DEF Explained, Sound
<1> QED
    BY <1>3, <1>6, ExplainedKeeps

\* The gain of an opening is an integer, and the opened balance a number.
LEMMA OpenedGain ==
    ASSUME BalanceInv, NEW w \in Devices, NEW used \in 0..Starter
    PROVE  /\ Opened(w, used) \in Rows /\ Opened(w, used).available \in Nat /\ Before(w) \in Nat
           /\ Opened(w, used).available - Before(w) \in Int
<1>1. Opened(w, used) \in Rows
    BY OpenedBalanced
<1>2. row[w] \in Rows
    BY DEF BalanceInv, TypeOK
<1> QED
    BY <1>1, <1>2 DEF Rows, Before

LEMMA TouchExplains ==
    ASSUME BalanceInv, LedgerInv, KeepsOutcomes, NEW w \in Devices, NEW used \in 0..Starter, Touch(w, used),
           \A d \in Devices : alias[d] # NoAccount => alias'[d] # NoAccount
    PROVE  LedgerInv'
<1> DEFINE r == Opened(w, used)
           gain == Opened(w, used).available - Before(w)
<1>1. r \in Rows /\ gain \in Int /\ r.available = Before(w) + gain
    BY OpenedGain
<1>2. Settled(w) \in Reservations /\ Onward(Settled(w), Settled(w))
    BY SettleOpen DEF Onward
<1>3. Sound(w, Settled(w), OpeningEntries(w, used), gain)
    BY OpeningSound
<1>4. Write(w, r, Settled(w), OpeningEntries(w, used))
    BY DEF Touch
<1> HIDE DEF r, gain
<1> QED
    BY <1>1, <1>2, <1>3, <1>4, WriteExplains

LEMMA SettledIs ==
    ASSUME BalanceInv, NEW w \in Devices, NEW k \in Keys
    PROVE  /\ Settled(w)[k] = "none" => reservation[w][k] = "none"
           /\ Settled(w)[k] = "reserved" => reservation[w][k] = "reserved"
    BY DEF Settled

LEMMA ReserveExplains ==
    ASSUME BalanceInv, LedgerInv, KeepsOutcomes, NEW w \in Devices, NEW k \in Keys, ReserveOn(w, k),
           UNCHANGED alias
    PROVE  LedgerInv'
<1>1. CASE Touch(w, 0)
    BY <1>1, Zero, TouchExplains
<1>2. CASE ~Touch(w, 0)
  <2> DEFINE r == Opened(w, 0)
             gain == Opened(w, 0).available - Before(w)
             res == Settled(w)
             next == [res EXCEPT ![k] = "reserved"]
             es == OpeningEntries(w, 0)
             e == Entry(w, <<"reserve", k>>, -Cost)
             after == [r EXCEPT !.available = @ - Cost]
  <2>1. Write(w, after, next, es \cup {e}) /\ Settled(w)[k] = "none" /\ r.available >= Cost
      BY <1>2 DEF ReserveOn, Admissible
  <2>2. r \in Rows /\ gain \in Int /\ Before(w) \in Nat /\ r.available = Before(w) + gain
      BY OpenedGain, Zero
  <2>3. Cost \in Nat /\ -Cost \in Int
      BY CreditAssumption DEF CreditAssumption
  <2>4. res \in Reservations /\ reservation[w][k] = "none" /\ res[k] = "none"
      BY <2>1, SettleOpen, SettledIs
  <2>5. Sound(w, res, es, gain)
      BY Zero, OpeningSound
  <2>6. e.wallet = w /\ e.key = <<"reserve", k>> /\ e.delta = -Cost
      BY EntryIs
  <2> HIDE DEF r, gain, res, es, e
  <2>7. next \in Reservations /\ Onward(res, next) /\ next[k] = "reserved"
      BY <2>4 DEF Reservations, Statuses, Onward, Done
  <2>8. after \in Rows /\ after.available = r.available - Cost
      BY <2>1, <2>2, <2>3 DEF Rows
  <2>9. \A j : /\ <<"reserve", k>> = <<"reserve", j>> => j = k
               /\ <<"reserve", k>> # <<"expire", j>> /\ <<"reserve", k>> # <<"commit", j>>
               /\ <<"reserve", k>> # <<"release", j>> /\ <<"reserve", k>> # <<"usage", j>>
      OBVIOUS
  <2>10. ~Reports(e, res) /\ ~Reports(e, reservation[w])
      BY <2>4, <2>6 DEF Reports
  <2>11. Reports(e, next) /\ \A d \in Devices : e.key # <<"usage", d>>
      BY <2>6, <2>7, <2>9 DEF Reports
  <2>12. Sound(w, next, es \cup {e}, gain + e.delta)
      BY <2>2, <2>3, <2>5, <2>6, <2>7, <2>10, <2>11, OneMoreSound
  <2>13. gain + e.delta \in Int /\ after.available = Before(w) + (gain + e.delta)
      BY <2>2, <2>3, <2>6, <2>8
  <2>14. Onward(Settled(w), next)
      BY <2>7 DEF res
  <2> HIDE DEF after, next
  <2> QED
      BY <2>1, <2>7, <2>8, <2>12, <2>13, <2>14, WriteExplains
<1> QED
    BY <1>1, <1>2

\* The last word on a reservation: one entry more than the expiry pass writes.
LEMMA FinishExplains ==
    ASSUME BalanceInv, LedgerInv, KeepsOutcomes, UNCHANGED alias, NEW w \in wallets, NEW k \in Keys,
           NEW tag, NEW status, NEW delta \in Int, NEW after \in Rows, NEW e, e = Entry(w, <<tag, k>>, delta),
           (tag = "commit" /\ status = "committed") \/ (tag = "release" /\ status = "released"),
           Write(w, after, [Settled(w) EXCEPT ![k] = status], ExpiryEntries(w) \cup {e}),
           after.available = Released(w).available + delta, Settled(w)[k] = "reserved"
    PROVE  LedgerInv'
<1>0. w \in Devices
    BY DEF BalanceInv, TypeOK
<1> DEFINE r == Released(w)
           gain == Cost * Cardinality(Due(w))
           res == Settled(w)
           es == ExpiryEntries(w)
           next == [res EXCEPT ![k] = status]
<1>2. gain \in Nat /\ Before(w) \in Nat /\ r.available = Before(w) + gain
    BY <1>0, ReleasedType, DueIsFinite, Distribute, CreditAssumption
       DEF Before, BalanceInv, TypeOK, Rows, CreditAssumption
<1>3. Sound(w, res, es, gain) /\ res \in Reservations
    BY <1>0, ExpirySound, SettleOpen
<1> HIDE DEF r, gain, es
<1>4. e.wallet = w /\ e.key = <<tag, k>> /\ e.delta = delta
    BY EntryIs
<1>5. res[k] = "reserved" /\ reservation[w][k] = "reserved"
    BY <1>0, SettledIs
<1> HIDE DEF res
<1>6. next \in Reservations /\ Onward(res, next) /\ next[k] = status
    BY <1>3, <1>5 DEF Reservations, Statuses, Onward, Done
<1>7. ~Reports(e, res) /\ ~Reports(e, reservation[w])
    BY <1>4, <1>5 DEF Reports
<1>8. \A j : /\ <<tag, k>> = <<tag, j>> => j = k
             /\ <<tag, k>> # <<"expire", j>> /\ <<tag, k>> # <<"reserve", j>> /\ <<tag, k>> # <<"usage", j>>
             /\ <<tag, k>> = <<"commit", j>> => tag = "commit" /\ j = k
             /\ <<tag, k>> = <<"release", j>> => tag = "release" /\ j = k
    OBVIOUS
<1>9. Reports(e, next) /\ \A d \in Devices : e.key # <<"usage", d>>
    BY <1>4, <1>6, <1>8 DEF Reports
<1>10. Sound(w, next, es \cup {e}, gain + e.delta)
  <2> HIDE DEF next
  <2>1. gain \in Int /\ e.delta \in Int
      BY <1>2, <1>4
  <2> QED
      BY <1>0, <1>3, <1>4, <1>6, <1>7, <1>9, <2>1, OneMoreSound
<1>11. gain + e.delta \in Int /\ after.available = Before(w) + (gain + e.delta)
    BY <1>2, <1>4 DEF r
<1>12. Write(w, after, next, es \cup {e}) /\ Onward(Settled(w), next)
    BY <1>6 DEF res, es
<1> HIDE DEF next
<1> QED
    BY <1>0, <1>6, <1>10, <1>11, <1>12, WriteExplains

LEMMA FinalizeExplains ==
    ASSUME BalanceInv, LedgerInv, KeepsOutcomes, NEW w \in wallets, NEW k \in Keys, NEW outcome,
           FinalizeOn(w, k, outcome), UNCHANGED alias
    PROVE  LedgerInv'
<1>0. w \in Devices
    BY DEF BalanceInv, TypeOK
<1>1. CASE Touch(w, 0)
    BY <1>0, <1>1, Zero, TouchExplains
<1>2. Released(w) \in Rows /\ Cost \in Int /\ 0 \in Int /\ Cost \in Nat
    BY <1>0, ReleasedType, CreditAssumption DEF CreditAssumption
<1>5. CASE Commit(w, k) /\ Finalizable(w, k)
  <2>1. PICK r, after, e, delta : /\ r = Released(w) /\ after = [r EXCEPT !.spent = @ + Cost] /\ delta = 0
                                  /\ e = Entry(w, <<"commit", k>>, 0)
      OBVIOUS
  <2>2. after \in Rows /\ after.available = r.available + delta /\ delta \in Int
      BY <1>2, <2>1 DEF Rows
  <2>3. /\ Write(w, after, [Settled(w) EXCEPT ![k] = "committed"], ExpiryEntries(w) \cup {e})
        /\ Settled(w)[k] = "reserved" /\ e = Entry(w, <<"commit", k>>, delta)
      BY <1>5, <2>1 DEF Commit, Finalizable
  <2>4. after.available = Released(w).available + delta
      BY <2>1, <2>2
  <2>5. PICK tag, status : tag = "commit" /\ status = "committed"
      OBVIOUS
  <2>6. Write(w, after, [Settled(w) EXCEPT ![k] = status], ExpiryEntries(w) \cup {e})
      BY <2>3, <2>5
  <2>7. e = Entry(w, <<tag, k>>, delta)
      BY <2>3, <2>5
  <2> QED
      BY <2>2, <2>3, <2>4, <2>5, <2>6, <2>7, FinishExplains
<1>6. CASE Release(w, k) /\ Finalizable(w, k)
  <2>1. PICK r, after, e : /\ r = Released(w) /\ after = [r EXCEPT !.available = @ + Cost]
                           /\ e = Entry(w, <<"release", k>>, Cost)
      OBVIOUS
  <2>2. after \in Rows /\ after.available = r.available + Cost
      BY <1>2, <2>1 DEF Rows
  <2>3. /\ Write(w, after, [Settled(w) EXCEPT ![k] = "released"], ExpiryEntries(w) \cup {e})
        /\ Settled(w)[k] = "reserved"
      BY <1>6, <2>1 DEF Release, Finalizable
  <2>4. after.available = Released(w).available + Cost
      BY <2>1, <2>2
  <2>5. PICK tag, status : tag = "release" /\ status = "released"
      OBVIOUS
  <2>6. Write(w, after, [Settled(w) EXCEPT ![k] = status], ExpiryEntries(w) \cup {e})
      BY <2>3, <2>5
  <2>7. e = Entry(w, <<tag, k>>, Cost)
      BY <2>1, <2>5
  <2> QED
      BY <1>2, <2>2, <2>3, <2>4, <2>5, <2>6, <2>7, FinishExplains
<1> QED
    BY <1>1, <1>5, <1>6 DEF FinalizeOn

-----------------------------------------------------------------------------
\* Every operation's alias: a device once bound stays bound.
KeepsBound == \A d \in Devices : alias[d] # NoAccount => alias'[d] # NoAccount

LEMMA BindingKeepsBound ==
    ASSUME BalanceInv, NEW a \in Accounts, NEW d \in Devices, alias' = [alias EXCEPT ![d] = a]
    PROVE  KeepsBound /\ alias'[d] # NoAccount
    BY CreditAssumption DEF BalanceInv, TypeOK, KeepsBound, CreditAssumption

LEMMA BindFirstExplains ==
    ASSUME BalanceInv, LedgerInv, KeepsOutcomes, NEW a \in Accounts, NEW d \in Devices, BindFirst(a, d)
    PROVE  LedgerInv'
<1> DEFINE r == Opened(d, 0)
           gain == Opened(d, 0).available - Before(d)
           owned == [r EXCEPT !.account = a]
<1>1. r \in Rows /\ gain \in Int /\ r.available = Before(d) + gain
    BY Zero, OpenedGain
<1>2. Settled(d) \in Reservations /\ Onward(Settled(d), Settled(d))
    BY SettleOpen DEF Onward
<1>3. Sound(d, Settled(d), OpeningEntries(d, 0), gain)
    BY Zero, OpeningSound
<1>4. Write(d, owned, Settled(d), OpeningEntries(d, 0)) /\ alias' = [alias EXCEPT ![d] = a]
    BY DEF BindFirst
<1>5. KeepsBound
    BY <1>4, BindingKeepsBound
<1> HIDE DEF r, gain
<1>6. owned \in Rows /\ owned.available = r.available
    BY <1>1 DEF Rows
<1> HIDE DEF owned
<1> QED
    BY <1>1, <1>2, <1>3, <1>4, <1>5, <1>6, WriteExplains DEF KeepsBound

LEMMA BindNewExplains ==
    ASSUME BalanceInv, LedgerInv, KeepsOutcomes, NEW a \in Accounts, NEW d \in Devices, BindNew(a, d)
    PROVE  LedgerInv'
<1>1. PICK w \in AccountWallets(a) : Touch(w, 0)
    BY DEF BindNew
<1>2. w \in Devices
    BY DEF AccountWallets, BalanceInv, TypeOK
<1>3. KeepsBound
    BY BindingKeepsBound DEF BindNew
<1> QED
    BY <1>1, <1>2, <1>3, Zero, TouchExplains DEF KeepsBound

\* The imported usage is entered once: until then the device was not bound.
LEMMA UsageExplained ==
    ASSUME BalanceInv, LedgerInv, NEW o \in Devices, NEW d \in wallets, d \in Devices, o \in wallets,
           alias[d] = NoAccount
    PROVE  /\ IsFiniteSet(UsageEntries(o, d)) /\ Whole(UsageEntries(o, d))
           /\ UsageEntries(o, d) \cap ledger = {} /\ SumOf(UsageEntries(o, d)) = -Imported(o, d)
           /\ Imported(o, d) \in Nat
           /\ \A e \in UsageEntries(o, d) : e.wallet = o /\ e.key = <<"usage", d>>
<1>1. Imported(o, d) \in Nat
    BY DEF Imported, BalanceInv, TypeOK, Rows
<1>2. PICK n : n = Imported(o, d)
    OBVIOUS
<1>3. PICK u : u = Entry(o, <<"usage", d>>, -n)
    OBVIOUS
<1>4. u.wallet = o /\ u.key = <<"usage", d>> /\ u.delta = -n /\ u.delta \in Int
    BY <1>1, <1>2, <1>3, EntryIs
<1>5. u \notin ledger
    BY <1>4 DEF LedgerInv, Tells
<1>6. CASE n > 0
  <2>1. UsageEntries(o, d) = {u}
      BY <1>2, <1>3, <1>6 DEF UsageEntries
  <2> QED
      BY <1>1, <1>2, <1>4, <1>5, <2>1, SumOfOne
<1>7. CASE ~(n > 0)
  <2>1. UsageEntries(o, d) = {} /\ n = 0
      BY <1>1, <1>2, <1>7 DEF UsageEntries
  <2> QED
      BY <1>1, <1>2, <2>1, SumOfNone, FS_EmptySet DEF Whole
<1> QED
    BY <1>6, <1>7

LEMMA BindExistingExplains ==
    ASSUME BalanceInv, LedgerInv, KeepsOutcomes, NEW a \in Accounts, NEW d \in Devices, BindExisting(a, d)
    PROVE  LedgerInv'
<1>1. PICK o \in AccountWallets(a) :
        /\ row' = [row EXCEPT
              ![d] = Released(d),
              ![o] = [Released(o) EXCEPT !.available = @ - Imported(o, d),
                                         !.spent = @ + Imported(o, d)]]
        /\ reservation' = [reservation EXCEPT ![d] = Settled(d),
                                              ![o] = Settled(o)]
        /\ ledger' = ledger \cup ExpiryEntries(d) \cup ExpiryEntries(o)
                            \cup UsageEntries(o, d)
    BY DEF BindExisting
<1>2. /\ d \in wallets /\ row[d].account = NoAccount /\ o \in wallets /\ o \in Devices
      /\ row[o].account = a /\ UNCHANGED wallets /\ alias[d] = NoAccount
      /\ alias' = [alias EXCEPT ![d] = a]
    BY DEF BindExisting, AccountWallets, BalanceInv, TypeOK
<1>3. d # o
    BY <1>2, CreditAssumption DEF CreditAssumption
<1>4. KeepsBound /\ alias'[d] # NoAccount
    BY <1>2, BindingKeepsBound
<1>5. /\ row \in [Devices -> Rows] /\ reservation \in [Devices -> [Keys -> Statuses]]
      /\ wallets \subseteq Devices
    BY DEF BalanceInv, TypeOK
<1> DEFINE n == Imported(o, d)
           old == Released(o)
           paid == [old EXCEPT !.available = @ - n, !.spent = @ + n]
           gd == Cost * Cardinality(Due(d))
           go == Cost * Cardinality(Due(o))
           A == ExpiryEntries(d)
           B == ExpiryEntries(o)
           U == UsageEntries(o, d)
<1>6. /\ IsFiniteSet(U) /\ Whole(U) /\ U \cap ledger = {} /\ SumOf(U) = -n /\ n \in Nat
      /\ \A e \in U : e.wallet = o /\ e.key = <<"usage", d>>
    BY <1>2, UsageExplained
<1>7. Sound(d, Settled(d), A, gd) /\ Sound(o, Settled(o), B, go)
    BY <1>2, ExpirySound
<1>8. gd \in Nat /\ go \in Nat
    BY DueIsFinite, Distribute
<1>9. old \in Rows /\ old.available = row[o].available + go /\ Released(d).available = row[d].available + gd
    BY <1>2, ReleasedType
<1>10. row' = [row EXCEPT ![d] = Released(d), ![o] = paid]
    BY <1>1
<1>11. ledger' = ledger \cup (A \cup B \cup U)
    BY <1>1
<1> HIDE DEF n, old, gd, go, A, B, U
<1>12. paid.available = old.available - n
    BY <1>9 DEF Rows
<1> HIDE DEF paid
<1>13. row'[d].available = row[d].available + gd /\ row'[o].available = row[o].available + go - n
  <2>1. row'[d] = Released(d) /\ row'[o] = paid
      BY <1>2, <1>3, <1>5, <1>10
  <2>2. row'[d].available = Released(d).available /\ row'[o].available = paid.available
      BY <2>1
  <2>3. row'[o].available = old.available - n
      BY <1>12, <2>2
  <2>4. PICK before \in Nat : before = row[o].available
      BY <1>2, <1>5 DEF Rows
  <2>5. old.available = before + go
      BY <1>9, <2>4
  <2>6. old.available - n = before + go - n
      BY <1>6, <1>8, <2>5
  <2> QED
      BY <1>9, <2>2, <2>3, <2>4, <2>6
<1>14. reservation'[d] = Settled(d) /\ reservation'[o] = Settled(o)
    BY <1>1, <1>2, <1>3, <1>5
<1> DEFINE es == A \cup B \cup U
<1>15. IsFiniteSet(es) /\ Whole(es) /\ es \cap ledger = {}
  <2>1. IsFiniteSet(A \cup B)
      BY <1>7, FS_Union DEF Sound
  <2>2. IsFiniteSet(es)
      BY <1>6, <2>1, FS_Union
  <2> QED
      BY <1>6, <1>7, <2>2 DEF Sound, Whole
<1>16. \A e \in es : e.wallet \in Devices /\ Tells(e)'
  <2>1. \A e \in A : e.wallet = d /\ Tells(e)'
      BY <1>7, <1>14 DEF Sound, Tells, Reports
  <2>2. \A e \in B : e.wallet = o /\ Tells(e)'
      BY <1>7, <1>14 DEF Sound, Tells, Reports
  <2>3. ASSUME NEW e \in U PROVE e.wallet = o /\ Tells(e)'
    <3>1. e.wallet = o /\ e.key = <<"usage", d>>
        BY <1>6
    <3>2. \A j : /\ <<"usage", d>> # <<"expire", j>> /\ <<"usage", d>> # <<"reserve", j>>
                 /\ <<"usage", d>> # <<"commit", j>> /\ <<"usage", d>> # <<"release", j>>
                 /\ <<"usage", d>> = <<"usage", j>> => j = d
        OBVIOUS
    <3> QED
        BY <1>4, <3>1, <3>2 DEF Tells, Reports
  <2> QED
      BY <1>2, <2>1, <2>2, <2>3
<1>17. ASSUME NEW v \in wallets' PROVE row'[v].available = Before(v) + SumOf({e \in es : e.wallet = v})
  <2>1. v \in wallets /\ v \in Devices /\ row[v].available \in Nat /\ Before(v) = row[v].available
      BY <1>2, <1>5 DEF Rows, Before
  <2>2. CASE v = d
    <3>1. {e \in es : e.wallet = v} = A
        BY <1>3, <1>6, <1>7, <2>2 DEF Sound
    <3>2. SumOf(A) = gd
        BY <1>7 DEF Sound
    <3> QED
        BY <1>13, <2>1, <2>2, <3>1, <3>2
  <2>3. CASE v = o
    <3>1. {e \in es : e.wallet = v} = B \cup U
        BY <1>3, <1>6, <1>7, <2>3 DEF Sound
    <3>2. SumOf(B) = go /\ IsFiniteSet(B) /\ Whole(B)
        BY <1>7 DEF Sound
    <3>3. B \cap U = {}
        BY <1>2, <1>6, <1>7 DEF Sound
    <3>4. SumOf(B \cup U) = go + (-n)
        BY <1>6, <3>2, <3>3, SumOfBoth
    <3>5. row'[v].available = row[v].available + go - n
        BY <1>13, <2>3
    <3> HIDE DEF es
    <3> QED
        BY <1>6, <1>8, <2>1, <3>1, <3>4, <3>5
  <2>4. CASE v # d /\ v # o
    <3>1. {e \in es : e.wallet = v} = {}
        BY <1>6, <1>7, <2>4 DEF Sound
    <3>2. row'[v] = row[v]
        BY <1>5, <1>10, <2>1, <2>4
    <3>3. row[v].available + 0 = row[v].available
        BY <2>1
    <3> QED
        BY <2>1, <3>1, <3>2, <3>3, SumOfNone
  <2> QED
      BY <2>2, <2>3, <2>4
<1>18. TakesNothingBack
  <2>1. \A w \in Devices : reservation'[w] \in {reservation[w], Settled(w)}
      BY <1>1, <1>2, <1>5
  <2>2. \A w \in Devices, k \in Keys : reservation[w][k] # "none" => Settled(w)[k] # "none"
      BY DEF Settled
  <2>3. \A w \in Devices, k \in Keys : reservation[w][k] # "none" => reservation'[w][k] # "none"
      BY <2>1, <2>2
  <2> QED
      BY <1>4, <2>3 DEF TakesNothingBack, KeepsBound
<1>19. Explained(es)
    BY <1>2, <1>11, <1>15, <1>16, <1>17 DEF Explained
<1> QED
    BY <1>18, <1>19, ExplainedKeeps

\* Reading a wallet id before a purchase opens the wallet at most.
LEMMA QuoteExplains ==
    ASSUME BalanceInv, LedgerInv, KeepsOutcomes, NEW d \in Devices, NEW q \in Requests, QuotePack(d, q)
    PROVE  LedgerInv'
<1>1. PICK w \in DeviceWallets(d) :
        IF w \in wallets THEN UNCHANGED <<wallets, row, ledger>>
        ELSE /\ wallets' = wallets \cup {w}
             /\ row' = [row EXCEPT ![w] = Opened(w, 0)]
             /\ ledger' = ledger \cup OpeningEntries(w, 0)
    BY DEF QuotePack
<1>2. w \in Devices /\ UNCHANGED <<alias, reservation>>
    BY DEF DeviceWallets, AccountWallets, BalanceInv, TypeOK, QuotePack
<1>3. CASE w \in wallets
    BY <1>1, <1>2, <1>3 DEF LedgerInv, Tells, Reports, EntriesOf
<1>4. CASE w \notin wallets
  <2>1. Settled(w) = reservation[w]
    <3>1. Due(w) = {}
        BY <1>2, <1>4 DEF BalanceInv, UnopenedIsEmpty, OverdueIsOpen, Due
    <3> QED
        BY <1>2, <3>1 DEF Settled, BalanceInv, TypeOK
  <2> DEFINE r == Opened(w, 0)
             gain == Opened(w, 0).available - Before(w)
             es == OpeningEntries(w, 0)
  <2>2. gain \in Int /\ r.available = Before(w) + gain
      BY <1>2, Zero, OpenedGain
  <2>3. Sound(w, reservation[w], es, gain)
      BY <1>2, <2>1, Zero, OpeningSound
  <2>4. row' = [row EXCEPT ![w] = r] /\ ledger' = ledger \cup es /\ wallets' = wallets \cup {w}
      BY <1>1, <1>4
  <2>5. row \in [Devices -> Rows] /\ wallets \subseteq Devices
      BY DEF BalanceInv, TypeOK
  <2> HIDE DEF r, gain, es
  <2>6. \A e \in es : e.wallet \in Devices /\ Tells(e)'
      BY <1>2, <2>3 DEF Sound, Tells, Reports
  <2>7. ASSUME NEW v \in wallets' PROVE row'[v].available = Before(v) + SumOf({e \in es : e.wallet = v})
    <3>1. CASE v = w
      <4>1. {e \in es : e.wallet = v} = es /\ SumOf(es) = gain
          BY <2>3, <3>1 DEF Sound
      <4>2. row'[v] = r
          BY <1>2, <2>4, <2>5, <3>1
      <4> QED
          BY <2>2, <3>1, <4>1, <4>2
    <3>2. CASE v # w
      <4>1. {e \in es : e.wallet = v} = {}
          BY <2>3, <3>2 DEF Sound
      <4>2. row'[v] = row[v] /\ v \in wallets /\ row[v].available \in Nat
          BY <2>4, <2>5, <3>2 DEF Rows
      <4>3. row[v].available + 0 = row[v].available
          BY <4>2
      <4> QED
          BY <4>1, <4>2, <4>3, SumOfNone DEF Before
    <3> QED
        BY <3>1, <3>2
  <2>8. Explained(es)
      BY <2>3, <2>4, <2>6, <2>7 DEF Explained, Sound
  <2>9. TakesNothingBack
      BY <1>2 DEF TakesNothingBack
  <2> QED
      BY <2>8, <2>9, ExplainedKeeps
<1> QED
    BY <1>3, <1>4

\* A grant enters the pack, once for each Session.
LEMMA FulfillExplains ==
    ASSUME BalanceInv, LedgerInv, KeepsOutcomes, NEW w \in Devices, NEW q \in Requests, Fulfill(w, q)
    PROVE  LedgerInv'
<1>1. PICK e : e = PurchaseEntry(w, q)
    OBVIOUS
<1>2. e.wallet = w /\ e.key = <<"purchase", w, q>> /\ e.delta = Pack /\ Pack \in Int
    BY <1>1, CreditAssumption DEF PurchaseEntry, Entry, CreditAssumption
<1>3. /\ w \in wallets /\ e \notin ledger /\ ledger' = ledger \cup {e}
      /\ row' = [row EXCEPT ![w].available = @ + Pack, ![w].granted = @ + Pack]
      /\ UNCHANGED <<wallets, alias, reservation>>
    BY <1>1, <1>2 DEF Fulfill, Grant, Granted
<1>4. IsFiniteSet({e}) /\ Whole({e}) /\ SumOf({e}) = Pack
    BY <1>2, SumOfOne
<1>5. \A j : /\ <<"purchase", w, q>> # <<"expire", j>> /\ <<"purchase", w, q>> # <<"reserve", j>>
             /\ <<"purchase", w, q>> # <<"commit", j>> /\ <<"purchase", w, q>> # <<"release", j>>
             /\ <<"purchase", w, q>> # <<"usage", j>>
    OBVIOUS
<1>6. \A x \in {e} : x.wallet \in Devices /\ Tells(x)'
    BY <1>2, <1>5 DEF Tells, Reports
<1>7. row \in [Devices -> Rows] /\ wallets \subseteq Devices
    BY DEF BalanceInv, TypeOK
<1>8. ASSUME NEW v \in wallets' PROVE row'[v].available = Before(v) + SumOf({x \in {e} : x.wallet = v})
  <2>1. v \in wallets /\ v \in Devices /\ row[v].available \in Nat /\ Before(v) = row[v].available
      BY <1>3, <1>7 DEF Rows, Before
  <2>2. CASE v = w
    <3>1. {x \in {e} : x.wallet = v} = {e}
        BY <1>2, <2>2
    <3>2. row'[v].available = row[v].available + Pack
        BY <1>2, <1>3, <1>7, <2>1, <2>2 DEF Rows
    <3> QED
        BY <1>4, <2>1, <3>1, <3>2
  <2>3. CASE v # w
    <3>1. {x \in {e} : x.wallet = v} = {}
        BY <1>2, <2>3
    <3>2. row'[v] = row[v] /\ row[v].available + 0 = row[v].available
        BY <1>3, <1>7, <2>1, <2>3
    <3> QED
        BY <2>1, <3>1, <3>2, SumOfNone
  <2> QED
      BY <2>2, <2>3
<1>9. Explained({e})
    BY <1>3, <1>4, <1>6, <1>8 DEF Explained
<1>10. TakesNothingBack
    BY <1>3 DEF TakesNothingBack
<1> QED
    BY <1>9, <1>10, ExplainedKeeps

LEMMA InitLedger == Init => LedgerInv
    BY FS_EmptySet DEF Init, LedgerInv

LEMMA NextKeepsLedger == BalanceInv /\ LedgerInv /\ [Next]_vars => LedgerInv'
<1> SUFFICES ASSUME BalanceInv, LedgerInv, [Next]_vars PROVE LedgerInv'
    OBVIOUS
<1>a. KeepsOutcomes
    BY NextKeepsOutcomes
<1>b. /\ \A d \in Devices : \A w \in DeviceWallets(d) : w \in Devices
      /\ \A a \in Accounts : \A w \in AccountWallets(a) :
           w \in Devices /\ w \in wallets
    BY DEF DeviceWallets, AccountWallets, BalanceInv, TypeOK
<1>1. CASE \E d \in Devices, used \in LegacyUses : Sync(d, used)
    BY <1>a, <1>b, <1>1, CreditAssumption, TouchExplains DEF Sync, CreditAssumption
<1>2. CASE \E a \in Accounts : SyncAccount(a)
    BY <1>a, <1>b, <1>2, Zero, TouchExplains DEF SyncAccount
<1>3. CASE \E d \in Devices, k \in Keys : Reserve(d, k)
    BY <1>a, <1>b, <1>3, ReserveExplains DEF Reserve
<1>4. CASE \E a \in Accounts, k \in Keys : ReserveForAccount(a, k)
    BY <1>a, <1>b, <1>4, ReserveExplains DEF ReserveForAccount
<1>5. CASE \E d \in Devices, k \in Keys, outcome \in {"committed", "released"} :
             Finalize(d, k, outcome)
    BY <1>a, <1>5, FinalizeExplains DEF Finalize
<1>6. CASE \E a \in Accounts, k \in Keys, outcome \in {"committed", "released"} :
             FinalizeForAccount(a, k, outcome)
    BY <1>a, <1>b, <1>6, FinalizeExplains DEF FinalizeForAccount
<1>7. CASE \E d \in Devices, r \in Requests : QuotePack(d, r)
    BY <1>a, <1>7, QuoteExplains
<1>8. CASE \E w \in Devices, r \in Requests : Fulfill(w, r)
    BY <1>a, <1>8, FulfillExplains
<1>9. CASE \E a \in Accounts, d \in Devices : BindFirst(a, d) \/ BindNew(a, d) \/ BindExisting(a, d)
    BY <1>a, <1>9, BindFirstExplains, BindNewExplains, BindExistingExplains
<1>10. CASE UNCHANGED <<wallets, row, alias, reservation, ledger>>
    BY <1>10 DEF LedgerInv, Tells, Reports, EntriesOf
<1> QED
    BY <1>1, <1>2, <1>3, <1>4, <1>5, <1>6, <1>7, <1>8, <1>9, <1>10
    DEF Next, vars, CreateSession, Pay, Lapse

\* The append-only ledger explains every balance of every wallet, whatever the
\* operations, the retries and the bindings: no entry is written twice and none
\* is missing (every INSERT INTO sidestream_credit_ledger of download-credits.ts).
THEOREM LedgerExplained == Spec => []LedgerExplainsBalance
<1>1. LedgerInv => LedgerExplainsBalance
    BY DEF LedgerInv, LedgerExplainsBalance, SumOf, EntriesOf
<1> QED
    BY <1>1, InitLedger, NextKeepsLedger, BalanceInvariant, PTL DEF Spec

-----------------------------------------------------------------------------
(***************************************************************************)
(* Friend rewards: FriendRewards, for any accounts, installations, browsers *)
(* and retries.  Each operation is one step, so that the invariant is of    *)
(* the tables alone: who an installation belongs to (TiesOK), what a claim  *)
(* and its grants say of each other (GrantsOK), and that a wallet whose     *)
(* credits were spent is marked used (SpentIsUsed).                         *)
(***************************************************************************)
CONSTANTS Visits, Connections, Founder, Home, Licensed, Programme, MaxDay, None
VARIABLES now, account, wallet, boundTo, panel, member, visit, claim, connection, charged, covered, grants

Friends == INSTANCE FriendRewards WITH alias <- boundTo

Purses == [owner : Accounts \cup {None}, day : Nat, used : BOOLEAN]
Panels == [account : Accounts, credential : Connections \cup {None}]
Members == [wallet : Friends!Installations, until : Nat]
Calls == [inviter : Accounts, day : Nat]
Claims == [inviter : Accounts, visit : Visits, key : Friends!Slots \cup {None}]
Links == [device : Devices, account : Accounts \cup {None}, day : Nat]
Uses == [status : {"reserved", "committed", "released", "expired"}, account : Accounts \cup {None}, day : Nat]
Grants == [claim : Accounts, role : {"inviter", "recipient"}, account : Accounts, from : Nat]

FriendTypes ==
    /\ now \in Nat /\ boundTo \in [Friends!Installations -> Accounts \cup {None}]
    /\ wallet \in [Friends!Installations -> Purses \cup {None}]
    /\ panel \in [Friends!Installations -> Panels \cup {None}]
    /\ member \in [Accounts -> Members \cup {None}]
    /\ visit \in [Visits -> Calls \cup {None}] /\ claim \in [Accounts -> Claims \cup {None}]
    /\ connection \in [Connections -> Links \cup {None}]
    /\ charged \in [Friends!Slots -> Uses \cup {None}] /\ covered \in [Friends!Slots -> Uses \cup {None}]
    /\ grants \subseteq Grants

\* An installation is one account's, whoever gave it; a member's wallet is its
\* only one.
OwnerOf(d) == IF wallet[d] = None THEN None ELSE wallet[d].owner
PanelOf(d) == IF panel[d] = None THEN None ELSE panel[d].account
TiesOK ==
    /\ \A d \in Friends!Installations :
         /\ boundTo[d] # None /\ PanelOf(d) # None => boundTo[d] = PanelOf(d)
         /\ boundTo[d] # None /\ OwnerOf(d) # None => boundTo[d] = OwnerOf(d)
         /\ PanelOf(d) # None /\ OwnerOf(d) # None => PanelOf(d) = OwnerOf(d)
         /\ PanelOf(d) # None => member[PanelOf(d)] # None
    /\ \A a \in Accounts : member[a] # None =>
         \A d \in Friends!Installations : OwnerOf(d) = a <=> d = member[a].wallet

\* An invitation is a member's, and a claim's grants came with its download.
DoneBy(table, s, a) == table[s] # None /\ table[s].status = "committed" /\ table[s].account = a
Finished(a) == DoneBy(charged, claim[a].key, a) \/ DoneBy(covered, claim[a].key, a)
Rewarded(a, role) == \E g \in grants : g.claim = a /\ g.role = role
GrantsOK ==
    /\ \A v \in Visits : visit[v] # None => member[visit[v].inviter] # None
    /\ \A a \in Accounts : claim[a] # None =>
         /\ claim[a].inviter # a /\ member[claim[a].inviter] # None
         /\ claim[a].key # None => Finished(a) /\ Rewarded(a, "inviter") /\ Rewarded(a, "recipient")
    /\ \A g \in grants :
         /\ claim[g.claim] # None /\ claim[g.claim].key # None
         /\ member[g.account] # None /\ member[g.account].until > g.from
    /\ \A g, h \in grants : g.account = h.account /\ g # h => g.from # h.from

\* A download that was paid with credits leaves its wallet used.
SpentIsUsed ==
    \A s \in Friends!Slots : charged[s] # None =>
        /\ wallet[s[1]] # None
        /\ charged[s].status = "committed" => wallet[s[1]].used = TRUE

FriendInv == FriendTypes /\ TiesOK /\ GrantsOK /\ SpentIsUsed

\* A claimant joins on a wallet that was not used.
JoinsUnused ==
    \A a \in Accounts : claim[a] # None /\ member[a] = None /\ member'[a] # None =>
        \A k \in Keys : charged[<<member'[a].wallet, k>>] # None =>
            charged[<<member'[a].wallet, k>>].status # "committed"

-----------------------------------------------------------------------------
\* What a step may do without touching each part of the invariant.
SameTies ==
    /\ boundTo' = boundTo /\ panel' = panel
    /\ \A a \in Accounts : /\ member'[a] = None <=> member[a] = None
                           /\ member[a] # None => member'[a].wallet = member[a].wallet
    /\ \A d \in Friends!Installations : OwnerOf(d)' = OwnerOf(d)

DoneStays(old, new) ==
    \A s \in Friends!Slots : old[s] # None /\ old[s].status = "committed" => new[s] = old[s]
SameRewards ==
    /\ visit' = visit /\ claim' = claim /\ grants' = grants
    /\ DoneStays(charged, charged') /\ DoneStays(covered, covered')
    /\ \A a \in Accounts : member[a] # None => member'[a] # None /\ member'[a].until = member[a].until

UsedStays ==
    \A w \in Friends!Installations : wallet[w] # None =>
        wallet'[w] # None /\ (wallet[w].used = TRUE => wallet'[w].used = TRUE)
NothingSpent ==
    /\ UsedStays
    /\ \A s \in Friends!Slots : charged'[s] # None =>
         /\ charged[s] # None \/ wallet'[s[1]] # None
         /\ charged'[s].status = "committed" => charged[s] = charged'[s]

LEMMA TiesStay == ASSUME FriendInv, SameTies, panel \in [Friends!Installations -> Panels \cup {None}] PROVE TiesOK'
<1>1. \A d \in Friends!Installations : PanelOf(d)' = PanelOf(d) /\ OwnerOf(d)' = OwnerOf(d) /\ boundTo'[d] = boundTo[d]
    BY DEF SameTies, PanelOf
<1>2. \A d \in Friends!Installations : PanelOf(d) # None => PanelOf(d) \in Accounts
    BY DEF PanelOf, FriendInv, FriendTypes, Panels
<1>3. TiesOK
    BY DEF FriendInv
<1>4. ASSUME NEW d \in Friends!Installations
      PROVE  /\ boundTo'[d] # None /\ PanelOf(d)' # None => boundTo'[d] = PanelOf(d)'
             /\ boundTo'[d] # None /\ OwnerOf(d)' # None => boundTo'[d] = OwnerOf(d)'
             /\ PanelOf(d)' # None /\ OwnerOf(d)' # None => PanelOf(d)' = OwnerOf(d)'
             /\ PanelOf(d)' # None => member'[PanelOf(d)'] # None
    BY <1>1, <1>2, <1>3 DEF TiesOK, SameTies
<1>5. ASSUME NEW a \in Accounts, member'[a] # None, NEW d \in Friends!Installations
      PROVE  OwnerOf(d)' = a <=> d = member'[a].wallet
    BY <1>1, <1>3, <1>5 DEF TiesOK, SameTies
<1> QED
    BY <1>4, <1>5 DEF TiesOK

LEMMA RewardsStay == ASSUME FriendInv, SameRewards PROVE GrantsOK'
<1>1. GrantsOK /\ FriendTypes
    BY DEF FriendInv
<1>2. \A v \in Visits : visit[v] # None => visit[v].inviter \in Accounts
    BY <1>1 DEF FriendTypes, Calls
<1>3. \A a \in Accounts : claim[a] # None => claim[a].inviter \in Accounts /\ claim[a].key \in Friends!Slots \cup {None}
    BY <1>1 DEF FriendTypes, Claims
<1>4. \A g \in grants : g.account \in Accounts
    BY <1>1 DEF FriendTypes, Grants
<1>5. \A s \in Friends!Slots, a \in Accounts : /\ DoneBy(charged, s, a) => DoneBy(charged', s, a)
                                               /\ DoneBy(covered, s, a) => DoneBy(covered', s, a)
    BY DEF DoneBy, SameRewards, DoneStays
<1>6. \A v \in Visits : visit'[v] # None => member'[visit'[v].inviter] # None
    BY <1>1, <1>2 DEF GrantsOK, SameRewards
<1>7. ASSUME NEW a \in Accounts, claim'[a] # None
      PROVE  /\ claim'[a].inviter # a /\ member'[claim'[a].inviter] # None
             /\ claim'[a].key # None => Finished(a)' /\ Rewarded(a, "inviter")' /\ Rewarded(a, "recipient")'
    BY <1>1, <1>3, <1>5, <1>7 DEF GrantsOK, SameRewards, Finished, Rewarded
<1>8. ASSUME NEW g \in grants'
      PROVE  /\ claim'[g.claim] # None /\ claim'[g.claim].key # None
             /\ member'[g.account] # None /\ member'[g.account].until > g.from
    BY <1>1, <1>4 DEF GrantsOK, SameRewards
<1>9. \A g, h \in grants' : g.account = h.account /\ g # h => g.from # h.from
    BY <1>1 DEF GrantsOK, SameRewards
<1> QED
    BY <1>6, <1>7, <1>8, <1>9 DEF GrantsOK

LEMMA SpentStays == ASSUME FriendInv, NothingSpent PROVE SpentIsUsed'
<1>1. \A s \in Friends!Slots : s[1] \in Friends!Installations
    BY DEF Friends!Slots
<1>2. SUFFICES ASSUME NEW s \in Friends!Slots, charged'[s] # None
               PROVE  /\ wallet'[s[1]] # None
                      /\ charged'[s].status = "committed" => wallet'[s[1]].used = TRUE
    BY DEF SpentIsUsed
<1> QED
    BY <1>1, <1>2 DEF FriendInv, SpentIsUsed, NothingSpent, UsedStays

-----------------------------------------------------------------------------
(* Wallets and reservations. *)
LEMMA WalletForIs ==
    ASSUME FriendInv, NEW d \in Friends!Installations
    PROVE  /\ Friends!WalletFor(d) \in Friends!Installations
           /\ \/ Friends!WalletFor(d) = d
              \/ /\ boundTo[d] # None /\ wallet[Friends!WalletFor(d)] # None
                 /\ wallet[Friends!WalletFor(d)].owner = boundTo[d]
<1>1. CASE boundTo[d] # None /\ Friends!WalletsOf(boundTo[d]) # {}
  <2>1. PICK w : w = (CHOOSE x \in Friends!WalletsOf(boundTo[d]) : TRUE)
      OBVIOUS
  <2>2. w \in Friends!WalletsOf(boundTo[d])
      BY <1>1, <2>1
  <2>3. Friends!WalletFor(d) = w
      BY <1>1, <2>1 DEF Friends!WalletFor
  <2> QED
      BY <1>1, <2>2, <2>3 DEF Friends!WalletsOf, Friends!Has, FriendInv, FriendTypes
<1>2. CASE ~(boundTo[d] # None /\ Friends!WalletsOf(boundTo[d]) # {})
    BY <1>2 DEF Friends!WalletFor
<1> QED
    BY <1>1, <1>2

LEMMA ReleasedIs ==
    ASSUME NEW t \in [Friends!Slots -> Uses \cup {None}], NEW w, Friends!FriendAssumption
    PROVE  /\ Friends!Released(t, w) \in [Friends!Slots -> Uses \cup {None}]
           /\ DoneStays(t, Friends!Released(t, w))
           /\ \A s \in Friends!Slots :
                /\ Friends!Released(t, w)[s] = None <=> t[s] = None
                /\ t[s] # None =>
                     /\ Friends!Released(t, w)[s].account = t[s].account
                     /\ Friends!Released(t, w)[s].status = "committed" => Friends!Released(t, w)[s] = t[s]
<1>1. None \notin Uses
    BY DEF Friends!FriendAssumption, Uses
<1>2. ASSUME NEW s \in Friends!Slots
      PROVE  /\ Friends!Released(t, w)[s] \in Uses \cup {None}
             /\ Friends!Released(t, w)[s] = None <=> t[s] = None
             /\ t[s] # None /\ t[s].status = "committed" => Friends!Released(t, w)[s] = t[s]
             /\ t[s] # None =>
                     /\ Friends!Released(t, w)[s].account = t[s].account
                     /\ Friends!Released(t, w)[s].status = "committed" => Friends!Released(t, w)[s] = t[s]
  <2>1. CASE s[1] = w /\ Friends!Lapsed(t[s])
    <3>1. Friends!Released(t, w)[s] = [t[s] EXCEPT !.status = "expired"]
        BY <2>1 DEF Friends!Released
    <3>2. t[s] \in Uses /\ t[s].status = "reserved"
        BY <2>1 DEF Friends!Lapsed
    <3>3. [t[s] EXCEPT !.status = "expired"] \in Uses
        BY <3>2 DEF Uses
    <3>4. [t[s] EXCEPT !.status = "expired"].status = "expired"
          /\ [t[s] EXCEPT !.status = "expired"].account = t[s].account
        BY <3>2 DEF Uses
    <3> QED
        BY <1>1, <3>1, <3>2, <3>3, <3>4
  <2>2. CASE ~(s[1] = w /\ Friends!Lapsed(t[s]))
    <3>1. Friends!Released(t, w)[s] = t[s]
        BY <2>2 DEF Friends!Released
    <3> QED
        BY <3>1
  <2> QED
      BY <2>1, <2>2
<1>3. Friends!Released(t, w) \in [Friends!Slots -> Uses \cup {None}]
    BY <1>2 DEF Friends!Released
<1> QED
    BY <1>2, <1>3 DEF DoneStays

LEMMA NewWalletIs ==
    ASSUME FriendInv, NEW used \in BOOLEAN
    PROVE  /\ Friends!NewWallet(used) \in Purses
           /\ Friends!NewWallet(used).owner = None /\ Friends!NewWallet(used).used = used
    BY DEF Friends!NewWallet, Purses, FriendInv, FriendTypes

LEMMA SameOwnersStay ==
    ASSUME FriendInv, Friends!FriendAssumption, NEW x \in Friends!Installations, NEW used \in BOOLEAN,
           wallet[x] = None, wallet' = [wallet EXCEPT ![x] = Friends!NewWallet(used)]
    PROVE  /\ wallet' \in [Friends!Installations -> Purses \cup {None}] /\ wallet'[x] # None /\ UsedStays
           /\ \A d \in Friends!Installations : OwnerOf(d)' = OwnerOf(d)
<1>1. wallet \in [Friends!Installations -> Purses \cup {None}] /\ None \notin Purses
    BY DEF FriendInv, FriendTypes, Friends!FriendAssumption, Purses
<1>2. wallet'[x] = Friends!NewWallet(used) /\ \A d \in Friends!Installations : d # x => wallet'[d] = wallet[d]
    BY <1>1
<1>3. wallet' \in [Friends!Installations -> Purses \cup {None}]
    BY <1>1, NewWalletIs
<1>4. wallet'[x] # None
    BY <1>1, <1>2, NewWalletIs
<1> QED
    BY <1>2, <1>3, <1>4, NewWalletIs DEF UsedStays, OwnerOf

\* What each step is shown to keep.
FriendKept == FriendInv' /\ JoinsUnused

-----------------------------------------------------------------------------
(* Steps that change no tie and no reward. *)
LEMMA PlainSteps ==
    ASSUME FriendInv, Friends!FriendAssumption, FriendTypes', SameTies, SameRewards, NothingSpent
    PROVE  FriendKept
<1>1. panel \in [Friends!Installations -> Panels \cup {None}]
    BY DEF FriendInv, FriendTypes
<1>2. JoinsUnused
    BY DEF JoinsUnused, SameTies
<1> QED
    BY <1>1, <1>2, TiesStay, RewardsStay, SpentStays DEF FriendKept, FriendInv

LEMMA NothingChanges ==
    ASSUME FriendInv, UNCHANGED <<boundTo, panel, member, wallet, visit, claim, grants, charged, covered>>
    PROVE  SameTies /\ SameRewards /\ NothingSpent
    BY DEF SameTies, OwnerOf, SameRewards, DoneStays, NothingSpent, UsedStays

LEMMA QuietFriends ==
    ASSUME FriendInv, Friends!FriendAssumption, Friends!Tick \/ (\E a \in Accounts : Friends!SignUp(a))
    PROVE  FriendKept
<1>1. UNCHANGED <<boundTo, panel, member, connection, wallet, visit, claim, grants, charged, covered>>
    BY DEF Friends!Tick, Friends!SignUp, Friends!links, Friends!invitations
<1>2. now' \in Nat
    BY DEF Friends!Tick, Friends!SignUp, FriendInv, FriendTypes
<1>3. FriendTypes'
    BY <1>1, <1>2 DEF FriendInv, FriendTypes
<1> QED
    BY <1>1, <1>3, NothingChanges, PlainSteps

LEMMA StartsConnection ==
    ASSUME FriendInv, Friends!FriendAssumption, NEW c \in Connections, NEW d \in Devices, Friends!StartConnection(c, d)
    PROVE  FriendKept
<1>1. UNCHANGED <<now, boundTo, panel, member, wallet, visit, claim, grants, charged, covered>>
    BY DEF Friends!StartConnection, Friends!invitations
<1>2. [device |-> d, account |-> None, day |-> now] \in Links
    BY DEF Links, FriendInv, FriendTypes
<1>3. connection' \in [Connections -> Links \cup {None}]
    BY <1>2 DEF Friends!StartConnection, FriendInv, FriendTypes
<1>4. FriendTypes'
    BY <1>1, <1>3 DEF FriendInv, FriendTypes
<1> QED
    BY <1>1, <1>4, NothingChanges, PlainSteps

LEMMA SyncsFriend ==
    ASSUME FriendInv, Friends!FriendAssumption, NEW d \in Devices, NEW used \in BOOLEAN, Friends!Sync(d, used)
    PROVE  FriendKept
<1>1. UNCHANGED <<now, boundTo, panel, member, connection, visit, claim, grants, charged, covered>>
    BY DEF Friends!Sync, Friends!links, Friends!invitations
<1>2. d \in Friends!Installations
    BY DEF Friends!Installations
<1>3. wallet[d] = None
    BY <1>2, WalletForIs DEF Friends!Sync
<1>4. wallet' = [wallet EXCEPT ![d] = Friends!NewWallet(used)]
    BY DEF Friends!Sync
<1>5. /\ wallet' \in [Friends!Installations -> Purses \cup {None}] /\ UsedStays
      /\ \A x \in Friends!Installations : OwnerOf(x)' = OwnerOf(x)
    BY <1>2, <1>3, <1>4, SameOwnersStay
<1>6. FriendTypes'
    BY <1>1, <1>5 DEF FriendInv, FriendTypes
<1>7. SameTies
    BY <1>1, <1>5 DEF SameTies
<1>8. SameRewards
    BY <1>1 DEF SameRewards, DoneStays
<1>9. NothingSpent
    BY <1>1, <1>5 DEF NothingSpent
<1> QED
    BY <1>6, <1>7, <1>8, <1>9, PlainSteps

LEMMA AssistantDownloads ==
    ASSUME FriendInv, Friends!FriendAssumption, NEW a \in Accounts, Friends!AssistantDownload(a)
    PROVE  FriendKept
<1>1. UNCHANGED <<now, boundTo, panel, member, connection, visit, claim, grants, charged, covered>>
    BY DEF Friends!AssistantDownload, Friends!links, Friends!invitations
<1>2. wallet \in [Friends!Installations -> Purses \cup {None}] /\ None \notin Purses
    BY DEF FriendInv, FriendTypes, Friends!FriendAssumption, Purses
<1>3. ASSUME NEW d \in Friends!Installations
      PROVE  /\ wallet'[d] \in Purses \cup {None}
             /\ wallet[d] # None => wallet'[d] # None /\ (wallet[d].used = TRUE => wallet'[d].used = TRUE)
             /\ OwnerOf(d)' = OwnerOf(d)
  <2>1. CASE d \in Friends!WalletsOf(a)
    <3>1. wallet[d] \in Purses
        BY <1>2, <2>1 DEF Friends!WalletsOf, Friends!Has
    <3>2. wallet'[d] = [wallet[d] EXCEPT !.used = TRUE]
        BY <2>1 DEF Friends!AssistantDownload
    <3>3. [wallet[d] EXCEPT !.used = TRUE] \in Purses
          /\ [wallet[d] EXCEPT !.used = TRUE].used = TRUE
          /\ [wallet[d] EXCEPT !.used = TRUE].owner = wallet[d].owner
        BY <3>1 DEF Purses
    <3> QED
        BY <1>2, <3>1, <3>2, <3>3 DEF OwnerOf
  <2>2. CASE d \notin Friends!WalletsOf(a)
    <3>1. wallet'[d] = wallet[d]
        BY <2>2 DEF Friends!AssistantDownload
    <3> QED
        BY <1>2, <3>1 DEF OwnerOf
  <2> QED
      BY <2>1, <2>2
<1>4. wallet' \in [Friends!Installations -> Purses \cup {None}]
    BY <1>3 DEF Friends!AssistantDownload
<1>6. FriendTypes'
    BY <1>1, <1>4 DEF FriendInv, FriendTypes
<1>7. SameTies
    BY <1>1, <1>3 DEF SameTies
<1>8. SameRewards
    BY <1>1 DEF SameRewards, DoneStays
<1>9. NothingSpent
    BY <1>1, <1>3 DEF NothingSpent, UsedStays
<1> QED
    BY <1>6, <1>7, <1>8, <1>9, PlainSteps

-----------------------------------------------------------------------------
(* Steps that tie an installation to an account. *)

\* An account that owned nothing, or this wallet alone, becomes its owner.
LEMMA OwnerJoins ==
    ASSUME FriendInv, Friends!FriendAssumption, NEW a \in Accounts, NEW x \in Friends!Installations,
           Friends!WalletsOf(a) \subseteq {x}, OwnerOf(x) \in {None, a},
           OwnerOf(x)' = a, \A d \in Friends!Installations : d # x => OwnerOf(d)' = OwnerOf(d)
    PROVE  \A d \in Friends!Installations : OwnerOf(d)' = a <=> d = x
<1>1. SUFFICES ASSUME NEW d \in Friends!Installations, d # x, OwnerOf(d) = a PROVE FALSE
    OBVIOUS
<1>2. wallet[d] # None /\ wallet[d].owner = a
    BY <1>1 DEF OwnerOf, Friends!FriendAssumption
<1>3. d \in Friends!WalletsOf(a)
    BY <1>2 DEF Friends!WalletsOf, Friends!Has, FriendInv, FriendTypes
<1> QED
    BY <1>1, <1>3

LEMMA Connects ==
    ASSUME FriendInv, Friends!FriendAssumption, NEW c \in Connections, NEW a \in Accounts, Friends!Connect(c, a)
    PROVE  FriendKept
<1>a. PICK d : d = connection[c].device
    OBVIOUS
<1>b. PICK w : w = Friends!WalletFor(d)
    OBVIOUS
<1>1. UNCHANGED <<now, boundTo, visit, claim, grants, charged, covered>>
    BY DEF Friends!Connect, Friends!invitations
<1>2. connection[c] \in Links /\ d \in Devices /\ d \in Friends!Installations
    BY <1>a DEF Friends!Connect, FriendInv, FriendTypes, Links, Friends!Installations
<1>3. w \in Friends!Installations /\ (w = d \/ (boundTo[d] # None /\ wallet[w] # None /\ wallet[w].owner = boundTo[d]))
    BY <1>2, <1>b, WalletForIs
<1>4. /\ wallet[w] # None /\ ~Friends!Foreign(d, a)
      /\ IF member[a] = None THEN Friends!Join(a, w) ELSE UNCHANGED <<member, wallet>>
      /\ panel' = [panel EXCEPT ![d] = [account |-> a, credential |-> c]]
      /\ connection' = [connection EXCEPT ![c].account = a]
    BY <1>a, <1>b DEF Friends!Connect
<1>5. boundTo[d] \in {None, a} /\ PanelOf(d) \in {None, a} /\ OwnerOf(w) \in {None, a}
    BY <1>4, <1>b DEF Friends!Foreign, PanelOf, OwnerOf
<1>6. OwnerOf(d) \in {None, a}
  <2>1. CASE w = d
      BY <1>5, <2>1
  <2>2. CASE w # d
    <3>1. boundTo[d] = a
        BY <1>3, <1>5, <2>2
    <3> QED
        BY <1>2, <3>1 DEF FriendInv, TiesOK, Friends!FriendAssumption
  <2> QED
      BY <2>1, <2>2
<1>7. wallet \in [Friends!Installations -> Purses \cup {None}] /\ None \notin Purses /\ None \notin Members /\ a # None
      /\ member \in [Accounts -> Members \cup {None}] /\ panel \in [Friends!Installations -> Panels \cup {None}]
    BY DEF FriendInv, FriendTypes, Friends!FriendAssumption, Purses, Members
<1>8. connection' \in [Connections -> Links \cup {None}]
  <2>1. [connection[c] EXCEPT !.account = a] \in Links
      BY <1>2 DEF Links
  <2>2. connection' = [connection EXCEPT ![c] = [connection[c] EXCEPT !.account = a]]
      BY <1>4
  <2> QED
      BY <2>1, <2>2 DEF FriendInv, FriendTypes
<1>9. panel' \in [Friends!Installations -> Panels \cup {None}]
      /\ PanelOf(d)' \in {None, a} /\ \A x \in Friends!Installations : x # d => PanelOf(x)' = PanelOf(x)
  <2>1. PICK k : k = [account |-> a, credential |-> c]
      OBVIOUS
  <2>2. k \in Panels /\ k.account = a
      BY <2>1 DEF Panels
  <2>3. panel' = [panel EXCEPT ![d] = k]
      BY <1>4, <2>1
  <2> QED
      BY <1>2, <1>7, <2>2, <2>3 DEF PanelOf
<1>10. CASE member[a] # None
  <2>1. UNCHANGED <<member, wallet>>
      BY <1>4, <1>10
  <2>2. FriendTypes'
      BY <1>1, <1>8, <1>9, <2>1 DEF FriendInv, FriendTypes
  <2>3. \A x \in Friends!Installations : OwnerOf(x)' = OwnerOf(x)
      BY <2>1 DEF OwnerOf
  <2>4. TiesOK'
    <3>1. ASSUME NEW x \in Friends!Installations
          PROVE  /\ boundTo'[x] # None /\ PanelOf(x)' # None => boundTo'[x] = PanelOf(x)'
                 /\ boundTo'[x] # None /\ OwnerOf(x)' # None => boundTo'[x] = OwnerOf(x)'
                 /\ PanelOf(x)' # None /\ OwnerOf(x)' # None => PanelOf(x)' = OwnerOf(x)'
                 /\ PanelOf(x)' # None => member'[PanelOf(x)'] # None
        BY <1>1, <1>5, <1>6, <1>9, <1>10, <2>1, <2>3 DEF FriendInv, TiesOK
    <3>2. ASSUME NEW b \in Accounts, member'[b] # None, NEW x \in Friends!Installations
          PROVE  OwnerOf(x)' = b <=> x = member'[b].wallet
        BY <2>1, <2>3, <3>2 DEF FriendInv, TiesOK
    <3> QED
        BY <3>1, <3>2 DEF TiesOK
  <2>5. SameRewards /\ NothingSpent
      BY <1>1, <2>1 DEF SameRewards, DoneStays, NothingSpent, UsedStays
  <2>6. JoinsUnused
      BY <2>1 DEF JoinsUnused
  <2> QED
      BY <2>2, <2>4, <2>5, <2>6, RewardsStay, SpentStays DEF FriendKept, FriendInv
<1>11. CASE member[a] = None
  <2>1. /\ Friends!Newcomer(a, w) /\ Friends!WalletsOf(a) \subseteq {w}
        /\ member' = [member EXCEPT ![a] = [wallet |-> w, until |-> 0]]
        /\ wallet' = [wallet EXCEPT ![w].owner = a]
      BY <1>4, <1>11 DEF Friends!Join
  <2>2. PICK k : k = [wallet |-> w, until |-> 0]
      OBVIOUS
  <2>3. k \in Members /\ k.wallet = w /\ k # None
      BY <1>3, <1>7, <2>2 DEF Members
  <2>4. member' = [member EXCEPT ![a] = k]
      BY <2>1, <2>2
  <2>5. PICK p : p = [wallet[w] EXCEPT !.owner = a]
      OBVIOUS
  <2>6. wallet[w] \in Purses
      BY <1>3, <1>4, <1>7
  <2>7. p \in Purses /\ p.owner = a /\ p.used = wallet[w].used /\ p # None
      BY <1>7, <2>5, <2>6 DEF Purses
  <2>8. wallet' = [wallet EXCEPT ![w] = p]
      BY <2>1, <2>5
  <2>9. /\ wallet' \in [Friends!Installations -> Purses \cup {None}] /\ wallet'[w] = p
        /\ \A x \in Friends!Installations : x # w => wallet'[x] = wallet[x]
      BY <1>3, <1>7, <2>7, <2>8
  <2>10. /\ member' \in [Accounts -> Members \cup {None}] /\ member'[a] = k
         /\ \A b \in Accounts : b # a => member'[b] = member[b]
      BY <1>7, <2>3, <2>4
  <2>11. FriendTypes'
      BY <1>1, <1>8, <1>9, <2>9, <2>10 DEF FriendInv, FriendTypes
  <2>12. OwnerOf(w)' = a /\ \A x \in Friends!Installations : x # w => OwnerOf(x)' = OwnerOf(x)
      BY <2>7, <2>9 DEF OwnerOf
  <2>13. \A x \in Friends!Installations : OwnerOf(x)' = a <=> x = w
      BY <1>3, <1>5, <2>1, <2>12, OwnerJoins
  <2>14. TiesOK'
    <3>1. ASSUME NEW x \in Friends!Installations
          PROVE  /\ boundTo'[x] # None /\ PanelOf(x)' # None => boundTo'[x] = PanelOf(x)'
                 /\ boundTo'[x] # None /\ OwnerOf(x)' # None => boundTo'[x] = OwnerOf(x)'
                 /\ PanelOf(x)' # None /\ OwnerOf(x)' # None => PanelOf(x)' = OwnerOf(x)'
                 /\ PanelOf(x)' # None => member'[PanelOf(x)'] # None
      <4>1. CASE x = d
        <5>1. OwnerOf(x)' \in {None, a}
            BY <1>6, <2>12, <4>1
        <5> QED
            BY <1>1, <1>5, <1>9, <2>3, <2>10, <4>1, <5>1
      <4>2. CASE x # d /\ x # w
        <5>1. PanelOf(x)' = PanelOf(x) /\ OwnerOf(x)' = OwnerOf(x) /\ boundTo'[x] = boundTo[x]
            BY <1>1, <1>9, <2>12, <4>2
        <5>2. PanelOf(x) # None => PanelOf(x) \in Accounts /\ member[PanelOf(x)] # None
            BY <1>7 DEF PanelOf, Panels, FriendInv, TiesOK
        <5>3. PanelOf(x) # None => member'[PanelOf(x)] # None
            BY <1>11, <2>10, <5>2
        <5> QED
            BY <5>1, <5>3 DEF FriendInv, TiesOK
      <4>3. CASE x # d /\ x = w
        <5>1. boundTo[d] = a /\ OwnerOf(w) = a
            BY <1>3, <1>4, <1>5, <4>3 DEF OwnerOf
        <5>2. PanelOf(x)' = PanelOf(x) /\ OwnerOf(x)' = OwnerOf(x) /\ boundTo'[x] = boundTo[x]
            BY <1>1, <1>9, <2>12, <4>3, <5>1
        <5>3. PanelOf(x) # None => PanelOf(x) \in Accounts /\ member[PanelOf(x)] # None
            BY <1>7, <1>3 DEF PanelOf, Panels, FriendInv, TiesOK
        <5>4. PanelOf(x) # None => member'[PanelOf(x)] # None
            BY <1>11, <2>10, <5>3
        <5> QED
            BY <5>2, <5>4 DEF FriendInv, TiesOK
      <4> QED
          BY <4>1, <4>2, <4>3
    <3>2. ASSUME NEW b \in Accounts, member'[b] # None, NEW x \in Friends!Installations
          PROVE  OwnerOf(x)' = b <=> x = member'[b].wallet
      <4>1. CASE b = a
          BY <2>3, <2>10, <2>13, <4>1
      <4>2. CASE b # a
        <5>1. member'[b] = member[b] /\ (OwnerOf(x) = b <=> x = member[b].wallet)
            BY <2>10, <3>2, <4>2 DEF FriendInv, TiesOK
        <5>2. OwnerOf(x)' = b <=> OwnerOf(x) = b
          <6>1. CASE x = w
              BY <1>5, <2>12, <4>2, <6>1, <1>7, <3>2 DEF Friends!FriendAssumption
          <6>2. CASE x # w
              BY <2>12, <6>2
          <6> QED
              BY <6>1, <6>2
        <5> QED
            BY <5>1, <5>2
      <4> QED
          BY <4>1, <4>2
    <3> QED
        BY <3>1, <3>2 DEF TiesOK
  <2>15. SameRewards
      BY <1>1, <1>11, <2>10 DEF SameRewards, DoneStays
  <2>16. NothingSpent
      BY <1>1, <2>7, <2>9 DEF NothingSpent, UsedStays
  <2>17. JoinsUnused
    <3>1. SUFFICES ASSUME claim[a] # None, NEW e \in Keys, charged[<<w, e>>] # None
                   PROVE  charged[<<w, e>>].status # "committed"
        BY <2>3, <2>10 DEF JoinsUnused
    <3>2. ~wallet[w].used
        BY <2>1, <3>1 DEF Friends!Newcomer
    <3>3. <<w, e>> \in Friends!Slots
        BY <1>3 DEF Friends!Slots
    <3>4. charged[<<w, e>>].status = "committed" => wallet[w].used = TRUE
        BY <3>1, <3>3 DEF FriendInv, SpentIsUsed
    <3> QED
        BY <3>2, <3>4
  <2> QED
      BY <2>11, <2>14, <2>15, <2>16, <2>17, RewardsStay, SpentStays DEF FriendKept, FriendInv
<1> QED
    BY <1>10, <1>11

LEMMA BindsAssistant ==
    ASSUME FriendInv, Friends!FriendAssumption, NEW a \in Accounts, NEW d \in Devices, Friends!BindAssistant(d, a)
    PROVE  FriendKept
<1>a. PICK own : own = Friends!WalletsOf(a)
    OBVIOUS
<1>b. PICK w : w = IF own = {} THEN d ELSE CHOOSE x \in own : TRUE
    OBVIOUS
<1>1. UNCHANGED <<now, panel, member, connection, visit, claim, grants>>
    BY DEF Friends!BindAssistant, Friends!invitations
<1>2. d \in Friends!Installations /\ boundTo[d] = None /\ boundTo' = [boundTo EXCEPT ![d] = a]
    BY DEF Friends!BindAssistant, Friends!Installations
<1>3. PanelOf(d) \in {None, a} /\ OwnerOf(d) \in {None, a}
    BY DEF Friends!BindAssistant, Friends!BoundElsewhere, PanelOf, OwnerOf
<1>4. wallet \in [Friends!Installations -> Purses \cup {None}] /\ None \notin Purses /\ a # None
      /\ boundTo \in [Friends!Installations -> Accounts \cup {None}]
      /\ charged \in [Friends!Slots -> Uses \cup {None}] /\ covered \in [Friends!Slots -> Uses \cup {None}]
    BY DEF FriendInv, FriendTypes, Friends!FriendAssumption, Purses
<1>5. own \subseteq Friends!Installations
      /\ (\A x \in Friends!Installations : x \in own <=> wallet[x] # None /\ wallet[x].owner = a)
    BY <1>a, <1>4 DEF Friends!WalletsOf, Friends!Has
<1>6. w \in Friends!Installations /\ (own # {} => w \in own) /\ (own = {} => w = d)
    BY <1>2, <1>5, <1>b
<1>7. boundTo' \in [Friends!Installations -> Accounts \cup {None}]
      /\ boundTo'[d] = a /\ \A x \in Friends!Installations : x # d => boundTo'[x] = boundTo[x]
    BY <1>2, <1>4
<1>8. charged' \in {charged, Friends!Released(charged, d)} /\ covered' \in {covered, Friends!Released(covered, d)}
    BY DEF Friends!BindAssistant
<1>9. /\ charged' \in [Friends!Slots -> Uses \cup {None}] /\ covered' \in [Friends!Slots -> Uses \cup {None}]
      /\ DoneStays(charged, charged') /\ DoneStays(covered, covered')
  <2>1. DoneStays(charged, charged) /\ DoneStays(covered, covered)
      BY DEF DoneStays
  <2>2. /\ Friends!Released(charged, d) \in [Friends!Slots -> Uses \cup {None}]
        /\ DoneStays(charged, Friends!Released(charged, d))
        /\ Friends!Released(covered, d) \in [Friends!Slots -> Uses \cup {None}]
        /\ DoneStays(covered, Friends!Released(covered, d))
      BY <1>4, ReleasedIs
  <2> QED
      BY <1>4, <1>8, <2>1, <2>2
<1>10. \A s \in Friends!Slots : charged'[s] # None =>
         charged[s] # None /\ (charged'[s].status = "committed" => charged[s] = charged'[s])
    BY <1>4, <1>8, ReleasedIs
<1>11. /\ wallet' \in [Friends!Installations -> Purses \cup {None}]
       /\ UsedStays /\ \A x \in Friends!Installations : x # w => OwnerOf(x)' = OwnerOf(x)
       /\ OwnerOf(w)' = a
  <2>1. PICK u : u = ((own # {} /\ w # d /\ wallet[d] # None) /\ wallet[d].used)
      OBVIOUS
  <2>2. wallet' = [wallet EXCEPT ![w] =
                     IF own = {} THEN [IF @ = None THEN Friends!NewWallet(FALSE) ELSE @ EXCEPT !.owner = a]
                     ELSE [@ EXCEPT !.used = wallet[w].used \/ u]]
      BY <1>a, <1>b, <2>1 DEF Friends!BindAssistant
  <2>3. \E p : /\ wallet' = [wallet EXCEPT ![w] = p] /\ p \in Purses /\ p.owner = a
               /\ wallet[w] # None /\ wallet[w].used = TRUE => p.used = TRUE
    <3>1. CASE own = {}
      <4>1. PICK q : q = IF wallet[w] = None THEN Friends!NewWallet(FALSE) ELSE wallet[w]
          OBVIOUS
      <4>2. q \in Purses /\ (wallet[w] # None => q = wallet[w])
          BY <1>4, <1>6, <4>1, NewWalletIs
      <4>3. PICK p : p = [q EXCEPT !.owner = a]
          OBVIOUS
      <4>4. wallet' = [wallet EXCEPT ![w] = p]
          BY <2>2, <3>1, <4>1, <4>3
      <4>5. p \in Purses /\ p.owner = a /\ p.used = q.used
          BY <4>2, <4>3 DEF Purses
      <4> QED
          BY <4>2, <4>4, <4>5
    <3>2. CASE own # {}
      <4>1. wallet[w] \in Purses /\ wallet[w].owner = a
          BY <1>4, <1>5, <1>6, <3>2
      <4>2. PICK p : p = [wallet[w] EXCEPT !.used = wallet[w].used \/ u]
          OBVIOUS
      <4>3. wallet' = [wallet EXCEPT ![w] = p]
          BY <2>2, <3>2, <4>2
      <4>4. (wallet[w].used \/ u) \in BOOLEAN
          OBVIOUS
      <4>5. p \in Purses /\ p.owner = wallet[w].owner /\ p.used = (wallet[w].used \/ u)
          BY <4>1, <4>2, <4>4 DEF Purses
      <4>6. wallet[w].used = TRUE => p.used = TRUE
          BY <4>5
      <4> QED
          BY <4>1, <4>3, <4>5, <4>6
    <3> QED
        BY <3>1, <3>2
  <2>9. PICK p : /\ wallet' = [wallet EXCEPT ![w] = p] /\ p \in Purses /\ p.owner = a
                 /\ wallet[w] # None /\ wallet[w].used = TRUE => p.used = TRUE
      BY <2>3
  <2>4. wallet'[w] = p /\ \A x \in Friends!Installations : x # w => wallet'[x] = wallet[x]
      BY <1>4, <1>6, <2>9
  <2>5. wallet' \in [Friends!Installations -> Purses \cup {None}]
      BY <1>4, <2>9
  <2>6. UsedStays
      BY <1>4, <2>9, <2>4 DEF UsedStays
  <2> QED
      BY <1>4, <2>9, <2>4, <2>5, <2>6 DEF OwnerOf
<1>12. FriendTypes'
    BY <1>1, <1>7, <1>9, <1>11 DEF FriendInv, FriendTypes
<1>13. own # {} => \A x \in Friends!Installations : OwnerOf(x)' = OwnerOf(x)
    BY <1>4, <1>5, <1>6, <1>11 DEF OwnerOf
<1>14. own = {} => member[a] = None
  <2>1. SUFFICES ASSUME member[a] # None PROVE own # {}
      OBVIOUS
  <2>2. member[a].wallet \in Friends!Installations
      BY <2>1 DEF FriendInv, FriendTypes, Members
  <2>3. OwnerOf(member[a].wallet) = a
      BY <2>1, <2>2 DEF FriendInv, TiesOK
  <2> QED
      BY <1>4, <1>5, <2>2, <2>3 DEF OwnerOf
<1>15. TiesOK'
  <2>1. ASSUME NEW x \in Friends!Installations
        PROVE  /\ boundTo'[x] # None /\ PanelOf(x)' # None => boundTo'[x] = PanelOf(x)'
               /\ boundTo'[x] # None /\ OwnerOf(x)' # None => boundTo'[x] = OwnerOf(x)'
               /\ PanelOf(x)' # None /\ OwnerOf(x)' # None => PanelOf(x)' = OwnerOf(x)'
               /\ PanelOf(x)' # None => member'[PanelOf(x)'] # None
    <3>1. PanelOf(x)' = PanelOf(x)
        BY <1>1 DEF PanelOf
    <3>2. PanelOf(x) # None => member'[PanelOf(x)] # None
        BY <1>1 DEF FriendInv, TiesOK
    <3>3. CASE x = d
      <4>1. OwnerOf(x)' \in {None, a}
          BY <1>3, <1>6, <1>11, <3>3
      <4> QED
          BY <1>3, <1>7, <3>1, <3>2, <3>3, <4>1
    <3>4. CASE x # d
      <4>1. OwnerOf(x)' = OwnerOf(x)
          BY <1>6, <1>11, <1>13, <3>4
      <4> QED
          BY <1>7, <3>1, <3>2, <3>4, <4>1 DEF FriendInv, TiesOK
    <3> QED
        BY <3>3, <3>4
  <2>2. ASSUME NEW b \in Accounts, member'[b] # None, NEW x \in Friends!Installations
        PROVE  OwnerOf(x)' = b <=> x = member'[b].wallet
    <3>1. member'[b] = member[b] /\ (OwnerOf(x) = b <=> x = member[b].wallet)
        BY <1>1, <2>2 DEF FriendInv, TiesOK
    <3>2. CASE own # {}
        BY <1>13, <3>1, <3>2
    <3>3. CASE own = {}
      <4>1. b # a /\ b # None
          BY <1>1, <1>14, <2>2, <3>3 DEF Friends!FriendAssumption
      <4>2. OwnerOf(x)' = b <=> OwnerOf(x) = b
        <5>1. CASE x = w
            BY <1>3, <1>6, <1>11, <3>3, <4>1, <5>1
        <5>2. CASE x # w
            BY <1>11, <5>2
        <5> QED
            BY <5>1, <5>2
      <4> QED
          BY <3>1, <4>2
    <3> QED
        BY <3>2, <3>3
  <2> QED
      BY <2>1, <2>2 DEF TiesOK
<1>16. SameRewards
    BY <1>1, <1>9 DEF SameRewards
<1>17. NothingSpent
    BY <1>10, <1>11 DEF NothingSpent
<1>18. JoinsUnused
    BY <1>1 DEF JoinsUnused
<1> QED
    BY <1>12, <1>15, <1>16, <1>17, <1>18, RewardsStay, SpentStays DEF FriendKept, FriendInv

-----------------------------------------------------------------------------
(* Invitations and the reservation of a download. *)
LEMMA VisitsKeep ==
    ASSUME FriendInv, Friends!FriendAssumption, NEW v \in Visits, NEW a \in Accounts, Friends!Visit(v, a)
    PROVE  FriendKept
<1>1. UNCHANGED <<now, boundTo, panel, member, connection, wallet, claim, grants, charged, covered>>
    BY DEF Friends!Visit, Friends!links
<1>2. PICK k : k = [inviter |-> a, day |-> now]
    OBVIOUS
<1>3. visit' = [visit EXCEPT ![v] = k] /\ member[a] # None
    BY <1>2 DEF Friends!Visit
<1>4. k \in Calls /\ k.inviter = a
    BY <1>2 DEF Calls, FriendInv, FriendTypes
<1>5. visit \in [Visits -> Calls \cup {None}]
    BY DEF FriendInv, FriendTypes
<1>6. visit' \in [Visits -> Calls \cup {None}] /\ visit'[v] = k /\ \A u \in Visits : u # v => visit'[u] = visit[u]
    BY <1>3, <1>4, <1>5
<1>7. FriendTypes'
    BY <1>1, <1>6 DEF FriendInv, FriendTypes
<1>8. SameTies /\ NothingSpent
    BY <1>1 DEF SameTies, OwnerOf, NothingSpent, UsedStays
<1>9. GrantsOK'
  <2>1. \A u \in Visits : visit'[u] # None => member'[visit'[u].inviter] # None
      BY <1>1, <1>3, <1>4, <1>6 DEF FriendInv, GrantsOK
  <2>2. \A b \in Accounts : Finished(b)' = Finished(b) /\ \A role : Rewarded(b, role)' = Rewarded(b, role)
      BY <1>1 DEF Finished, Rewarded
  <2> QED
      BY <1>1, <2>1, <2>2 DEF FriendInv, GrantsOK
<1>10. JoinsUnused
    BY <1>1 DEF JoinsUnused
<1>11. panel \in [Friends!Installations -> Panels \cup {None}]
    BY DEF FriendInv, FriendTypes
<1> QED
    BY <1>7, <1>8, <1>9, <1>10, <1>11, TiesStay, SpentStays DEF FriendKept, FriendInv

LEMMA ClaimsKeep ==
    ASSUME FriendInv, Friends!FriendAssumption, NEW v \in Visits, NEW a \in Accounts, Friends!Claim(v, a)
    PROVE  FriendKept
<1>1. UNCHANGED <<now, boundTo, panel, member, connection, wallet, visit, grants, charged, covered>>
    BY DEF Friends!Claim, Friends!links
<1>2. PICK k : k = [inviter |-> visit[v].inviter, visit |-> v, key |-> None]
    OBVIOUS
<1>3. /\ claim' = [claim EXCEPT ![a] = k] /\ visit[v] # None /\ visit[v].inviter # a
      /\ claim[a] = None /\ member[a] = None
    BY <1>2 DEF Friends!Claim, Friends!NewAccount
<1>4. visit[v] \in Calls /\ member[visit[v].inviter] # None
    BY <1>3 DEF FriendInv, FriendTypes, GrantsOK
<1>5. k \in Claims /\ k.inviter = visit[v].inviter /\ k.key = None
    BY <1>2, <1>4 DEF Claims, Calls
<1>6. claim \in [Accounts -> Claims \cup {None}] /\ grants \subseteq Grants
    BY DEF FriendInv, FriendTypes
<1>7. claim' \in [Accounts -> Claims \cup {None}] /\ claim'[a] = k /\ \A b \in Accounts : b # a => claim'[b] = claim[b]
    BY <1>3, <1>5, <1>6
<1>8. FriendTypes'
    BY <1>1, <1>7 DEF FriendInv, FriendTypes
<1>9. SameTies /\ NothingSpent
    BY <1>1 DEF SameTies, OwnerOf, NothingSpent, UsedStays
<1>10. GrantsOK'
  <2>1. \A v1 \in Visits : visit'[v1] # None => member'[visit'[v1].inviter] # None
      BY <1>1 DEF FriendInv, GrantsOK
  <2>2. ASSUME NEW b \in Accounts, claim'[b] # None
        PROVE  /\ claim'[b].inviter # b /\ member'[claim'[b].inviter] # None
               /\ claim'[b].key # None => Finished(b)' /\ Rewarded(b, "inviter")' /\ Rewarded(b, "recipient")'
    <3>1. CASE b = a
        BY <1>1, <1>3, <1>4, <1>5, <1>7, <3>1
    <3>2. CASE b # a
      <4>1. claim'[b] = claim[b]
          BY <1>7, <3>2
      <4>2. Finished(b) => Finished(b)'
          BY <1>1, <4>1 DEF Finished
      <4>3. Rewarded(b, "inviter")' = Rewarded(b, "inviter") /\ Rewarded(b, "recipient")' = Rewarded(b, "recipient")
          BY <1>1 DEF Rewarded
      <4> QED
          BY <1>1, <2>2, <4>1, <4>2, <4>3 DEF FriendInv, GrantsOK
    <3> QED
        BY <3>1, <3>2
  <2>3. ASSUME NEW g \in grants'
        PROVE  /\ claim'[g.claim] # None /\ claim'[g.claim].key # None
               /\ member'[g.account] # None /\ member'[g.account].until > g.from
    <3>1. g \in grants /\ g.claim \in Accounts
        BY <1>1, <1>6 DEF Grants
    <3>2. g.claim # a
        BY <1>3, <3>1 DEF FriendInv, GrantsOK
    <3> QED
        BY <1>1, <1>7, <3>1, <3>2 DEF FriendInv, GrantsOK
  <2>4. \A g, h \in grants' : g.account = h.account /\ g # h => g.from # h.from
      BY <1>1 DEF FriendInv, GrantsOK
  <2> QED
      BY <2>1, <2>2, <2>3, <2>4 DEF GrantsOK
<1>11. JoinsUnused
    BY <1>1 DEF JoinsUnused
<1>12. panel \in [Friends!Installations -> Panels \cup {None}]
    BY DEF FriendInv, FriendTypes
<1> QED
    BY <1>8, <1>9, <1>10, <1>11, <1>12, TiesStay, SpentStays DEF FriendKept, FriendInv

LEMMA ReservesFriend ==
    ASSUME FriendInv, Friends!FriendAssumption, NEW d \in Devices, NEW e \in Keys,
           NEW with \in BOOLEAN, NEW paid \in BOOLEAN,
           Friends!Reserve(d, e, with, paid)
    PROVE  FriendKept
<1>a. PICK w : w = Friends!Purse(d, with)
    OBVIOUS
<1>b. PICK s : s = <<w, e>>
    OBVIOUS
<1>c. PICK a : a = IF with THEN panel[d].account ELSE None
    OBVIOUS
<1>d. PICK kept : kept = Friends!Released(charged, w)
    OBVIOUS
<1>e. PICK free : free = Friends!Released(covered, w)
    OBVIOUS
<1>1. UNCHANGED <<now, boundTo, panel, member, connection, visit, claim, grants>>
    BY DEF Friends!Reserve, Friends!links, Friends!invitations
<1>2. d \in Friends!Installations
    BY DEF Friends!Installations
<1>3. with => panel[d] \in Panels /\ panel[d].account \in Accounts /\ member[panel[d].account] # None
    BY <1>2 DEF Friends!Reserve, FriendInv, FriendTypes, Panels, TiesOK, PanelOf, Friends!FriendAssumption
<1>4. w \in Friends!Installations /\ (wallet[w] = None => w = d)
  <2>1. CASE with
    <3>1. w = member[panel[d].account].wallet
        BY <1>a, <2>1 DEF Friends!Purse
    <3>2. w \in Friends!Installations
        BY <1>3, <2>1, <3>1 DEF FriendInv, FriendTypes, Members
    <3>3. OwnerOf(w) = panel[d].account
        BY <1>3, <2>1, <3>1, <3>2 DEF FriendInv, TiesOK
    <3> QED
        BY <1>3, <2>1, <3>2, <3>3 DEF OwnerOf, Friends!FriendAssumption
  <2>2. CASE ~with
      BY <1>a, <1>2, <2>2, WalletForIs DEF Friends!Purse
  <2> QED
      BY <2>1, <2>2
<1>5. s \in Friends!Slots /\ s[1] = w
    BY <1>b, <1>4 DEF Friends!Slots
<1>6. a \in Accounts \cup {None}
    BY <1>3, <1>c
<1>7. PICK r : r = Friends!Reservation(a)
    OBVIOUS
<1>8. r \in Uses /\ r.status = "reserved"
    BY <1>6, <1>7 DEF Friends!Reservation, Uses, FriendInv, FriendTypes
<1>9. /\ wallet' = IF wallet[w] = None THEN [wallet EXCEPT ![w] = Friends!NewWallet(FALSE)] ELSE wallet
      /\ \/ charged' = kept /\ covered' = free
         \/ charged' = kept /\ covered' = [free EXCEPT ![s] = r] /\ covered[s] = None
         \/ charged' = [kept EXCEPT ![s] = r] /\ covered' = free /\ charged[s] = None
    BY <1>a, <1>b, <1>c, <1>d, <1>e, <1>7 DEF Friends!Reserve
<1>10. charged \in [Friends!Slots -> Uses \cup {None}] /\ covered \in [Friends!Slots -> Uses \cup {None}]
    BY DEF FriendInv, FriendTypes
<1>11. /\ kept \in [Friends!Slots -> Uses \cup {None}] /\ DoneStays(charged, kept)
       /\ \A x \in Friends!Slots : /\ kept[x] = None <=> charged[x] = None
                                   /\ charged[x] # None /\ kept[x].status = "committed" => kept[x] = charged[x]
    BY <1>d, <1>10, ReleasedIs
<1>12. free \in [Friends!Slots -> Uses \cup {None}] /\ DoneStays(covered, free)
    BY <1>e, <1>10, ReleasedIs
<1>13. /\ charged' \in [Friends!Slots -> Uses \cup {None}] /\ DoneStays(charged, charged')
       /\ \A x \in Friends!Slots : charged'[x] # None /\ x # s => charged[x] # None
       /\ \A x \in Friends!Slots : charged'[x] # None /\ charged'[x].status = "committed" => charged[x] = charged'[x]
    BY <1>5, <1>8, <1>9, <1>11 DEF DoneStays
<1>14. covered' \in [Friends!Slots -> Uses \cup {None}] /\ DoneStays(covered, covered')
    BY <1>5, <1>8, <1>9, <1>12 DEF DoneStays
<1>15. /\ wallet' \in [Friends!Installations -> Purses \cup {None}] /\ wallet'[w] # None /\ UsedStays
       /\ \A x \in Friends!Installations : OwnerOf(x)' = OwnerOf(x)
  <2>1. CASE wallet[w] = None
      BY <1>4, <1>9, <2>1, SameOwnersStay
  <2>2. CASE wallet[w] # None
      BY <1>9, <2>2 DEF FriendInv, FriendTypes, UsedStays, OwnerOf
  <2> QED
      BY <2>1, <2>2
<1>16. FriendTypes'
    BY <1>1, <1>13, <1>14, <1>15 DEF FriendInv, FriendTypes
<1>17. SameTies
    BY <1>1, <1>15 DEF SameTies
<1>18. SameRewards
    BY <1>1, <1>13, <1>14 DEF SameRewards
<1>19. NothingSpent
    BY <1>5, <1>13, <1>15 DEF NothingSpent
<1> QED
    BY <1>16, <1>17, <1>18, <1>19, PlainSteps

-----------------------------------------------------------------------------
(* A download that is finished, and the rewards it earns. *)
LEMMA StartsIs ==
    ASSUME FriendInv, NEW b \in Accounts, member[b] # None
    PROVE  Friends!Starts(b) \in Nat /\ Friends!Starts(b) >= member[b].until /\ member[b].until \in Nat
    BY DEF Friends!Starts, Friends!Later, FriendInv, FriendTypes, Members

LEMMA QualifiesKeeps ==
    ASSUME FriendInv, Friends!FriendAssumption, NEW a \in Accounts, member[a] # None, NEW s \in Friends!Slots,
           Friends!Qualifies(a, s), visit' = visit, DoneStays(charged, charged'), DoneStays(covered, covered'),
           DoneBy(charged', s, a) \/ DoneBy(covered', s, a)
    PROVE  /\ claim' \in [Accounts -> Claims \cup {None}] /\ member' \in [Accounts -> Members \cup {None}]
           /\ grants' \subseteq Grants /\ GrantsOK'
           /\ \A b \in Accounts : /\ member'[b] = None <=> member[b] = None
                                  /\ member[b] # None => member'[b].wallet = member[b].wallet
<1>1. /\ claim \in [Accounts -> Claims \cup {None}] /\ member \in [Accounts -> Members \cup {None}]
      /\ grants \subseteq Grants /\ visit \in [Visits -> Calls \cup {None}]
      /\ None \notin Claims /\ None \notin Members
    BY DEF FriendInv, FriendTypes, Friends!FriendAssumption, Claims, Members
<1>2. CASE claim[a] = None \/ claim[a].key # None
  <2>1. UNCHANGED <<claim, member, grants>>
      BY <1>2 DEF Friends!Qualifies
  <2>2. SameRewards
      BY <2>1 DEF SameRewards
  <2> QED
      BY <1>1, <2>1, <2>2, RewardsStay
<1>3. CASE ~(claim[a] = None \/ claim[a].key # None)
  <2>1. PICK i : i = claim[a].inviter
      OBVIOUS
  <2>2. i \in Accounts /\ i # a /\ member[i] # None /\ claim[a] \in Claims
      BY <1>1, <1>3, <2>1 DEF FriendInv, GrantsOK, Claims
  <2>3. PICK fa : fa = Friends!Starts(a)
      OBVIOUS
  <2>4. PICK fi : fi = Friends!Starts(i)
      OBVIOUS
  <2>5. /\ fa \in Nat /\ fa >= member[a].until /\ member[a].until \in Nat
        /\ fi \in Nat /\ fi >= member[i].until /\ member[i].until \in Nat
      BY <2>2, <2>3, <2>4, StartsIs
  <2>6. PICK gi : gi = [claim |-> a, role |-> "inviter", account |-> i, from |-> fi]
      OBVIOUS
  <2>7. PICK ga : ga = [claim |-> a, role |-> "recipient", account |-> a, from |-> fa]
      OBVIOUS
  <2>8. /\ member' = [b \in Accounts |->
                       IF b \in {a, i} THEN [member[b] EXCEPT !.until = Friends!Starts(b) + 1] ELSE member[b]]
        /\ grants' = grants \cup {gi, ga}
        /\ claim' = [claim EXCEPT ![a].key = s]
      BY <1>3, <2>1, <2>3, <2>4, <2>6, <2>7 DEF Friends!Qualifies
  <2>9. /\ gi \in Grants /\ gi.claim = a /\ gi.role = "inviter" /\ gi.account = i /\ gi.from = fi
        /\ ga \in Grants /\ ga.claim = a /\ ga.role = "recipient" /\ ga.account = a /\ ga.from = fa
      BY <2>2, <2>5, <2>6, <2>7 DEF Grants
  <2>10. ASSUME NEW b \in Accounts, member[b] # None
         PROVE  /\ member'[b] \in Members /\ member'[b].wallet = member[b].wallet
                /\ member'[b].until \in Nat /\ member[b].until \in Nat /\ member'[b].until >= member[b].until
                /\ b = a => member'[b].until > fa
                /\ b = i => member'[b].until > fi
    <3>1. PICK f : f = Friends!Starts(b)
        OBVIOUS
    <3>2. f \in Nat /\ f >= member[b].until /\ member[b].until \in Nat /\ member[b] \in Members
        BY <1>1, <2>10, <3>1, StartsIs
    <3>3. CASE b \in {a, i}
      <4>1. member'[b] = [member[b] EXCEPT !.until = f + 1]
          BY <2>8, <3>1, <3>3
      <4>2. member'[b] \in Members /\ member'[b].until = f + 1 /\ member'[b].wallet = member[b].wallet
          BY <3>2, <4>1 DEF Members
      <4>3. (b = a => f = fa) /\ (b = i => f = fi)
          BY <2>3, <2>4, <3>1
      <4> QED
          BY <3>2, <4>2, <4>3
    <3>4. CASE b \notin {a, i}
        BY <2>8, <3>2, <3>4
    <3> QED
        BY <3>3, <3>4
  <2>11. \A b \in Accounts : member[b] = None => member'[b] = None
      BY <2>2, <2>8
  <2>12. member' \in [Accounts -> Members \cup {None}]
      BY <1>1, <2>8, <2>10, <2>11
  <2>13. PICK k : k = [claim[a] EXCEPT !.key = s]
      OBVIOUS
  <2>14. k \in Claims /\ k.key = s /\ k.inviter = i /\ k # None /\ s # None
      BY <1>1, <2>1, <2>2, <2>13 DEF Claims, Friends!FriendAssumption
  <2>15. claim' = [claim EXCEPT ![a] = k]
      BY <2>8, <2>13
  <2>16. claim' \in [Accounts -> Claims \cup {None}] /\ claim'[a] = k /\ \A b \in Accounts : b # a => claim'[b] = claim[b]
      BY <1>1, <2>14, <2>15
  <2>17. \A x \in Friends!Slots, b \in Accounts : /\ DoneBy(charged, x, b) => DoneBy(charged', x, b)
                                                  /\ DoneBy(covered, x, b) => DoneBy(covered', x, b)
      BY DEF DoneBy, DoneStays
  <2>18. \A v \in Visits : visit'[v] # None => member'[visit'[v].inviter] # None
    <3>1. \A v \in Visits : visit[v] # None => visit[v].inviter \in Accounts /\ member[visit[v].inviter] # None
        BY <1>1 DEF FriendInv, GrantsOK, Calls
    <3> QED
        BY <1>1, <2>10, <3>1
  <2>19. ASSUME NEW b \in Accounts, claim'[b] # None
         PROVE  /\ claim'[b].inviter # b /\ member'[claim'[b].inviter] # None
                /\ claim'[b].key # None => Finished(b)' /\ Rewarded(b, "inviter")' /\ Rewarded(b, "recipient")'
    <3>1. CASE b = a
      <4>1. Finished(b)'
          BY <2>14, <2>16, <3>1 DEF Finished
      <4>2. Rewarded(b, "inviter")' /\ Rewarded(b, "recipient")'
          BY <2>8, <2>9, <3>1 DEF Rewarded
      <4> QED
          BY <1>1, <2>2, <2>10, <2>14, <2>16, <3>1, <4>1, <4>2
    <3>2. CASE b # a
      <4>1. claim'[b] = claim[b] /\ claim[b] \in Claims
          BY <1>1, <2>16, <2>19, <3>2
      <4>2. claim[b].inviter \in Accounts /\ claim[b].key \in Friends!Slots \cup {None}
          BY <4>1 DEF Claims
      <4>3. /\ claim[b].inviter # b /\ member[claim[b].inviter] # None
            /\ claim[b].key # None => Finished(b) /\ Rewarded(b, "inviter") /\ Rewarded(b, "recipient")
          BY <2>19, <4>1 DEF FriendInv, GrantsOK
      <4>4. claim[b].key # None /\ Finished(b) => Finished(b)'
          BY <2>17, <4>1, <4>2 DEF Finished
      <4>5. (Rewarded(b, "inviter") => Rewarded(b, "inviter")') /\ (Rewarded(b, "recipient") => Rewarded(b, "recipient")')
          BY <2>8 DEF Rewarded
      <4> QED
          BY <1>1, <2>10, <4>1, <4>2, <4>3, <4>4, <4>5
    <3> QED
        BY <3>1, <3>2
  <2>20. ASSUME NEW g \in grants
         PROVE  /\ g.claim \in Accounts /\ g.claim # a /\ g.account \in Accounts /\ g.from \in Nat
                /\ member[g.account] # None /\ member[g.account].until > g.from
                /\ claim[g.claim] # None /\ claim[g.claim].key # None
    BY <1>1, <1>3 DEF FriendInv, GrantsOK, Grants
  <2>21. ASSUME NEW g \in grants'
         PROVE  /\ claim'[g.claim] # None /\ claim'[g.claim].key # None
                /\ member'[g.account] # None /\ member'[g.account].until > g.from
    <3>1. CASE g \in grants
      <4>1. g.account \in Accounts /\ member[g.account] # None
          BY <2>20, <3>1
      <4>2. member'[g.account] # None /\ member'[g.account].until >= member[g.account].until
            /\ member'[g.account].until \in Nat /\ member[g.account].until \in Nat
          BY <1>1, <2>10, <4>1
      <4>3. claim'[g.claim] = claim[g.claim]
          BY <2>16, <2>20, <3>1
      <4> QED
          BY <2>20, <3>1, <4>2, <4>3
    <3>2. CASE g = gi
        BY <1>1, <2>2, <2>9, <2>10, <2>14, <2>16, <3>2
    <3>3. CASE g = ga
        BY <1>1, <2>9, <2>10, <2>14, <2>16, <3>3
    <3> QED
        BY <2>8, <3>1, <3>2, <3>3
  <2>22. \A g \in grants : (g.account = a => g.from < fa) /\ (g.account = i => g.from < fi)
      BY <2>5, <2>20
  <2>23. ASSUME NEW g \in grants', NEW h \in grants', g.account = h.account, g # h PROVE g.from # h.from
    <3>1. CASE g \in grants /\ h \in grants
        BY <2>23, <3>1 DEF FriendInv, GrantsOK
    <3>2. CASE g \in grants /\ h \in {gi, ga}
        BY <2>5, <2>9, <2>20, <2>22, <2>23, <3>2
    <3>3. CASE h \in grants /\ g \in {gi, ga}
        BY <2>5, <2>9, <2>20, <2>22, <2>23, <3>3
    <3>4. CASE g \in {gi, ga} /\ h \in {gi, ga}
        BY <2>2, <2>9, <2>23, <3>4
    <3> QED
        BY <2>8, <3>1, <3>2, <3>3, <3>4
  <2>24. GrantsOK'
      BY <2>18, <2>19, <2>21, <2>23 DEF GrantsOK
  <2>25. grants' \subseteq Grants
      BY <1>1, <2>8, <2>9
  <2> QED
      BY <1>1, <2>10, <2>11, <2>12, <2>16, <2>24, <2>25
<1> QED
    BY <1>2, <1>3

LEMMA SettlesRow ==
    ASSUME Friends!FriendAssumption, NEW t \in [Friends!Slots -> Uses \cup {None}],
           NEW u \in [Friends!Slots -> Uses \cup {None}], DoneStays(t, u),
           NEW s \in Friends!Slots, t[s] # None, u[s] # None, u[s].account = t[s].account, u[s].status = "reserved",
           NEW outcome \in {"committed", "released"}
    PROVE  \E n : /\ n = [u EXCEPT ![s].status = outcome]
                  /\ n \in [Friends!Slots -> Uses \cup {None}] /\ DoneStays(t, n)
                  /\ DoneBy(n, s, t[s].account) <=> outcome = "committed"
                  /\ n[s] # None /\ n[s].status = outcome
                  /\ \A x \in Friends!Slots : x # s => n[x] = u[x]
<1>1. PICK r : r = [u[s] EXCEPT !.status = outcome]
    OBVIOUS
<1>2. r \in Uses /\ r.status = outcome /\ r.account = t[s].account
    BY <1>1 DEF Uses
<1>3. r # None
    BY <1>2 DEF Uses, Friends!FriendAssumption
<1>4. PICK n : n = [u EXCEPT ![s] = r]
    OBVIOUS
<1>5. t[s].status # "committed"
    BY DEF DoneStays
<1>6. n = [u EXCEPT ![s].status = outcome]
    BY <1>1, <1>4
<1>7. n \in [Friends!Slots -> Uses \cup {None}] /\ n[s] = r /\ \A x \in Friends!Slots : x # s => n[x] = u[x]
    BY <1>2, <1>4
<1>8. DoneStays(t, n)
    BY <1>5, <1>7 DEF DoneStays
<1>9. DoneBy(n, s, t[s].account) <=> outcome = "committed"
    BY <1>2, <1>3, <1>7 DEF DoneBy
<1> QED
    BY <1>2, <1>3, <1>6, <1>7, <1>8, <1>9

LEMMA FinalizesFriend ==
    ASSUME FriendInv, Friends!FriendAssumption, NEW d \in Devices, NEW e \in Keys,
           NEW outcome \in {"committed", "released"}, NEW with \in BOOLEAN, NEW off \in BOOLEAN,
           Friends!Finalize(d, e, outcome, with, off)
    PROVE  FriendKept
<1>a. PICK w : w = Friends!Purse(d, with)
    OBVIOUS
<1>b. PICK s : s = <<w, e>>
    OBVIOUS
<1>c. PICK kept : kept = Friends!Released(charged, w)
    OBVIOUS
<1>d. PICK free : free = IF off THEN covered ELSE Friends!Released(covered, w)
    OBVIOUS
<1>e. PICK a : a = panel[d].account
    OBVIOUS
<1>1. UNCHANGED <<now, boundTo, panel, connection, visit>> /\ (with => panel[d] # None) /\ wallet[w] # None
    BY <1>a DEF Friends!Finalize
<1>2. d \in Friends!Installations
    BY DEF Friends!Installations
<1>3. with => a \in Accounts /\ member[a] # None
    BY <1>1, <1>2, <1>e DEF FriendInv, FriendTypes, Panels, TiesOK, PanelOf, Friends!FriendAssumption
<1>4. w \in Friends!Installations
  <2>1. CASE with
      BY <1>3, <1>a, <1>e, <2>1 DEF Friends!Purse, FriendInv, FriendTypes, Members
  <2>2. CASE ~with
      BY <1>a, <1>2, <2>2, WalletForIs DEF Friends!Purse
  <2> QED
      BY <2>1, <2>2
<1>5. s \in Friends!Slots /\ s[1] = w
    BY <1>b, <1>4 DEF Friends!Slots
<1>6. /\ charged \in [Friends!Slots -> Uses \cup {None}] /\ covered \in [Friends!Slots -> Uses \cup {None}]
      /\ claim \in [Accounts -> Claims \cup {None}] /\ member \in [Accounts -> Members \cup {None}]
      /\ grants \subseteq Grants /\ wallet \in [Friends!Installations -> Purses \cup {None}] /\ None \notin Purses
    BY DEF FriendInv, FriendTypes, Friends!FriendAssumption, Purses
<1>7. /\ kept \in [Friends!Slots -> Uses \cup {None}] /\ DoneStays(charged, kept)
      /\ \A x \in Friends!Slots :
           /\ kept[x] = None <=> charged[x] = None
           /\ charged[x] # None => /\ kept[x].account = charged[x].account
                                   /\ kept[x].status = "committed" => kept[x] = charged[x]
    BY <1>c, <1>6, ReleasedIs
<1>8. /\ free \in [Friends!Slots -> Uses \cup {None}] /\ DoneStays(covered, free)
      /\ \A x \in Friends!Slots : /\ free[x] = None <=> covered[x] = None
                                  /\ covered[x] # None => free[x].account = covered[x].account
  <2>1. CASE off
      BY <1>d, <1>6, <2>1 DEF DoneStays
  <2>2. CASE ~off
    <3>1. free = Friends!Released(covered, w)
        BY <1>d, <2>2
    <3> QED
        BY <3>1, <1>6, ReleasedIs
  <2> QED
      BY <2>1, <2>2
<1>f. ASSUME covered[s] # None, free[s].status = "reserved"
      PROVE  \E n : /\ n = [free EXCEPT ![s].status = outcome]
                    /\ n \in [Friends!Slots -> Uses \cup {None}] /\ DoneStays(covered, n)
                    /\ DoneBy(n, s, covered[s].account) <=> outcome = "committed"
                    /\ n[s] # None /\ n[s].status = outcome
                    /\ \A x \in Friends!Slots : x # s => n[x] = free[x]
  <2>1. /\ free \in [Friends!Slots -> Uses \cup {None}] /\ DoneStays(covered, free)
        /\ free[s] # None /\ free[s].account = covered[s].account
      BY <1>f, <1>5, <1>8
  <2>2. covered \in [Friends!Slots -> Uses \cup {None}] /\ s \in Friends!Slots
      BY <1>5, <1>6
  <2> QED
      BY <1>f, <2>1, <2>2, SettlesRow
<1>g. ASSUME charged[s] # None, kept[s].status = "reserved"
      PROVE  \E n : /\ n = [kept EXCEPT ![s].status = outcome]
                    /\ n \in [Friends!Slots -> Uses \cup {None}] /\ DoneStays(charged, n)
                    /\ DoneBy(n, s, charged[s].account) <=> outcome = "committed"
                    /\ n[s] # None /\ n[s].status = outcome
                    /\ \A x \in Friends!Slots : x # s => n[x] = kept[x]
  <2>1. /\ kept \in [Friends!Slots -> Uses \cup {None}] /\ DoneStays(charged, kept)
        /\ kept[s] # None /\ kept[s].account = charged[s].account
      BY <1>g, <1>5, <1>7
  <2> QED
      BY <1>g, <1>5, <1>6, <2>1, SettlesRow
\* What the operation may do: nothing more than lapse, or settle one of the rows.
<1>9. \/ charged' = kept /\ covered' = free /\ UNCHANGED <<wallet, claim, member, grants>>
      \/ /\ charged' = kept /\ wallet' = wallet /\ covered[s] # None /\ Friends!Bearer(covered[s], d, with)
         /\ free[s].status = "reserved" /\ covered' = [free EXCEPT ![s].status = outcome]
         /\ IF Friends!Earns(covered[s], outcome, with) THEN Friends!Qualifies(a, s)
            ELSE UNCHANGED <<claim, member, grants>>
      \/ /\ covered' = free /\ charged[s] # None /\ Friends!Bearer(charged[s], d, with)
         /\ kept[s].status = "reserved" /\ charged' = [kept EXCEPT ![s].status = outcome]
         /\ wallet' = IF outcome = "committed" THEN [wallet EXCEPT ![w].used = TRUE] ELSE wallet
         /\ IF Friends!Earns(charged[s], outcome, with) THEN Friends!Qualifies(a, s)
            ELSE UNCHANGED <<claim, member, grants>>
    BY <1>a, <1>b, <1>c, <1>d, <1>e DEF Friends!Finalize
<1>10. /\ charged' \in [Friends!Slots -> Uses \cup {None}] /\ DoneStays(charged, charged')
       /\ covered' \in [Friends!Slots -> Uses \cup {None}] /\ DoneStays(covered, covered')
       /\ \A x \in Friends!Slots : charged'[x] # None => charged[x] # None
       /\ \A x \in Friends!Slots : charged'[x] # None /\ charged'[x].status = "committed" =>
            \/ charged'[x] = charged[x]
            \/ x = s /\ outcome = "committed" /\ wallet' = [wallet EXCEPT ![w].used = TRUE]
  <2>1. CASE charged' = kept /\ covered' = free
      BY <1>7, <1>8, <2>1
  <2>2. CASE /\ charged' = kept /\ covered[s] # None /\ free[s].status = "reserved"
             /\ covered' = [free EXCEPT ![s].status = outcome]
    <3>1. covered' \in [Friends!Slots -> Uses \cup {None}] /\ DoneStays(covered, covered')
        BY <1>f, <2>2
    <3> QED
        BY <1>7, <2>2, <3>1
  <2>3. CASE /\ covered' = free /\ charged[s] # None /\ kept[s].status = "reserved"
             /\ charged' = [kept EXCEPT ![s].status = outcome]
             /\ wallet' = IF outcome = "committed" THEN [wallet EXCEPT ![w].used = TRUE] ELSE wallet
    <3>1. PICK n : n = charged'
        OBVIOUS
    <3>2. /\ n \in [Friends!Slots -> Uses \cup {None}] /\ DoneStays(charged, n) /\ n[s].status = outcome
          /\ \A x \in Friends!Slots : x # s => n[x] = kept[x]
        BY <1>g, <2>3, <3>1
    <3> QED
        BY <1>7, <1>8, <2>3, <3>1, <3>2
  <2> QED
      BY <1>9, <2>1, <2>2, <2>3
<1>11. \/ UNCHANGED <<claim, member, grants>>
       \/ /\ a \in Accounts /\ member[a] # None /\ Friends!Qualifies(a, s)
          /\ DoneBy(charged', s, a) \/ DoneBy(covered', s, a)
  <2>1. CASE /\ covered[s] # None /\ Friends!Bearer(covered[s], d, with)
             /\ free[s].status = "reserved" /\ covered' = [free EXCEPT ![s].status = outcome]
             /\ Friends!Earns(covered[s], outcome, with) /\ Friends!Qualifies(a, s)
    <3>1. outcome = "committed" /\ with /\ covered[s].account = a
        BY <1>e, <2>1 DEF Friends!Earns, Friends!Bearer
    <3>2. DoneBy(covered', s, a)
        BY <1>f, <2>1, <3>1
    <3> QED
        BY <1>3, <2>1, <3>1, <3>2
  <2>2. CASE /\ charged[s] # None /\ Friends!Bearer(charged[s], d, with)
             /\ kept[s].status = "reserved" /\ charged' = [kept EXCEPT ![s].status = outcome]
             /\ Friends!Earns(charged[s], outcome, with) /\ Friends!Qualifies(a, s)
    <3>1. outcome = "committed" /\ with /\ charged[s].account = a
        BY <1>e, <2>2 DEF Friends!Earns, Friends!Bearer
    <3>2. DoneBy(charged', s, a)
        BY <1>g, <2>2, <3>1
    <3> QED
        BY <1>3, <2>2, <3>1, <3>2
  <2> QED
      BY <1>9, <2>1, <2>2
<1>12. /\ claim' \in [Accounts -> Claims \cup {None}] /\ member' \in [Accounts -> Members \cup {None}]
       /\ grants' \subseteq Grants /\ GrantsOK'
       /\ \A b \in Accounts : /\ member'[b] = None <=> member[b] = None
                              /\ member[b] # None => member'[b].wallet = member[b].wallet
  <2>1. CASE UNCHANGED <<claim, member, grants>>
    <3>1. SameRewards
        BY <1>1, <1>10, <2>1 DEF SameRewards
    <3> QED
        BY <1>6, <2>1, <3>1, RewardsStay
  <2>2. CASE /\ a \in Accounts /\ member[a] # None /\ Friends!Qualifies(a, s)
             /\ DoneBy(charged', s, a) \/ DoneBy(covered', s, a)
      BY <1>1, <1>5, <1>10, <2>2, QualifiesKeeps
  <2> QED
      BY <1>11, <2>1, <2>2
<1>13. PICK p : p = [wallet[w] EXCEPT !.used = TRUE]
    OBVIOUS
<1>14. p \in Purses /\ p.owner = wallet[w].owner /\ p.used = TRUE
    BY <1>1, <1>4, <1>6, <1>13 DEF Purses
<1>15. wallet' = wallet \/ wallet' = [wallet EXCEPT ![w] = p]
    BY <1>9, <1>13
<1>16. /\ wallet' \in [Friends!Installations -> Purses \cup {None}] /\ UsedStays
       /\ \A x \in Friends!Installations : OwnerOf(x)' = OwnerOf(x)
    BY <1>1, <1>4, <1>6, <1>14, <1>15 DEF UsedStays, OwnerOf
<1>17. FriendTypes'
    BY <1>1, <1>10, <1>12, <1>16 DEF FriendInv, FriendTypes
<1>18. SameTies
    BY <1>1, <1>12, <1>16 DEF SameTies
<1>19. SpentIsUsed'
  <2>1. SUFFICES ASSUME NEW x \in Friends!Slots, charged'[x] # None
                 PROVE  /\ wallet'[x[1]] # None
                        /\ charged'[x].status = "committed" => wallet'[x[1]].used = TRUE
      BY DEF SpentIsUsed
  <2>2. x[1] \in Friends!Installations
      BY DEF Friends!Slots
  <2>3. wallet[x[1]] # None /\ (charged[x].status = "committed" => wallet[x[1]].used = TRUE)
      BY <1>10, <2>1 DEF FriendInv, SpentIsUsed
  <2>4. CASE charged'[x].status = "committed" => charged'[x] = charged[x]
      BY <1>16, <2>2, <2>3, <2>4 DEF UsedStays
  <2>5. CASE x = s /\ wallet' = [wallet EXCEPT ![w].used = TRUE]
    <3>1. wallet'[w] = p
        BY <1>4, <1>6, <1>13, <2>5
    <3> QED
        BY <1>5, <1>6, <1>14, <2>5, <3>1
  <2> QED
      BY <1>10, <2>1, <2>4, <2>5
<1>20. JoinsUnused
    BY <1>12 DEF JoinsUnused
<1>21. panel \in [Friends!Installations -> Panels \cup {None}]
    BY DEF FriendInv, FriendTypes
<1> QED
    BY <1>12, <1>17, <1>18, <1>19, <1>20, <1>21, TiesStay DEF FriendKept, FriendInv

-----------------------------------------------------------------------------
LEMMA FriendsInit == Friends!FriendAssumption /\ Friends!Init => FriendInv
<1> SUFFICES ASSUME Friends!FriendAssumption, Friends!Init PROVE FriendInv
    OBVIOUS
<1>1. Home \in Friends!Installations /\ Founder \in Accounts /\ Founder # None
    BY DEF Friends!Installations, Friends!FriendAssumption
<1>2. PICK p : p = [owner |-> Founder, day |-> 0, used |-> TRUE]
    OBVIOUS
<1>3. p \in Purses /\ p.owner = Founder /\ p # None
  <2>1. p \in Purses /\ p.owner = Founder
      BY <1>1, <1>2 DEF Purses
  <2> QED
      BY <2>1 DEF Purses, Friends!FriendAssumption
<1>4. PICK m : m = [wallet |-> Home, until |-> 0]
    OBVIOUS
<1>5. m \in Members /\ m.wallet = Home /\ m # None
    BY <1>1, <1>4 DEF Members, Friends!FriendAssumption
<1>6. PICK q : q = [account |-> Founder, credential |-> None]
    OBVIOUS
<1>7. q \in Panels /\ q.account = Founder
    BY <1>1, <1>6 DEF Panels
<1>8. /\ now = 0 /\ grants = {} /\ boundTo = [d \in Friends!Installations |-> None]
      /\ wallet = [d \in Friends!Installations |-> IF d = Home THEN p ELSE None]
      /\ panel = [d \in Friends!Installations |-> IF d = Home THEN q ELSE None]
      /\ member = [a \in Accounts |-> IF a = Founder THEN m ELSE None]
      /\ visit = [v \in Visits |-> None] /\ claim = [a \in Accounts |-> None]
      /\ connection = [c \in Connections |-> None]
      /\ charged = [s \in Friends!Slots |-> None] /\ covered = [s \in Friends!Slots |-> None]
    BY <1>2, <1>4, <1>6 DEF Friends!Init
<1>9. FriendTypes
    BY <1>3, <1>5, <1>7, <1>8 DEF FriendTypes
<1>10. \A d \in Friends!Installations : /\ OwnerOf(d) = IF d = Home THEN Founder ELSE None
                                        /\ d # Home => PanelOf(d) = None
                                        /\ PanelOf(d) \in {Founder, None}
    BY <1>3, <1>7, <1>8 DEF OwnerOf, PanelOf
<1>11. TiesOK
    BY <1>1, <1>5, <1>8, <1>10 DEF TiesOK, Friends!FriendAssumption
<1>12. GrantsOK
    BY <1>8 DEF GrantsOK
<1>13. SpentIsUsed
    BY <1>8 DEF SpentIsUsed
<1> QED
    BY <1>9, <1>11, <1>12, <1>13 DEF FriendInv

LEMMA FriendsNext ==
    ASSUME Friends!FriendAssumption, FriendInv, [Friends!Next]_(Friends!vars)
    PROVE  FriendKept
<1>1. CASE Friends!Tick \/ \E a \in Accounts : Friends!SignUp(a)
    BY <1>1, QuietFriends
<1>2. CASE \E a \in Accounts, c \in Connections : Friends!Connect(c, a)
    BY <1>2, Connects
<1>3. CASE \E a \in Accounts, v \in Visits : Friends!Visit(v, a) \/ Friends!Claim(v, a)
    BY <1>3, VisitsKeep, ClaimsKeep
<1>4. CASE \E a \in Accounts : Friends!AssistantDownload(a) \/ \E d \in Devices : Friends!BindAssistant(d, a)
    BY <1>4, AssistantDownloads, BindsAssistant
<1>5. CASE \E d \in Devices, used \in BOOLEAN : Friends!Sync(d, used)
    BY <1>5, SyncsFriend
<1>6. CASE \E d \in Devices, c \in Connections : Friends!StartConnection(c, d)
    BY <1>6, StartsConnection
<1>7. CASE \E d \in Devices, k \in Keys, with, paid \in BOOLEAN : Friends!Reserve(d, k, with, paid)
    BY <1>7, ReservesFriend
<1>8. CASE \E d \in Devices, k \in Keys, with, off \in BOOLEAN, outcome \in {"committed", "released"} :
             Friends!Finalize(d, k, outcome, with, off)
    BY <1>8, FinalizesFriend
<1>9. CASE UNCHANGED Friends!vars
  <2>1. UNCHANGED <<now, boundTo, panel, member, connection, wallet, visit, claim, grants, charged, covered>>
      BY <1>9 DEF Friends!vars
  <2>2. FriendTypes'
      BY <2>1 DEF FriendInv, FriendTypes
  <2> QED
      BY <2>1, <2>2, NothingChanges, PlainSteps
<1>10. Friends!Next =>
         \/ Friends!Tick \/ \E a \in Accounts : Friends!SignUp(a)
         \/ \E a \in Accounts, c \in Connections : Friends!Connect(c, a)
         \/ \E a \in Accounts, v \in Visits : Friends!Visit(v, a) \/ Friends!Claim(v, a)
         \/ \E a \in Accounts : Friends!AssistantDownload(a) \/ \E d \in Devices : Friends!BindAssistant(d, a)
         \/ \E d \in Devices, used \in BOOLEAN : Friends!Sync(d, used)
         \/ \E d \in Devices, c \in Connections : Friends!StartConnection(c, d)
         \/ \E d \in Devices, k \in Keys, with, paid \in BOOLEAN : Friends!Reserve(d, k, with, paid)
         \/ \E d \in Devices, k \in Keys, with, off \in BOOLEAN, outcome \in {"committed", "released"} :
              Friends!Finalize(d, k, outcome, with, off)
    BY Zenon DEF Friends!Next
<1> QED
    BY <1>1, <1>2, <1>3, <1>4, <1>5, <1>6, <1>7, <1>8, <1>9, <1>10

\* Whatever the accounts, installations, browsers and retries, no installation
\* and no wallet is two accounts', a reward is paid once, to both sides, for a
\* download that the newcomer's own panel finished, rewards of one account never
\* overlap, and who joins on an invitation had finished no download before.
THEOREM FriendsRewardedFairly ==
    ASSUME Friends!FriendAssumption
    PROVE  Friends!Spec => [](Friends!OneOwner /\ Friends!RewardsAreEarned) /\ Friends!RecipientIsNew
<1>1. ASSUME FriendInv PROVE Friends!OneOwner
  <2>1. ASSUME NEW d \in Friends!Installations
        PROVE  Friends!Cardinality({boundTo[d], IF panel[d] = None THEN None ELSE panel[d].account,
                                    IF wallet[d] = None THEN None ELSE wallet[d].owner} \ {None}) <= 1
    <3>1. PICK S : S = {boundTo[d], PanelOf(d), OwnerOf(d)} \ {None}
        OBVIOUS
    <3>2. S = {} \/ \E x : S = {x}
      <4>1. /\ boundTo[d] # None /\ PanelOf(d) # None => boundTo[d] = PanelOf(d)
            /\ boundTo[d] # None /\ OwnerOf(d) # None => boundTo[d] = OwnerOf(d)
            /\ PanelOf(d) # None /\ OwnerOf(d) # None => PanelOf(d) = OwnerOf(d)
          BY <1>1 DEF FriendInv, TiesOK
      <4>2. CASE boundTo[d] # None
        <5>1. S = {boundTo[d]}
            BY <3>1, <4>1, <4>2
        <5> QED
            BY <5>1
      <4>3. CASE boundTo[d] = None /\ PanelOf(d) # None
        <5>1. S = {PanelOf(d)}
            BY <3>1, <4>1, <4>3
        <5> QED
            BY <5>1
      <4>4. CASE boundTo[d] = None /\ PanelOf(d) = None
        <5>1. S = {OwnerOf(d)} \/ S = {}
            BY <3>1, <4>4
        <5> QED
            BY <5>1
      <4> QED
          BY <4>2, <4>3, <4>4
    <3>3. Cardinality(S) <= 1
      <4>1. CASE S = {}
          BY <4>1, FS_EmptySet
      <4>2. CASE \E x : S = {x}
        <5>1. PICK x : S = {x}
            BY <4>2
        <5>2. Cardinality({x}) = 1
            BY FS_Singleton
        <5> QED
            BY <5>1, <5>2
      <4> QED
          BY <3>2, <4>1, <4>2
    <3> QED
        BY <3>1, <3>3 DEF PanelOf, OwnerOf, Cardinality, Friends!Cardinality
  <2>2. ASSUME NEW a \in Friends!Has(member) PROVE Friends!WalletsOf(a) = {member[a].wallet}
    <3>1. a \in Accounts /\ member[a] # None /\ a # None
        BY <1>1 DEF Friends!Has, FriendInv, FriendTypes, Friends!FriendAssumption
    <3>2. member[a].wallet \in Friends!Installations
        BY <1>1, <3>1 DEF FriendInv, FriendTypes, Members
    <3>3. \A x \in Friends!Installations : OwnerOf(x) = a <=> x = member[a].wallet
        BY <1>1, <3>1 DEF FriendInv, TiesOK
    <3>4. \A x : x \in Friends!WalletsOf(a) <=> x \in Friends!Installations /\ wallet[x] # None /\ wallet[x].owner = a
        BY <1>1 DEF Friends!WalletsOf, Friends!Has, FriendInv, FriendTypes
    <3> QED
        BY <3>1, <3>2, <3>3, <3>4 DEF OwnerOf
  <2> QED
      BY <2>1, <2>2 DEF Friends!OneOwner
<1>2. ASSUME FriendInv PROVE Friends!RewardsAreEarned
  <2>1. /\ grants \subseteq Grants /\ Friends!Has(claim) = {a \in Accounts : claim[a] # None}
      BY <1>2 DEF FriendInv, FriendTypes, Friends!Has
  <2>2. ASSUME NEW a \in Friends!Has(claim)
        PROVE  {g.role : g \in {h \in grants : h.claim = a}} =
                 IF claim[a].key = None THEN {} ELSE {"inviter", "recipient"}
    <3>1. a \in Accounts /\ claim[a] # None
        BY <2>1
    <3>2. CASE claim[a].key = None
      <4>1. {h \in grants : h.claim = a} = {}
          BY <1>2, <3>2 DEF FriendInv, GrantsOK
      <4> QED
          BY <3>2, <4>1
    <3>3. CASE claim[a].key # None
      <4>1. Rewarded(a, "inviter") /\ Rewarded(a, "recipient")
          BY <1>2, <3>1, <3>3 DEF FriendInv, GrantsOK
      <4>2. \A g \in grants : g.role \in {"inviter", "recipient"}
          BY <2>1 DEF Grants
      <4> QED
          BY <3>3, <4>1, <4>2 DEF Rewarded
    <3> QED
        BY <3>2, <3>3
  <2>3. ASSUME NEW a \in Friends!Has(claim), claim[a].key # None
        PROVE  \E table \in {charged, covered} :
                 /\ table[claim[a].key] # None
                 /\ table[claim[a].key].status = "committed" /\ table[claim[a].key].account = a
    <3>1. Finished(a)
        BY <1>2, <2>1, <2>3 DEF FriendInv, GrantsOK
    <3> QED
        BY <3>1 DEF Finished, DoneBy
  <2>4. /\ \A g, h \in grants : g.account = h.account /\ g # h => g.from # h.from
        /\ \A g \in grants : member[g.account].until > g.from
      BY <1>2 DEF FriendInv, GrantsOK
  <2> QED
      BY <2>2, <2>3, <2>4 DEF Friends!RewardsAreEarned
<1>3. ASSUME FriendInv, JoinsUnused
      PROVE  \A a \in Friends!Has(claim) : member[a] = None /\ member'[a] # None =>
               \A k \in Keys : charged[<<member'[a].wallet, k>>] # None =>
                 charged[<<member'[a].wallet, k>>].status # "committed"
    BY <1>3 DEF JoinsUnused, Friends!Has, FriendInv, FriendTypes
<1>4. FriendInv /\ [Friends!Next]_(Friends!vars) => FriendInv'
    BY FriendsNext DEF FriendKept
<1>5. FriendInv /\ [Friends!Next]_(Friends!vars) =>
        [\A a \in Friends!Has(claim) : member[a] = None /\ member'[a] # None =>
           \A k \in Keys : charged[<<member'[a].wallet, k>>] # None =>
             charged[<<member'[a].wallet, k>>].status # "committed"]_(Friends!vars)
  <2>1. SUFFICES ASSUME FriendInv, [Friends!Next]_(Friends!vars)
                 PROVE  \A a \in Friends!Has(claim) : member[a] = None /\ member'[a] # None =>
                          \A k \in Keys : charged[<<member'[a].wallet, k>>] # None =>
                            charged[<<member'[a].wallet, k>>].status # "committed"
      OBVIOUS
  <2>2. JoinsUnused
      BY <2>1, FriendsNext DEF FriendKept
  <2> QED
      BY <1>3, <2>1, <2>2
<1>6. Friends!Spec => [](Friends!OneOwner /\ Friends!RewardsAreEarned)
    BY <1>1, <1>2, <1>4, FriendsInit, PTL DEF Friends!Spec
<1>7. Friends!Spec => Friends!RecipientIsNew
    BY <1>4, <1>5, FriendsInit, PTL DEF Friends!Spec, Friends!RecipientIsNew
<1> QED
    BY <1>6, <1>7

-----------------------------------------------------------------------------
(***************************************************************************)
(* Assistants: McpDownloads, for any connections, devices and jobs.  The    *)
(* jobs and the ledger need nothing else.  What the seats promise holds     *)
(* where a transaction is stamped with its own time (~Waits): rows are then *)
(* in the order of their activation, a device's row is behind everything    *)
(* that happened to its earlier ones, and a connection is bound after its   *)
(* seat was taken.                                                          *)
(***************************************************************************)
CONSTANTS Prints, Balance, Waits, MaxRows, Happenings
VARIABLES clock, assistant, rows, licence, job, paidFrom

Mcp == INSTANCE McpDownloads WITH connection <- assistant, ledger <- paidFrom

DeviceRows == [device : Devices, activated : Nat, revoked : Nat]
Assistants == [device : Devices, status : {"pending", "approved", "denied", "revoked"}, held : BOOLEAN,
               open : BOOLEAN, live : BOOLEAN, approved : Nat, seat : Nat, bound : Nat]
Jobs == [connection : Connections, print : Prints, cost : {0, 1}, status : {"reserved"} \cup Mcp!Ends,
         late : BOOLEAN, by : Connections \cup {None}]

McpTypes ==
    /\ clock \in Nat /\ licence \in BOOLEAN /\ rows \in Seq(DeviceRows)
    /\ assistant \in [Connections -> Assistants \cup {None}]
    /\ \A c \in Connections : assistant[c] # None =>
         assistant[c].seat <= Len(rows) /\ (assistant[c].held => assistant[c].status \in {"approved", "revoked"})
    /\ job \in [Requests -> Jobs \cup {None}]
    /\ paidFrom \in [Requests -> {None, "reserved"} \cup Mcp!Ends]

\* What a row of the registry is, and what it is to the rows before it.
RowOK(r, at) == 0 < r.activated /\ r.activated <= at /\ r.revoked <= at /\ (r.revoked # 0 => r.activated <= r.revoked)
RowsOK(rs, at) ==
    /\ \A i \in 1..Len(rs) : RowOK(rs[i], at)
    /\ \A i, j \in 1..Len(rs) : i < j =>
         /\ rs[i].activated < rs[j].activated
         /\ rs[i].device = rs[j].device => rs[i].revoked # 0 /\ rs[i].revoked < rs[j].activated
BindingsOK ==
    \A c \in Connections : assistant[c] # None /\ assistant[c].seat # 0 =>
        /\ rows[assistant[c].seat].device = assistant[c].device
        /\ assistant[c].bound >= rows[assistant[c].seat].activated

\* A job that cost credits, and its reservation.
AgreeAt(j, l) ==
    /\ l # None <=> (j # None /\ j.cost = 1)
    /\ l # None => IF j.status = "reserved" THEN l \in {"reserved", "expired"} ELSE l = j.status
JobsOK == \A r \in Requests : AgreeAt(job[r], paidFrom[r])

McpInv == McpTypes /\ JobsOK /\ (~Waits => RowsOK(rows, clock) /\ BindingsOK)

\* A new row of a device, and who it is for.
NewRowsFair ==
    \A i \in DOMAIN rows' \ DOMAIN rows :
        Mcp!RowsOf(rows, rows'[i].device) # {} /\ assistant' # assistant =>
           \E c \in DOMAIN assistant :
             /\ assistant'[c] # None /\ assistant'[c].seat = i
             /\ \A j \in Mcp!RowsOf(rows, rows'[i].device) : rows[j].revoked < assistant'[c].approved
OwnJobsOnly ==
    \A r \in DOMAIN job : \A c \in DOMAIN assistant :
        job[r] # None /\ job[r].by = None /\ job'[r].by = c /\ ~Mcp!Working(c) => job[r].connection = c
McpKept == McpInv' /\ (~Waits => NewRowsFair) /\ OwnJobsOnly

-----------------------------------------------------------------------------
(* The registry of devices *)
LEMMA AppendRow ==
    ASSUME NEW rs \in Seq(DeviceRows), NEW r \in DeviceRows
    PROVE  /\ Append(rs, r) \in Seq(DeviceRows) /\ Len(Append(rs, r)) = Len(rs) + 1
           /\ Append(rs, r)[Len(rs) + 1] = r /\ \A i \in 1..Len(rs) : Append(rs, r)[i] = rs[i]
    OBVIOUS

LEMMA RowAges ==
    ASSUME NEW x \in DeviceRows, NEW at \in Nat, RowOK(x, at), NEW t \in Nat, t >= at
    PROVE  RowOK(x, t)
<1>1. x.activated \in Nat /\ x.revoked \in Nat
    BY DEF DeviceRows
<1> QED
    BY <1>1 DEF RowOK

LEMMA RowsAge ==
    ASSUME NEW rs \in Seq(DeviceRows), NEW at \in Nat, RowsOK(rs, at), NEW t \in Nat, t >= at
    PROVE  RowsOK(rs, t)
<1>1. \A i \in 1..Len(rs) : rs[i] \in DeviceRows /\ RowOK(rs[i], at)
    BY DEF RowsOK
<1>2. \A i \in 1..Len(rs) : RowOK(rs[i], t)
    BY <1>1, RowAges
<1> QED
    BY <1>2 DEF RowsOK

LEMMA RowBehind ==
    ASSUME NEW rs \in Seq(DeviceRows), NEW t \in Nat, t > 0, RowsOK(rs, t), NEW r \in DeviceRows,
           r.activated = t, r.revoked = 0, \A i \in 1..Len(rs) : rs[i].activated < t,
           \A i \in 1..Len(rs) : rs[i].device = r.device => rs[i].revoked # 0 /\ rs[i].revoked < t
    PROVE  RowsOK(Append(rs, r), t)
<1>1. PICK n : n = Append(rs, r)
    OBVIOUS
<1>2. n \in Seq(DeviceRows) /\ Len(n) = Len(rs) + 1 /\ n[Len(rs) + 1] = r /\ \A i \in 1..Len(rs) : n[i] = rs[i]
    BY <1>1, AppendRow
<1>3. \A i \in 1..Len(rs) : RowOK(rs[i], t)
    BY DEF RowsOK
<1>4. ASSUME NEW i \in 1..Len(n) PROVE RowOK(n[i], t)
  <2>1. CASE i \in 1..Len(rs)
      BY <1>2, <1>3, <2>1
  <2>2. CASE i = Len(rs) + 1
      BY <1>2, <2>2 DEF RowOK
  <2> QED
      BY <1>2, <2>1, <2>2
<1>5. ASSUME NEW i \in 1..Len(n), NEW j \in 1..Len(n), i < j
      PROVE  /\ n[i].activated < n[j].activated
             /\ n[i].device = n[j].device => n[i].revoked # 0 /\ n[i].revoked < n[j].activated
  <2>1. CASE j \in 1..Len(rs)
    <3>1. i \in 1..Len(rs)
        BY <1>5, <2>1
    <3> QED
        BY <1>2, <1>5, <2>1, <3>1 DEF RowsOK
  <2>2. CASE j = Len(rs) + 1
    <3>1. i \in 1..Len(rs)
        BY <1>2, <1>5, <2>2
    <3>2. n[i] = rs[i] /\ n[j] = r
        BY <1>2, <2>2, <3>1
    <3> QED
        BY <3>1, <3>2
  <2> QED
      BY <1>2, <2>1, <2>2
<1> QED
    BY <1>1, <1>4, <1>5 DEF RowsOK

LEMMA RowAdded ==
    ASSUME NEW rs \in Seq(DeviceRows), NEW at \in Nat, RowsOK(rs, at), NEW r \in DeviceRows, NEW t \in Nat, t > at,
           r.activated = t, r.revoked = 0,
           \A i \in 1..Len(rs) : rs[i].device = r.device => rs[i].revoked # 0
    PROVE  RowsOK(Append(rs, r), t)
<1>1. \A i \in 1..Len(rs) : rs[i] \in DeviceRows /\ RowOK(rs[i], at)
    BY DEF RowsOK
<1>2. \A i \in 1..Len(rs) : rs[i].activated < t /\ rs[i].revoked < t
    BY <1>1 DEF RowOK, DeviceRows
<1>3. RowsOK(rs, t)
    BY RowsAge
<1> QED
    BY <1>2, <1>3, RowBehind

LEMMA RowsRevoked ==
    ASSUME NEW rs \in Seq(DeviceRows), NEW at \in Nat, RowsOK(rs, at), NEW t \in Nat, t > at,
           NEW n \in Seq(DeviceRows), Len(n) = Len(rs),
           \A i \in 1..Len(rs) : /\ n[i].device = rs[i].device /\ n[i].activated = rs[i].activated
                                 /\ n[i].revoked = rs[i].revoked \/ (rs[i].revoked = 0 /\ n[i].revoked = t)
    PROVE  RowsOK(n, t)
<1>1. \A i \in 1..Len(rs) : rs[i] \in DeviceRows /\ n[i] \in DeviceRows /\ RowOK(rs[i], at)
    BY DEF RowsOK
<1>2. ASSUME NEW i \in 1..Len(n) PROVE RowOK(n[i], t)
  <2>1. /\ rs[i] \in DeviceRows /\ n[i] \in DeviceRows /\ RowOK(rs[i], at) /\ n[i].activated = rs[i].activated
        /\ n[i].revoked = rs[i].revoked \/ n[i].revoked = t
      BY <1>1
  <2>2. rs[i].activated \in Nat /\ rs[i].revoked \in Nat
      BY <2>1 DEF DeviceRows
  <2> QED
      BY <2>1, <2>2 DEF RowOK
<1>3. ASSUME NEW i \in 1..Len(n), NEW j \in 1..Len(n), i < j
      PROVE  /\ n[i].activated < n[j].activated
             /\ n[i].device = n[j].device => n[i].revoked # 0 /\ n[i].revoked < n[j].activated
    BY <1>3 DEF RowsOK
<1> QED
    BY <1>2, <1>3 DEF RowsOK

\* The row of a device that was activated last is its last row.
LEMMA LatestIs ==
    ASSUME rows \in Seq(DeviceRows), RowsOK(rows, clock), NEW d, NEW i \in 1..Len(rows), rows[i].device = d,
           \A j \in 1..Len(rows) : rows[j].device = d => j <= i
    PROVE  Mcp!Latest(d) = i
<1>1. \A j \in Mcp!RowsOf(rows, d) : j \in 1..Len(rows) /\ j <= i /\ (j # i => rows[j].activated < rows[i].activated)
    BY DEF Mcp!RowsOf, RowsOK
<1>2. i \in Mcp!RowsOf(rows, d)
    BY DEF Mcp!RowsOf
<1>3. \A j \in Mcp!RowsOf(rows, d) : rows[j].activated \in Nat
  <2>1. \A j \in 1..Len(rows) : rows[j] \in DeviceRows
      OBVIOUS
  <2>2. \A x \in DeviceRows : x.activated \in Nat
      BY DEF DeviceRows
  <2> QED
      BY <1>1, <2>1, <2>2
<1>4. \A j \in Mcp!RowsOf(rows, d) : rows[j].activated <= rows[i].activated
    BY <1>1, <1>2, <1>3
<1>5. PICK l : l = (CHOOSE k \in Mcp!RowsOf(rows, d) : \A j \in Mcp!RowsOf(rows, d) : rows[j].activated <= rows[k].activated)
    OBVIOUS
<1>6. l \in Mcp!RowsOf(rows, d) /\ rows[i].activated <= rows[l].activated
    BY <1>2, <1>4, <1>5
<1>7. l = i
    BY <1>1, <1>2, <1>3, <1>6
<1> QED
    BY <1>5, <1>7 DEF Mcp!Latest

LEMMA SmallestTail ==
    ASSUME NEW S, IsFiniteSet(S), S # {}
    PROVE  \E k \in S : \A i \in S : {j \in S : j >= i} \subseteq {j \in S : j >= k} =>
                                       {j \in S : j >= i} = {j \in S : j >= k}
<1> DEFINE F == {{j \in S : j >= k} : k \in S}
<1>1. F \in SUBSET (SUBSET S)
    OBVIOUS
<1>2. F # {}
    OBVIOUS
<1>3. PICK T \in F : \A U \in F : U \subseteq T => U = T
  <2> HIDE DEF F
  <2> QED
      BY <1>1, <1>2, Smallest
<1>4. PICK k \in S : T = {j \in S : j >= k}
    BY <1>3
<1>5. ASSUME NEW i \in S, {j \in S : j >= i} \subseteq T PROVE {j \in S : j >= i} = T
  <2>1. PICK U : U = {j \in S : j >= i}
      OBVIOUS
  <2>2. U \in F
      BY <2>1
  <2> HIDE DEF F
  <2>3. U = T
      BY <1>3, <1>5, <2>1, <2>2
  <2> QED
      BY <2>1, <2>3
<1> HIDE DEF F
<1> QED
    BY <1>4, <1>5

LEMMA Greatest ==
    ASSUME NEW n \in Nat, NEW S \in SUBSET (1..n), S # {}
    PROVE  \E k \in S : \A j \in S : j <= k
<1>1. IsFiniteSet(S)
  <2>1. IsFiniteSet(1..n)
      BY FS_Interval
  <2> QED
      BY <2>1, FS_Subset
<1>2. PICK k \in S : \A i \in S : {j \in S : j >= i} \subseteq {j \in S : j >= k} =>
                                    {j \in S : j >= i} = {j \in S : j >= k}
    BY <1>1, SmallestTail
<1>3. ASSUME NEW i \in S, ~(i <= k) PROVE FALSE
  <2>1. i \in Nat /\ k \in Nat /\ i > k
      BY <1>3
  <2>2. {j \in S : j >= i} \subseteq {j \in S : j >= k}
    <3>1. ASSUME NEW j \in S, j >= i PROVE j >= k
      <4>1. j \in Nat
          OBVIOUS
      <4> QED
          BY <2>1, <3>1, <4>1
    <3> QED
        BY <3>1
  <2>3. k \in {j \in S : j >= i}
      BY <1>2, <2>1, <2>2
  <2> QED
      BY <2>1, <2>3
<1> QED
    BY <1>3

\* A free seat is taken by a new row, behind everything the device had.
LEMMA SeatedIs ==
    ASSUME McpTypes, NEW d \in Devices, NEW t \in Nat
    PROVE  \/ Mcp!Seated(d, t) = rows
           \/ \E r : /\ r = [device |-> d, activated |-> t, revoked |-> 0] /\ r \in DeviceRows
                     /\ Mcp!Seated(d, t) = Append(rows, r)
                     /\ \A i \in 1..Len(rows) : rows[i].device = d => rows[i].revoked # 0
<1>1. CASE Mcp!Seat(d) = {} /\ Mcp!Cardinality(Mcp!ActiveRows(rows)) < Mcp!MaxActive
  <2>1. PICK r : r = [device |-> d, activated |-> t, revoked |-> 0]
      OBVIOUS
  <2>2. r \in DeviceRows
      BY <2>1 DEF DeviceRows
  <2>3. Mcp!Seated(d, t) = Append(rows, r)
      BY <1>1, <2>1 DEF Mcp!Seated
  <2>4. \A i \in 1..Len(rows) : rows[i].device = d => rows[i].revoked # 0
      BY <1>1 DEF Mcp!Seat, Mcp!ActiveRows, Mcp!RowsOf, McpTypes
  <2> QED
      BY <2>1, <2>2, <2>3, <2>4
<1>2. CASE ~(Mcp!Seat(d) = {} /\ Mcp!Cardinality(Mcp!ActiveRows(rows)) < Mcp!MaxActive)
    BY <1>2 DEF Mcp!Seated
<1> QED
    BY <1>1, <1>2

\* What a device had before an active row of it, and before a row that a
\* connection took.
LEMMA NotRemovedSince ==
    ASSUME McpTypes, RowsOK(rows, clock), NEW d \in Devices, NEW approved \in Nat, ~Mcp!RemovedSince(d, approved),
           Mcp!RowsOf(rows, d) # {}, \A i \in 1..Len(rows) : rows[i].device = d => rows[i].revoked # 0
    PROVE  \A j \in Mcp!RowsOf(rows, d) : rows[j].revoked < approved
<1>1. Len(rows) \in Nat /\ rows \in Seq(DeviceRows)
    BY DEF McpTypes
<1>2. Mcp!RowsOf(rows, d) = {i \in 1..Len(rows) : rows[i].device = d}
    BY <1>1 DEF Mcp!RowsOf
<1>3. PICK l \in Mcp!RowsOf(rows, d) : \A j \in Mcp!RowsOf(rows, d) : j <= l
    BY <1>1, <1>2, Greatest
<1>4. Mcp!Latest(d) = l
    BY <1>1, <1>2, <1>3, LatestIs
<1>5. rows[l].revoked # 0 /\ ~(rows[l].revoked >= approved)
    BY <1>2, <1>3, <1>4 DEF Mcp!RemovedSince
<1>6. \A j \in Mcp!RowsOf(rows, d) : rows[j] \in DeviceRows /\ RowOK(rows[j], clock)
    BY <1>1, <1>2 DEF RowsOK
<1>7. \A j \in Mcp!RowsOf(rows, d) : rows[j].revoked \in Nat /\ rows[j].activated \in Nat
    BY <1>6 DEF DeviceRows
<1>8. \A j \in Mcp!RowsOf(rows, d) : j # l => rows[j].revoked < rows[l].activated
    BY <1>1, <1>2, <1>3 DEF RowsOK
<1>9. rows[l].activated <= rows[l].revoked
    BY <1>3, <1>5, <1>6 DEF RowOK
<1> QED
    BY <1>3, <1>5, <1>7, <1>8, <1>9

\* A connection's seat that is active is the last row of its device.
LEMMA SeatKept ==
    ASSUME McpTypes, RowsOK(rows, clock), BindingsOK, NEW c \in Connections, assistant[c] # None, assistant[c].seat # 0,
           rows[assistant[c].seat].revoked = 0
    PROVE  Mcp!KeepsSeat(c)
<1>1. PICK i : i = assistant[c].seat
    OBVIOUS
<1>2. PICK d : d = assistant[c].device
    OBVIOUS
<1>3. /\ rows \in Seq(DeviceRows) /\ assistant[c] \in Assistants /\ i \in 1..Len(rows)
      /\ rows[i].device = d /\ assistant[c].bound >= rows[i].activated
  <2>1. assistant[c] \in Assistants /\ rows \in Seq(DeviceRows)
      BY DEF McpTypes
  <2>2. i \in Nat /\ i <= Len(rows)
      BY <1>1, <2>1 DEF McpTypes, Assistants
  <2> QED
      BY <1>1, <1>2, <2>1, <2>2 DEF BindingsOK
<1>4. \A j \in 1..Len(rows) : rows[j].device = d => j <= i
    BY <1>1, <1>3 DEF RowsOK
<1>5. Mcp!Latest(d) = i
    BY <1>3, <1>4, LatestIs
<1>6. i \in Mcp!Seat(d)
    BY <1>1, <1>3 DEF Mcp!Seat, Mcp!ActiveRows, Mcp!RowsOf
<1> QED
    BY <1>1, <1>2, <1>3, <1>5, <1>6 DEF Mcp!KeepsSeat, Mcp!RemovedSince, Mcp!Current

\* A connection that is admitted is bound to a seat, its own or a free one.
LEMMA Seats ==
    ASSUME McpInv, Mcp!McpAssumption, NEW c \in Connections, assistant[c] # None, NEW t \in Nat, NEW k \in Assistants,
           k.device = assistant[c].device, k.seat = assistant[c].seat, k.seat # 0 => k.bound = assistant[c].bound,
           k.held => k.status \in {"approved", "revoked"},
           Mcp!Admits(c, k.approved, t), assistant' = [assistant EXCEPT ![c] = Mcp!Bound(k, t)],
           rows' = Mcp!RowsAfter(c, t), clock' \in Nat, clock' >= clock,
           ~Waits => t > clock /\ (k.seat = 0 => clock' = t)
    PROVE  /\ rows' \in Seq(DeviceRows) /\ assistant' \in [Connections -> Assistants \cup {None}]
           /\ \A x \in Connections : assistant'[x] # None =>
                assistant'[x].seat <= Len(rows') /\ (assistant'[x].held => assistant'[x].status \in {"approved", "revoked"})
           /\ ~Waits => RowsOK(rows', clock') /\ BindingsOK' /\ NewRowsFair
<1>1. /\ rows \in Seq(DeviceRows) /\ Len(rows) \in Nat /\ clock \in Nat
      /\ assistant \in [Connections -> Assistants \cup {None}]
      /\ \A x \in Connections : assistant[x] # None =>
           /\ assistant[x] \in Assistants /\ assistant[x].seat \in Nat /\ assistant[x].seat <= Len(rows)
           /\ assistant[x].held => assistant[x].status \in {"approved", "revoked"}
      /\ ~Waits => RowsOK(rows, clock) /\ BindingsOK
    BY DEF McpInv, McpTypes, Assistants
<1>2. PICK d : d = k.device
    OBVIOUS
<1>3. d \in Devices
    BY <1>2 DEF Assistants
<1>4. CASE k.seat # 0
  <2>1. Mcp!Bound(k, t) = k /\ rows' = rows
      BY <1>4 DEF Mcp!Bound, Mcp!RowsAfter
  <2>2. assistant'[c] = k /\ (\A x \in Connections : x # c => assistant'[x] = assistant[x])
        /\ assistant' \in [Connections -> Assistants \cup {None}]
      BY <1>1, <2>1
  <2>3. \A x \in Connections : assistant'[x] # None =>
          assistant'[x].seat <= Len(rows') /\ (assistant'[x].held => assistant'[x].status \in {"approved", "revoked"})
      BY <1>1, <2>1, <2>2
  <2>4. ASSUME ~Waits PROVE RowsOK(rows', clock') /\ BindingsOK' /\ NewRowsFair
    <3>1. RowsOK(rows', clock')
        BY <1>1, <2>1, <2>4, RowsAge
    <3>2. BindingsOK'
        BY <1>1, <1>4, <2>1, <2>2, <2>4 DEF BindingsOK
    <3>3. NewRowsFair
        BY <2>1 DEF NewRowsFair
    <3> QED
        BY <3>1, <3>2, <3>3
  <2> QED
      BY <1>1, <2>1, <2>2, <2>3, <2>4
<1>5. CASE k.seat = 0
  <2>1. PICK n : n = Mcp!Seated(d, t)
      OBVIOUS
  <2>2. /\ rows' = n /\ ~Mcp!RemovedSince(d, k.approved)
        /\ Mcp!ActiveRows(n) \cap Mcp!RowsOf(n, d) # {}
      BY <1>2, <1>5, <2>1 DEF Mcp!RowsAfter, Mcp!Admits
  <2>3. PICK m : m = CHOOSE i \in Mcp!ActiveRows(n) : n[i].device = d
      OBVIOUS
  <2>4. m \in Mcp!ActiveRows(n) /\ n[m].device = d
      BY <2>2, <2>3 DEF Mcp!RowsOf, Mcp!ActiveRows
  <2>5. PICK b : b = [k EXCEPT !.seat = m, !.bound = t]
      OBVIOUS
  <2>6. Mcp!Bound(k, t) = b
      BY <1>2, <1>5, <2>1, <2>3, <2>5 DEF Mcp!Bound
  <2>7. n \in Seq(DeviceRows) /\ (\A i \in 1..Len(rows) : n[i] = rows[i]) /\ Len(rows) <= Len(n) /\ Len(n) \in Nat
    <3>1. McpTypes
        BY DEF McpInv
    <3>2. n = rows \/ \E r \in DeviceRows : n = Append(rows, r)
        BY <1>3, <2>1, <3>1, SeatedIs
    <3>3. CASE n = rows
        BY <1>1, <3>3
    <3>4. CASE n # rows
      <4>1. PICK r \in DeviceRows : n = Append(rows, r)
          BY <3>2, <3>4
      <4>2. /\ Append(rows, r) \in Seq(DeviceRows) /\ Len(Append(rows, r)) = Len(rows) + 1
            /\ \A i \in 1..Len(rows) : Append(rows, r)[i] = rows[i]
          BY <1>1, AppendRow
      <4>3. Len(rows) <= Len(rows) + 1 /\ Len(rows) + 1 \in Nat
          BY <1>1
      <4> QED
          BY <4>1, <4>2, <4>3
    <3> QED
        BY <3>3, <3>4
  <2>8. m \in 1..Len(n) /\ n[m].revoked = 0
      BY <2>4, <2>7 DEF Mcp!ActiveRows
  <2>9. /\ b \in Assistants /\ b.seat = m /\ b.bound = t /\ b.device = d /\ b.held = k.held /\ b.status = k.status
        /\ b.approved = k.approved
    <3>1. m \in Nat
        BY <2>8
    <3>2. PICK e : e = [k EXCEPT !.seat = m]
        OBVIOUS
    <3>3. e \in Assistants /\ e.seat = m /\ e.device = d /\ e.held = k.held /\ e.status = k.status /\ e.approved = k.approved
        BY <1>2, <3>1, <3>2 DEF Assistants
    <3>4. b = [e EXCEPT !.bound = t]
        BY <2>5, <3>2
    <3> QED
        BY <3>3, <3>4 DEF Assistants
  <2>10. assistant'[c] = b /\ (\A x \in Connections : x # c => assistant'[x] = assistant[x])
         /\ assistant' \in [Connections -> Assistants \cup {None}]
      BY <1>1, <2>6, <2>9
  <2>11. \A x \in Connections : assistant'[x] # None =>
           assistant'[x].seat <= Len(rows') /\ (assistant'[x].held => assistant'[x].status \in {"approved", "revoked"})
    <3>1. ASSUME NEW x \in Connections, assistant'[x] # None
          PROVE  /\ assistant'[x].seat <= Len(n)
                 /\ assistant'[x].held => assistant'[x].status \in {"approved", "revoked"}
      <4>1. CASE x = c
          BY <2>8, <2>9, <2>10, <4>1
      <4>2. CASE x # c
          BY <1>1, <2>7, <2>10, <3>1, <4>2
      <4> QED
          BY <4>1, <4>2
    <3> QED
        BY <2>2, <3>1
  <2>12. ASSUME ~Waits PROVE RowsOK(rows', clock') /\ BindingsOK' /\ NewRowsFair
    <3>1. RowsOK(rows, clock) /\ BindingsOK /\ t > clock /\ clock' = t
        BY <1>1, <1>5, <2>12
    <3>2. ASSUME NEW x \in Connections, x # c, assistant'[x] # None, assistant'[x].seat # 0
          PROVE  /\ n[assistant'[x].seat].device = assistant'[x].device
                 /\ assistant'[x].bound >= n[assistant'[x].seat].activated
      <4>1. assistant'[x] = assistant[x] /\ assistant[x].seat \in 1..Len(rows)
          BY <1>1, <2>10, <3>2
      <4> QED
          BY <2>7, <3>1, <3>2, <4>1 DEF BindingsOK
    <3>3. CASE n = rows
      <4>1. RowsOK(n, t)
          BY <1>1, <3>1, <3>3, RowsAge
      <4>2. RowOK(n[m], clock) /\ n[m] \in DeviceRows
          BY <2>7, <2>8, <3>1, <3>3 DEF RowsOK
      <4>3. t >= n[m].activated
          BY <1>1, <3>1, <4>2 DEF RowOK, DeviceRows
      <4>4. BindingsOK'
          BY <2>2, <2>4, <2>9, <2>10, <3>2, <4>3 DEF BindingsOK
      <4>5. NewRowsFair
          BY <2>2, <3>3 DEF NewRowsFair
      <4> QED
          BY <2>2, <3>1, <4>1, <4>4, <4>5
    <3>4. CASE n # rows
      <4>1. PICK r : /\ r = [device |-> d, activated |-> t, revoked |-> 0] /\ r \in DeviceRows /\ n = Append(rows, r)
                     /\ \A i \in 1..Len(rows) : rows[i].device = d => rows[i].revoked # 0
          BY <1>3, <2>1, <3>4, SeatedIs DEF McpInv
      <4>2. r.device = d /\ r.activated = t /\ r.revoked = 0
          BY <4>1
      <4>3. RowsOK(n, t)
          BY <1>1, <3>1, <4>1, <4>2, RowAdded
      <4>4. Len(n) = Len(rows) + 1 /\ n[Len(rows) + 1] = r
          BY <1>1, <4>1, AppendRow
      <4>5. m = Len(rows) + 1
          BY <1>1, <2>4, <2>7, <2>8, <4>1, <4>4
      <4>6. BindingsOK'
          BY <2>2, <2>4, <2>9, <2>10, <3>2, <4>2, <4>4, <4>5 DEF BindingsOK
      <4>7. NewRowsFair
        <5>1. SUFFICES ASSUME NEW i \in DOMAIN n \ DOMAIN rows, Mcp!RowsOf(rows, n[i].device) # {}
                       PROVE  \E x \in DOMAIN assistant :
                                /\ assistant'[x] # None /\ assistant'[x].seat = i
                                /\ \A j \in Mcp!RowsOf(rows, n[i].device) : rows[j].revoked < assistant'[x].approved
            BY <2>2 DEF NewRowsFair
        <5>2. i = m /\ n[i].device = d
            BY <1>1, <2>4, <2>7, <4>4, <4>5, <5>1
        <5>3. \A j \in Mcp!RowsOf(rows, d) : rows[j].revoked < k.approved
            BY <1>3, <2>2, <3>1, <4>1, <5>1, <5>2, NotRemovedSince DEF McpInv, Assistants
        <5>4. b # None
            BY <2>9 DEF Assistants, Mcp!McpAssumption
        <5> QED
            BY <1>1, <2>9, <2>10, <5>2, <5>3, <5>4
      <4> QED
          BY <2>2, <3>1, <4>3, <4>6, <4>7
    <3> QED
        BY <3>3, <3>4
  <2> QED
      BY <2>2, <2>7, <2>10, <2>11, <2>12
<1>6. k.seat \in Nat
    BY DEF Assistants
<1> QED
    BY <1>4, <1>5

\* What the clock gave back leaves every reservation what its job says.
LEMMA SyncedAgrees ==
    ASSUME McpInv, Mcp!McpAssumption
    PROVE  /\ Mcp!Synced(paidFrom) \in [Requests -> {None, "reserved"} \cup Mcp!Ends]
           /\ \A r \in Requests : AgreeAt(job[r], Mcp!Synced(paidFrom)[r])
           /\ \A r \in Requests : Mcp!Synced(paidFrom)[r] # None <=> paidFrom[r] # None
           /\ \A r \in Requests : Mcp!Synced(paidFrom)[r] = "reserved" => paidFrom[r] = "reserved"
<1>1. PICK l : l = Mcp!Synced(paidFrom)
    OBVIOUS
<1>2. paidFrom \in [Requests -> {None, "reserved"} \cup Mcp!Ends] /\ "expired" \in Mcp!Ends
    BY DEF McpInv, McpTypes, Mcp!Ends
<1>3. ASSUME NEW r \in Requests
      PROVE  /\ l[r] \in {None, "reserved"} \cup Mcp!Ends /\ AgreeAt(job[r], l[r])
             /\ l[r] # None <=> paidFrom[r] # None
             /\ l[r] = "reserved" => paidFrom[r] = "reserved"
  <2>1. AgreeAt(job[r], paidFrom[r]) /\ paidFrom[r] \in {None, "reserved"} \cup Mcp!Ends
      BY <1>2 DEF McpInv, JobsOK
  <2>2. l[r] = IF paidFrom[r] = "reserved" /\ job[r].late THEN "expired" ELSE paidFrom[r]
      BY <1>1 DEF Mcp!Synced
  <2>3. "reserved" # None /\ "expired" # None
      BY DEF Mcp!McpAssumption, Mcp!Ends
  <2>4. CASE l[r] = paidFrom[r]
      BY <2>1, <2>4
  <2>5. CASE paidFrom[r] = "reserved" /\ l[r] = "expired"
    <3>1. AgreeAt(job[r], "reserved")
        BY <2>1, <2>5
    <3>2. "reserved" \notin Mcp!Ends
        BY DEF Mcp!Ends
    <3>3. job[r] # None /\ job[r].cost = 1 /\ job[r].status = "reserved"
        BY <2>3, <3>1 DEF AgreeAt
    <3>4. AgreeAt(job[r], "expired")
        BY <2>3, <3>3 DEF AgreeAt
    <3> QED
        BY <1>2, <2>3, <2>5, <3>4
  <2> QED
      BY <2>2, <2>4, <2>5
<1>4. l \in [Requests -> {None, "reserved"} \cup Mcp!Ends]
  <2>1. DOMAIN l = Requests /\ l = [r \in Requests |-> l[r]]
      BY <1>1 DEF Mcp!Synced
  <2> QED
      BY <1>3, <2>1
<1> QED
    BY <1>1, <1>3, <1>4

\* A step that settles nothing.
LEMMA NobodySettles ==
    ASSUME Mcp!McpAssumption, \A r \in DOMAIN job : job[r] # None => job'[r].by = job[r].by,
           DOMAIN assistant = Connections
    PROVE  OwnJobsOnly
    BY DEF OwnJobsOnly, Mcp!McpAssumption

\* A step that leaves the registry and what connections are bound to.
LEMMA SeatsStay ==
    ASSUME McpInv, rows' = rows, clock' \in Nat, clock' >= clock,
           \A x \in Connections : assistant'[x] # None /\ assistant'[x].seat # 0 =>
             /\ assistant[x] # None /\ assistant'[x].seat = assistant[x].seat
             /\ assistant'[x].device = assistant[x].device /\ assistant'[x].bound = assistant[x].bound
    PROVE  ~Waits => RowsOK(rows', clock') /\ BindingsOK' /\ NewRowsFair
<1>1. SUFFICES ASSUME ~Waits PROVE RowsOK(rows', clock') /\ BindingsOK' /\ NewRowsFair
    OBVIOUS
<1>2. RowsOK(rows, clock) /\ BindingsOK /\ rows \in Seq(DeviceRows) /\ clock \in Nat
    BY <1>1 DEF McpInv, McpTypes
<1>3. RowsOK(rows', clock')
    BY <1>2, RowsAge
<1>4. BindingsOK'
    BY <1>2 DEF BindingsOK
<1>5. NewRowsFair
    BY DEF NewRowsFair
<1> QED
    BY <1>3, <1>4, <1>5

\* One connection changes, and no seat with it.
LEMMA ConnectionTurns ==
    ASSUME McpInv, Mcp!McpAssumption, NEW c \in Connections, NEW k \in Assistants,
           assistant' = [assistant EXCEPT ![c] = k], k.held => k.status \in {"approved", "revoked"},
           k.seat # 0 => /\ assistant[c] # None /\ k.seat = assistant[c].seat
                         /\ k.device = assistant[c].device /\ k.bound = assistant[c].bound,
           rows' = rows, licence' = licence, job' = job, clock' \in Nat, clock' >= clock,
           paidFrom' = paidFrom \/ paidFrom' = Mcp!Synced(paidFrom)
    PROVE  McpKept
<1>1. /\ assistant \in [Connections -> Assistants \cup {None}] /\ rows \in Seq(DeviceRows) /\ Len(rows) \in Nat
      /\ job \in [Requests -> Jobs \cup {None}] /\ licence \in BOOLEAN
      /\ \A x \in Connections : assistant[x] # None =>
           assistant[x].seat <= Len(rows) /\ (assistant[x].held => assistant[x].status \in {"approved", "revoked"})
    BY DEF McpInv, McpTypes
<1>2. /\ assistant'[c] = k /\ assistant' \in [Connections -> Assistants \cup {None}]
      /\ \A x \in Connections : x # c => assistant'[x] = assistant[x]
    BY <1>1
<1>3. k.seat <= Len(rows)
    BY <1>1
<1>4. paidFrom' \in [Requests -> {None, "reserved"} \cup Mcp!Ends] /\ \A r \in Requests : AgreeAt(job[r], paidFrom'[r])
    BY SyncedAgrees DEF McpInv, McpTypes, JobsOK
<1>5. McpTypes'
    BY <1>1, <1>2, <1>3, <1>4 DEF McpTypes
<1>6. JobsOK'
    BY <1>4 DEF JobsOK
<1>7. ~Waits => RowsOK(rows', clock') /\ BindingsOK' /\ NewRowsFair
    BY <1>2, SeatsStay
<1>8. OwnJobsOnly
    BY <1>1, NobodySettles
<1> QED
    BY <1>5, <1>6, <1>7, <1>8 DEF McpKept, McpInv

\* The registry changes, and no row that was there loses its device or the
\* time of its activation.
LEMMA RegistryTurns ==
    ASSUME McpInv, Mcp!McpAssumption, rows' \in Seq(DeviceRows), Len(rows) <= Len(rows'), clock' \in Nat,
           \A i \in 1..Len(rows) : rows'[i].device = rows[i].device /\ rows'[i].activated = rows[i].activated,
           ~Waits => RowsOK(rows', clock'),
           UNCHANGED <<assistant, licence, job, paidFrom>>
    PROVE  McpKept
<1>1. /\ assistant \in [Connections -> Assistants \cup {None}] /\ rows \in Seq(DeviceRows) /\ Len(rows) \in Nat
      /\ job \in [Requests -> Jobs \cup {None}] /\ licence \in BOOLEAN /\ Len(rows') \in Nat
      /\ \A x \in Connections : assistant[x] # None =>
           assistant[x].seat <= Len(rows) /\ (assistant[x].held => assistant[x].status \in {"approved", "revoked"})
    BY DEF McpInv, McpTypes
<1>2. \A x \in Connections : assistant[x] # None => assistant[x].seat \in Nat
    BY <1>1 DEF Assistants
<1>3. McpTypes'
  <2>1. \A x \in Connections : assistant[x] # None => assistant[x].seat <= Len(rows')
      BY <1>1, <1>2
  <2> QED
      BY <1>1, <2>1 DEF McpInv, McpTypes
<1>4. JobsOK'
    BY DEF McpInv, JobsOK
<1>5. ASSUME ~Waits PROVE BindingsOK'
  <2>1. \A x \in Connections : assistant[x] # None /\ assistant[x].seat # 0 => assistant[x].seat \in 1..Len(rows)
      BY <1>1, <1>2
  <2> QED
      BY <1>5, <2>1 DEF BindingsOK, McpInv
<1>6. NewRowsFair
    BY DEF NewRowsFair
<1>7. OwnJobsOnly
    BY <1>1, NobodySettles
<1> QED
    BY <1>3, <1>4, <1>5, <1>6, <1>7 DEF McpKept, McpInv

LEMMA RowRevoked ==
    ASSUME NEW x \in DeviceRows, NEW t \in Nat
    PROVE  \E v : /\ v = [x EXCEPT !.revoked = t] /\ v \in DeviceRows
                  /\ v.device = x.device /\ v.activated = x.activated /\ v.revoked = t
<1>1. PICK v : v = [x EXCEPT !.revoked = t]
    OBVIOUS
<1>2. v \in DeviceRows /\ v.device = x.device /\ v.activated = x.activated /\ v.revoked = t
    BY <1>1 DEF DeviceRows
<1> QED
    BY <1>1, <1>2

LEMMA KeptByPluginSeats ==
    ASSUME McpInv, Mcp!McpAssumption, NEW d \in Devices, Mcp!PluginSeats(d)
    PROVE  McpKept
<1>1. McpTypes /\ clock \in Nat /\ rows \in Seq(DeviceRows) /\ Len(rows) \in Nat
    BY DEF McpInv, McpTypes
<1>2. rows' = Mcp!Seated(d, clock + 2) /\ rows' # rows /\ clock' = clock + 2 /\ UNCHANGED <<assistant, licence, job, paidFrom>>
    BY DEF Mcp!PluginSeats
<1>3. PICK r : /\ r = [device |-> d, activated |-> clock + 2, revoked |-> 0] /\ r \in DeviceRows
               /\ rows' = Append(rows, r) /\ \A i \in 1..Len(rows) : rows[i].device = d => rows[i].revoked # 0
    BY <1>1, <1>2, SeatedIs
<1>4. PICK n : n = Append(rows, r)
    OBVIOUS
<1>5. n \in Seq(DeviceRows) /\ Len(n) = Len(rows) + 1 /\ \A i \in 1..Len(rows) : n[i] = rows[i]
    BY <1>1, <1>3, <1>4, AppendRow
<1>6. ~Waits => RowsOK(n, clock + 2)
  <2>1. r.device = d /\ r.activated = clock + 2 /\ r.revoked = 0
      BY <1>3
  <2> QED
      BY <1>1, <1>3, <1>4, <2>1, RowAdded DEF McpInv
<1>7. rows' \in Seq(DeviceRows) /\ Len(rows) <= Len(rows') /\ clock' \in Nat
  <2>1. rows' = n
      BY <1>3, <1>4
  <2>2. clock' = clock + 2
      BY <1>2
  <2>3. Len(rows) <= Len(rows) + 1 /\ clock + 2 \in Nat
      BY <1>1
  <2> QED
      BY <1>5, <2>1, <2>2, <2>3
<1>8. ~Waits => RowsOK(rows', clock')
    BY <1>2, <1>3, <1>4, <1>6
<1>9. \A i \in 1..Len(rows) : rows'[i].device = rows[i].device /\ rows'[i].activated = rows[i].activated
    BY <1>3, <1>4, <1>5
<1> QED
    BY <1>2, <1>7, <1>8, <1>9, RegistryTurns

LEMMA KeptByPluginMoves ==
    ASSUME McpInv, Mcp!McpAssumption, NEW d \in Devices, Mcp!PluginMoves(d)
    PROVE  McpKept
<1>1. clock \in Nat /\ rows \in Seq(DeviceRows) /\ Len(rows) \in Nat
    BY DEF McpInv, McpTypes
<1>2. PICK i \in Mcp!ActiveRows(rows) :
        /\ Mcp!Seat(d) = {}
        /\ rows' = Append([rows EXCEPT ![i].revoked = clock + 2],
                          [device |-> d, activated |-> clock + 2, revoked |-> 0])
        /\ clock' = clock + 2 /\ UNCHANGED <<assistant, licence, job, paidFrom>>
    BY DEF Mcp!PluginMoves
<1>3. i \in 1..Len(rows) /\ rows[i].revoked = 0
    BY <1>1 DEF Mcp!ActiveRows
<1>4. \A j \in 1..Len(rows) : rows[j].device = d => rows[j].revoked # 0
    BY <1>1, <1>2 DEF Mcp!Seat, Mcp!ActiveRows, Mcp!RowsOf
<1>5. rows[i] \in DeviceRows /\ clock + 2 \in Nat
    BY <1>1, <1>3
<1>6. PICK v : /\ v = [rows[i] EXCEPT !.revoked = clock + 2] /\ v \in DeviceRows
               /\ v.device = rows[i].device /\ v.activated = rows[i].activated /\ v.revoked = clock + 2
    BY <1>5, RowRevoked
<1>7. PICK m : m = [rows EXCEPT ![i].revoked = clock + 2]
    OBVIOUS
<1>8. m = [rows EXCEPT ![i] = v]
    BY <1>6, <1>7
<1>9. /\ m \in Seq(DeviceRows) /\ Len(m) = Len(rows) /\ m[i] = v
      /\ \A j \in 1..Len(rows) : j # i => m[j] = rows[j]
    BY <1>1, <1>3, <1>6, <1>8
<1>10. PICK r : r = [device |-> d, activated |-> clock + 2, revoked |-> 0]
    OBVIOUS
<1>11. r \in DeviceRows /\ r.device = d /\ r.activated = clock + 2 /\ r.revoked = 0
    BY <1>1, <1>10 DEF DeviceRows
<1>12. PICK n : n = Append(m, r)
    OBVIOUS
<1>13. n \in Seq(DeviceRows) /\ Len(n) = Len(rows) + 1 /\ \A j \in 1..Len(rows) : n[j] = m[j]
    BY <1>9, <1>11, <1>12, AppendRow
<1>14. \A j \in 1..Len(rows) : n[j].device = rows[j].device /\ n[j].activated = rows[j].activated
    BY <1>6, <1>9, <1>13
<1>15. ASSUME ~Waits PROVE RowsOK(n, clock + 2)
  <2>1. RowsOK(rows, clock)
      BY <1>15 DEF McpInv
  <2>2. \A j \in 1..Len(rows) : /\ m[j].device = rows[j].device /\ m[j].activated = rows[j].activated
                                /\ m[j].revoked = rows[j].revoked \/ (rows[j].revoked = 0 /\ m[j].revoked = clock + 2)
      BY <1>3, <1>6, <1>9
  <2>3. RowsOK(m, clock + 2)
      BY <1>1, <1>9, <2>1, <2>2, RowsRevoked
  <2>4. \A j \in 1..Len(rows) : rows[j].activated < clock + 2 /\ rows[j].revoked < clock + 2
    <3>1. \A j \in 1..Len(rows) : rows[j] \in DeviceRows /\ RowOK(rows[j], clock)
        BY <1>1, <2>1 DEF RowsOK
    <3> QED
        BY <1>1, <3>1 DEF RowOK, DeviceRows
  <2>5. \A j \in 1..Len(m) : m[j].activated < clock + 2
      BY <1>9, <2>2, <2>4
  <2>6. \A j \in 1..Len(m) : m[j].device = r.device => m[j].revoked # 0 /\ m[j].revoked < clock + 2
    <3>1. ASSUME NEW j \in 1..Len(rows), m[j].device = d PROVE m[j].revoked # 0 /\ m[j].revoked < clock + 2
      <4>1. j # i
          BY <1>3, <1>4, <1>6, <1>9, <3>1
      <4>2. m[j] = rows[j]
          BY <1>9, <4>1
      <4> QED
          BY <1>4, <2>4, <3>1, <4>2
    <3> QED
        BY <1>9, <1>11, <3>1
  <2>7. clock + 2 \in Nat /\ clock + 2 > 0
      BY <1>1
  <2>8. m \in Seq(DeviceRows) /\ r \in DeviceRows /\ r.activated = clock + 2 /\ r.revoked = 0
      BY <1>9, <1>11
  <2>9. RowsOK(Append(m, r), clock + 2)
      BY <2>3, <2>5, <2>6, <2>7, <2>8, RowBehind
  <2> QED
      BY <1>12, <2>9
<1>16. rows' = n
    BY <1>2, <1>7, <1>10, <1>12
<1>17. rows' \in Seq(DeviceRows) /\ Len(rows) <= Len(rows') /\ clock' \in Nat
  <2>1. clock' = clock + 2
      BY <1>2
  <2> QED
      BY <1>1, <1>13, <1>16, <2>1
<1>18. ~Waits => RowsOK(rows', clock')
    BY <1>2, <1>15, <1>16
<1>19. \A j \in 1..Len(rows) : rows'[j].device = rows[j].device /\ rows'[j].activated = rows[j].activated
    BY <1>14, <1>16
<1> QED
    BY <1>2, <1>17, <1>18, <1>19, RegistryTurns

LEMMA KeptByOwner ==
    ASSUME McpInv, Mcp!McpAssumption, Mcp!OwnerDeactivates
    PROVE  McpKept
<1>1. clock \in Nat /\ rows \in Seq(DeviceRows) /\ Len(rows) \in Nat
    BY DEF McpInv, McpTypes
<1>2. clock' = clock + 2 /\ UNCHANGED <<assistant, licence, job, paidFrom>>
    BY DEF Mcp!OwnerDeactivates
<1>3. PICK n : n = [i \in DOMAIN rows |-> IF rows[i].revoked = 0 THEN [rows[i] EXCEPT !.revoked = clock + 2] ELSE rows[i]]
    OBVIOUS
<1>4. ASSUME NEW i \in 1..Len(rows)
      PROVE  /\ n[i] \in DeviceRows /\ n[i].device = rows[i].device /\ n[i].activated = rows[i].activated
             /\ n[i].revoked = rows[i].revoked \/ (rows[i].revoked = 0 /\ n[i].revoked = clock + 2)
  <2>1. rows[i] \in DeviceRows /\ i \in DOMAIN rows
      BY <1>1
  <2>2. n[i] = IF rows[i].revoked = 0 THEN [rows[i] EXCEPT !.revoked = clock + 2] ELSE rows[i]
      BY <1>3, <2>1
  <2>3. CASE rows[i].revoked = 0
    <3>1. PICK v : /\ v = [rows[i] EXCEPT !.revoked = clock + 2] /\ v \in DeviceRows
                   /\ v.device = rows[i].device /\ v.activated = rows[i].activated /\ v.revoked = clock + 2
      <4>1. clock + 2 \in Nat
          BY <1>1
      <4> QED
          BY <2>1, <4>1, RowRevoked
    <3> QED
        BY <2>2, <2>3, <3>1
  <2>4. CASE rows[i].revoked # 0
      BY <2>1, <2>2, <2>4
  <2> QED
      BY <2>3, <2>4
<1>5. n \in Seq(DeviceRows) /\ Len(n) = Len(rows)
  <2>1. DOMAIN n = 1..Len(rows) /\ n = [i \in 1..Len(rows) |-> n[i]]
      BY <1>1, <1>3
  <2>2. n \in [1..Len(rows) -> DeviceRows]
      BY <1>4, <2>1
  <2> QED
      BY <1>1, <2>1, <2>2
<1>6. ~Waits => RowsOK(n, clock + 2)
    BY <1>1, <1>4, <1>5, RowsRevoked DEF McpInv
<1>7. rows' = n
    BY <1>3 DEF Mcp!OwnerDeactivates
<1>8. rows' \in Seq(DeviceRows) /\ Len(rows) <= Len(rows') /\ clock' \in Nat
    BY <1>1, <1>2, <1>5, <1>7
<1>9. ~Waits => RowsOK(rows', clock')
    BY <1>2, <1>6, <1>7
<1>10. \A i \in 1..Len(rows) : rows'[i].device = rows[i].device /\ rows'[i].activated = rows[i].activated
    BY <1>4, <1>7
<1> QED
    BY <1>2, <1>8, <1>9, <1>10, RegistryTurns

LEMMA KeptByLicence ==
    ASSUME McpInv, Mcp!McpAssumption, Mcp!LicenceTurns
    PROVE  McpKept
<1>1. licence' \in BOOLEAN /\ UNCHANGED <<clock, assistant, rows, job, paidFrom>>
    BY DEF Mcp!LicenceTurns, McpInv, McpTypes
<1>2. McpTypes' /\ JobsOK'
    BY <1>1 DEF McpInv, McpTypes, JobsOK
<1>3. ~Waits => RowsOK(rows', clock') /\ BindingsOK'
    BY <1>1 DEF McpInv, BindingsOK
<1>4. NewRowsFair
    BY <1>1 DEF NewRowsFair
<1>5. OwnJobsOnly
  <2>1. DOMAIN assistant = Connections
      BY DEF McpInv, McpTypes
  <2> QED
      BY <1>1, <2>1, NobodySettles
<1> QED
    BY <1>2, <1>3, <1>4, <1>5 DEF McpKept, McpInv

LEMMA ConnectionIs ==
    ASSUME McpInv, Mcp!McpAssumption, NEW c \in Connections
    PROVE  /\ clock \in Nat /\ assistant \in [Connections -> Assistants \cup {None}]
           /\ assistant[c] # None => /\ assistant[c] \in Assistants
                                     /\ assistant[c].held => assistant[c].status \in {"approved", "revoked"}
    BY DEF McpInv, McpTypes

LEMMA KeptByStart ==
    ASSUME McpInv, Mcp!McpAssumption, NEW c \in Connections, NEW d \in Devices, Mcp!Start(c, d)
    PROVE  McpKept
<1>1. PICK k : k = [device |-> d, status |-> "pending", held |-> FALSE, open |-> TRUE, live |-> FALSE,
                    approved |-> 0, seat |-> 0, bound |-> 0]
    OBVIOUS
<1>2. k \in Assistants /\ ~k.held /\ k.seat = 0
    BY <1>1 DEF Assistants
<1>3. assistant' = [assistant EXCEPT ![c] = k] /\ UNCHANGED <<clock, rows, licence, job, paidFrom>>
    BY <1>1 DEF Mcp!Start
<1>4. clock' \in Nat /\ clock' >= clock
    BY <1>3, ConnectionIs
<1> QED
    BY <1>2, <1>3, <1>4, ConnectionTurns

LEMMA KeptByDeny ==
    ASSUME McpInv, Mcp!McpAssumption, NEW c \in Connections, Mcp!Deny(c)
    PROVE  McpKept
<1>1. PICK k : k = [assistant[c] EXCEPT !.status = "denied"]
    OBVIOUS
<1>2. /\ assistant[c] # None /\ assistant[c].status = "pending" /\ assistant' = [assistant EXCEPT ![c] = k]
      /\ UNCHANGED <<clock, rows, licence, job, paidFrom>>
    BY <1>1 DEF Mcp!Deny
<1>3. assistant[c] \in Assistants /\ ~assistant[c].held
    BY <1>2, ConnectionIs
<1>4. /\ k \in Assistants /\ ~k.held /\ k.seat = assistant[c].seat /\ k.device = assistant[c].device
      /\ k.bound = assistant[c].bound
    BY <1>1, <1>3 DEF Assistants
<1>5. clock' \in Nat /\ clock' >= clock
    BY <1>2, ConnectionIs
<1> QED
    BY <1>2, <1>4, <1>5, ConnectionTurns

LEMMA KeptByPoll ==
    ASSUME McpInv, Mcp!McpAssumption, NEW c \in Connections, Mcp!Poll(c)
    PROVE  McpKept
<1>1. PICK k : k = [assistant[c] EXCEPT !.held = TRUE]
    OBVIOUS
<1>2. /\ assistant[c] # None /\ assistant[c].status = "approved" /\ assistant' = [assistant EXCEPT ![c] = k]
      /\ UNCHANGED <<clock, rows, licence, job>> /\ paidFrom' = Mcp!Synced(paidFrom)
    BY <1>1 DEF Mcp!Poll
<1>3. assistant[c] \in Assistants
    BY <1>2, ConnectionIs
<1>4. /\ k \in Assistants /\ k.status = "approved" /\ k.seat = assistant[c].seat /\ k.device = assistant[c].device
      /\ k.bound = assistant[c].bound
    BY <1>1, <1>2, <1>3 DEF Assistants
<1>5. clock' \in Nat /\ clock' >= clock
    BY <1>2, ConnectionIs
<1> QED
    BY <1>2, <1>4, <1>5, ConnectionTurns

LEMMA KeptByRevoke ==
    ASSUME McpInv, Mcp!McpAssumption, NEW c \in Connections, Mcp!Revoke(c)
    PROVE  McpKept
<1>1. PICK k : k = [assistant[c] EXCEPT !.status = "revoked"]
    OBVIOUS
<1>2. /\ assistant[c] # None /\ assistant' = [assistant EXCEPT ![c] = k]
      /\ UNCHANGED <<clock, rows, licence, job, paidFrom>>
    BY <1>1 DEF Mcp!Revoke
<1>3. assistant[c] \in Assistants
    BY <1>2, ConnectionIs
<1>4. /\ k \in Assistants /\ k.status = "revoked" /\ k.seat = assistant[c].seat /\ k.device = assistant[c].device
      /\ k.bound = assistant[c].bound
    BY <1>1, <1>3 DEF Assistants
<1>5. clock' \in Nat /\ clock' >= clock
    BY <1>2, ConnectionIs
<1> QED
    BY <1>2, <1>4, <1>5, ConnectionTurns

LEMMA KeptByPairing ==
    ASSUME McpInv, Mcp!McpAssumption, NEW c \in Connections, Mcp!PairingExpires(c)
    PROVE  McpKept
<1>1. PICK k : k = [assistant[c] EXCEPT !.open = FALSE]
    OBVIOUS
<1>2. /\ assistant[c] # None /\ assistant' = [assistant EXCEPT ![c] = k]
      /\ UNCHANGED <<clock, rows, licence, job, paidFrom>>
    BY <1>1 DEF Mcp!PairingExpires
<1>3. assistant[c] \in Assistants
    BY <1>2, ConnectionIs
<1>4. /\ k \in Assistants /\ k.status = assistant[c].status /\ k.held = assistant[c].held
      /\ k.seat = assistant[c].seat /\ k.device = assistant[c].device /\ k.bound = assistant[c].bound
    BY <1>1, <1>3 DEF Assistants
<1>5. clock' \in Nat /\ clock' >= clock /\ (k.held => k.status \in {"approved", "revoked"})
    BY <1>2, <1>4, ConnectionIs
<1> QED
    BY <1>2, <1>4, <1>5, ConnectionTurns

LEMMA KeptByToken ==
    ASSUME McpInv, Mcp!McpAssumption, NEW c \in Connections, Mcp!TokenExpires(c)
    PROVE  McpKept
<1>1. PICK k : k = [assistant[c] EXCEPT !.live = FALSE]
    OBVIOUS
<1>2. /\ assistant[c] # None /\ assistant' = [assistant EXCEPT ![c] = k]
      /\ UNCHANGED <<clock, rows, licence, job, paidFrom>>
    BY <1>1 DEF Mcp!TokenExpires
<1>3. assistant[c] \in Assistants
    BY <1>2, ConnectionIs
<1>4. /\ k \in Assistants /\ k.status = assistant[c].status /\ k.held = assistant[c].held
      /\ k.seat = assistant[c].seat /\ k.device = assistant[c].device /\ k.bound = assistant[c].bound
    BY <1>1, <1>3 DEF Assistants
<1>5. clock' \in Nat /\ clock' >= clock /\ (k.held => k.status \in {"approved", "revoked"})
    BY <1>2, <1>4, ConnectionIs
<1> QED
    BY <1>2, <1>4, <1>5, ConnectionTurns

LEMMA KeptByApprove ==
    ASSUME McpInv, Mcp!McpAssumption, NEW c \in Connections, Mcp!Approve(c)
    PROVE  McpKept
<1>1. PICK k : k = [assistant[c] EXCEPT !.status = "approved", !.live = TRUE, !.approved = clock + 2]
    OBVIOUS
<1>2. PICK t \in Mcp!Moments :
        /\ assistant[c] # None /\ assistant[c].status = "pending"
        /\ licence => Mcp!Admits(c, clock + 2, t)
        /\ assistant' = [assistant EXCEPT ![c] = IF licence THEN Mcp!Bound(k, t) ELSE k]
        /\ rows' = IF licence THEN Mcp!RowsAfter(c, t) ELSE rows
        /\ clock' = clock + 2 /\ paidFrom' = Mcp!Synced(paidFrom) /\ UNCHANGED <<licence, job>>
    BY <1>1 DEF Mcp!Approve
<1>3. clock \in Nat /\ assistant[c] \in Assistants /\ assistant \in [Connections -> Assistants \cup {None}]
    BY <1>2, ConnectionIs
<1>4. clock + 2 \in Nat /\ clock' \in Nat /\ clock' >= clock
    BY <1>2, <1>3
<1>5. /\ k \in Assistants /\ k.status = "approved" /\ k.seat = assistant[c].seat /\ k.device = assistant[c].device
      /\ k.bound = assistant[c].bound /\ k.approved = clock + 2
  <2>1. PICK e : e = [assistant[c] EXCEPT !.status = "approved", !.live = TRUE]
      OBVIOUS
  <2>2. /\ e \in Assistants /\ e.status = "approved" /\ e.seat = assistant[c].seat /\ e.device = assistant[c].device
        /\ e.bound = assistant[c].bound
      BY <1>3, <2>1 DEF Assistants
  <2>3. k = [e EXCEPT !.approved = clock + 2]
      BY <1>1, <2>1
  <2> QED
      BY <1>4, <2>2, <2>3 DEF Assistants
<1>6. CASE ~licence
  <2>1. assistant' = [assistant EXCEPT ![c] = k] /\ rows' = rows
      BY <1>2, <1>6
  <2> QED
      BY <1>2, <1>4, <1>5, <2>1, ConnectionTurns
<1>7. CASE licence
  <2>1. /\ Mcp!Admits(c, k.approved, t) /\ assistant' = [assistant EXCEPT ![c] = Mcp!Bound(k, t)]
        /\ rows' = Mcp!RowsAfter(c, t)
      BY <1>2, <1>5, <1>7
  <2>2. t \in Nat /\ (~Waits => t = clock + 2)
      BY <1>3 DEF Mcp!Moments
  <2>3. ~Waits => t > clock /\ (k.seat = 0 => clock' = t)
      BY <1>2, <1>3, <2>2
  <2>4. /\ rows' \in Seq(DeviceRows) /\ assistant' \in [Connections -> Assistants \cup {None}]
        /\ \A x \in Connections : assistant'[x] # None =>
             assistant'[x].seat <= Len(rows') /\ (assistant'[x].held => assistant'[x].status \in {"approved", "revoked"})
        /\ ~Waits => RowsOK(rows', clock') /\ BindingsOK' /\ NewRowsFair
      BY <1>2, <1>4, <1>5, <2>1, <2>2, <2>3, Seats
  <2>5. /\ paidFrom' \in [Requests -> {None, "reserved"} \cup Mcp!Ends]
        /\ \A r \in Requests : AgreeAt(job[r], paidFrom'[r])
      BY <1>2, SyncedAgrees
  <2>6. McpTypes'
      BY <1>2, <1>4, <2>4, <2>5 DEF McpTypes, McpInv
  <2>7. JobsOK'
      BY <1>2, <2>5 DEF JobsOK
  <2>8. OwnJobsOnly
      BY <1>2, <1>3, NobodySettles
  <2> QED
      BY <2>4, <2>6, <2>7, <2>8 DEF McpKept, McpInv
<1> QED
    BY <1>6, <1>7

\* The jobs and their reservations change, and nothing else.
LEMMA JobsTurn ==
    ASSUME McpInv, UNCHANGED <<clock, assistant, rows, licence>>, job' \in [Requests -> Jobs \cup {None}],
           paidFrom' \in [Requests -> {None, "reserved"} \cup Mcp!Ends], JobsOK'
    PROVE  McpInv' /\ NewRowsFair
<1>1. McpTypes'
    BY DEF McpInv, McpTypes
<1>2. ~Waits => RowsOK(rows', clock') /\ BindingsOK'
    BY DEF McpInv, BindingsOK
<1>3. NewRowsFair
    BY DEF NewRowsFair
<1> QED
    BY <1>1, <1>2, <1>3 DEF McpInv

\* What a job may be and what its reservation says of it.
LEMMA JobIs ==
    ASSUME McpInv, Mcp!McpAssumption, NEW r \in Requests
    PROVE  /\ job \in [Requests -> Jobs \cup {None}] /\ AgreeAt(job[r], paidFrom[r])
           /\ job[r] # None => job[r] \in Jobs
           /\ DOMAIN job = Requests /\ DOMAIN assistant = Connections
    BY DEF McpInv, McpTypes, JobsOK

LEMMA KeptByJobExpires ==
    ASSUME McpInv, Mcp!McpAssumption, NEW r \in Requests, Mcp!JobExpires(r)
    PROVE  McpKept
<1>1. PICK k : k = [job[r] EXCEPT !.late = TRUE]
    OBVIOUS
<1>2. job[r] # None /\ job' = [job EXCEPT ![r] = k] /\ UNCHANGED <<clock, assistant, rows, licence, paidFrom>>
    BY <1>1 DEF Mcp!JobExpires
<1>3. job[r] \in Jobs /\ job \in [Requests -> Jobs \cup {None}]
    BY <1>2, JobIs
<1>4. k \in Jobs /\ k.status = job[r].status /\ k.cost = job[r].cost /\ k.by = job[r].by
    BY <1>1, <1>3 DEF Jobs
<1>5. job'[r] = k /\ job' \in [Requests -> Jobs \cup {None}] /\ \A x \in Requests : x # r => job'[x] = job[x]
    BY <1>2, <1>3, <1>4
<1>6. JobsOK'
  <2>1. AgreeAt(job[r], paidFrom[r])
      BY JobIs
  <2>2. k # None
      BY <1>4 DEF Jobs, Mcp!McpAssumption
  <2>3. AgreeAt(k, paidFrom[r])
      BY <1>2, <1>4, <2>1, <2>2 DEF AgreeAt
  <2>4. \A x \in Requests : AgreeAt(job'[x], paidFrom'[x])
      BY <1>2, <1>5, <2>3 DEF McpInv, JobsOK
  <2> QED
      BY <2>4 DEF JobsOK
<1>7. McpInv' /\ NewRowsFair
    BY <1>2, <1>5, <1>6, JobsTurn DEF McpInv, McpTypes
<1>8. OwnJobsOnly
  <2>1. \A x \in DOMAIN job : job[x] # None => job'[x].by = job[x].by
      BY <1>3, <1>4, <1>5
  <2> QED
      BY <2>1, JobIs, NobodySettles
<1> QED
    BY <1>7, <1>8 DEF McpKept

\* What a settlement writes to the job and to its reservation.
LEMMA SettledAgrees ==
    ASSUME McpInv, Mcp!McpAssumption, NEW r \in Requests, NEW l \in [Requests -> {None, "reserved"} \cup Mcp!Ends],
           AgreeAt(job[r], l[r]), job[r] # None, job[r].status = "reserved", NEW outcome \in {"committed", "released"},
           NEW k \in Jobs, k.cost = job[r].cost, k.status = Mcp!Settled(r, l, outcome), NEW m,
           m = IF job[r].cost = 0 THEN l[r] ELSE IF l[r] = "reserved" THEN outcome ELSE l[r]
    PROVE  AgreeAt(k, m) /\ m \in {None, "reserved"} \cup Mcp!Ends
<1>1. job[r].cost \in {0, 1} /\ k # None /\ outcome \in Mcp!Ends /\ l[r] \in {None, "reserved"} \cup Mcp!Ends
    BY JobIs DEF Jobs, Mcp!Ends, Mcp!McpAssumption
<1>2. None # "reserved" /\ None \notin Mcp!Ends /\ "reserved" \notin Mcp!Ends
    BY DEF Mcp!McpAssumption, Mcp!Ends
<1>3. CASE job[r].cost = 0
    BY <1>1, <1>3 DEF AgreeAt
<1>4. CASE job[r].cost = 1
  <2>1. l[r] \in {"reserved", "expired"} /\ l[r] # None
      BY <1>4 DEF AgreeAt
  <2>2. m = (IF l[r] = "reserved" THEN outcome ELSE l[r]) /\ k.status = m
      BY <1>4 DEF Mcp!Settled
  <2>3. m # None /\ m # "reserved" /\ m \in Mcp!Ends
      BY <1>1, <1>2, <2>1, <2>2
  <2> QED
      BY <1>1, <1>4, <2>2, <2>3 DEF AgreeAt
<1> QED
    BY <1>1, <1>3, <1>4

LEMMA KeptByFinalize ==
    ASSUME McpInv, Mcp!McpAssumption, NEW c \in Connections, NEW r \in Requests, NEW outcome \in {"committed", "released"},
           Mcp!Finalize(c, r, outcome)
    PROVE  McpKept
<1>1. PICK l : l = Mcp!Synced(paidFrom)
    OBVIOUS
<1>2. /\ l \in [Requests -> {None, "reserved"} \cup Mcp!Ends] /\ \A x \in Requests : AgreeAt(job[x], l[x])
      /\ paidFrom \in [Requests -> {None, "reserved"} \cup Mcp!Ends]
      /\ \A x \in Requests : AgreeAt(job[x], paidFrom[x])
    BY <1>1, SyncedAgrees DEF McpInv, McpTypes, JobsOK
<1>3. /\ job[r] # None /\ Mcp!MaySettle(c, r) /\ UNCHANGED <<clock, assistant, rows, licence>>
    BY DEF Mcp!Finalize
<1>4. CASE job[r].status # "reserved"
  <2>1. job' = job /\ (paidFrom' = l \/ paidFrom' = paidFrom)
      BY <1>1, <1>4 DEF Mcp!Finalize
  <2>2. job' \in [Requests -> Jobs \cup {None}] /\ paidFrom' \in [Requests -> {None, "reserved"} \cup Mcp!Ends] /\ JobsOK'
      BY <1>2, <2>1, JobIs DEF JobsOK
  <2>3. OwnJobsOnly
      BY <2>1, JobIs, NobodySettles
  <2> QED
      BY <1>3, <2>2, <2>3, JobsTurn DEF McpKept
<1>5. CASE job[r].status = "reserved"
  <2>1. PICK s : s = Mcp!Settled(r, l, outcome)
      OBVIOUS
  <2>2. PICK k : k = [job[r] EXCEPT !.status = s, !.by = c]
      OBVIOUS
  <2>3. /\ job' = [job EXCEPT ![r].status = s, ![r].by = c]
        /\ paidFrom' = IF job[r].cost = 0 THEN (IF Mcp!Working(c) THEN l ELSE paidFrom)
                       ELSE [l EXCEPT ![r] = IF l[r] = "reserved" THEN outcome ELSE l[r]]
      BY <1>1, <1>5, <2>1 DEF Mcp!Finalize
  <2>4. job[r] \in Jobs /\ job \in [Requests -> Jobs \cup {None}] /\ job[r].cost \in {0, 1}
      BY <1>3, JobIs DEF Jobs
  <2>5. job' = [job EXCEPT ![r] = k]
      BY <2>2, <2>3, <2>4
  <2>6. s \in {"reserved"} \cup Mcp!Ends
    <3>1. l[r] \in {None, "reserved"} \cup Mcp!Ends /\ outcome \in Mcp!Ends /\ "expired" \in Mcp!Ends
        BY <1>2 DEF Mcp!Ends
    <3>2. CASE job[r].cost = 0
        BY <2>1, <3>1, <3>2 DEF Mcp!Settled
    <3>3. CASE job[r].cost = 1
      <4>1. l[r] # None
          BY <1>2, <1>3, <3>3 DEF AgreeAt
      <4> QED
          BY <2>1, <3>1, <3>3, <4>1 DEF Mcp!Settled
    <3> QED
        BY <2>4, <3>2, <3>3
  <2>7. k \in Jobs /\ k.status = s /\ k.cost = job[r].cost /\ k.by = c /\ k # None
      BY <2>2, <2>4, <2>6 DEF Jobs, Mcp!McpAssumption
  <2>8. job'[r] = k /\ job' \in [Requests -> Jobs \cup {None}] /\ \A x \in Requests : x # r => job'[x] = job[x]
      BY <2>4, <2>5, <2>7
  <2>9. PICK m : m = IF job[r].cost = 0 THEN l[r] ELSE IF l[r] = "reserved" THEN outcome ELSE l[r]
      OBVIOUS
  <2>10. AgreeAt(k, m) /\ m \in {None, "reserved"} \cup Mcp!Ends
      BY <1>2, <1>3, <1>5, <2>1, <2>7, <2>9, SettledAgrees
  <2>11. paidFrom' \in [Requests -> {None, "reserved"} \cup Mcp!Ends] /\ JobsOK'
    <3>1. CASE job[r].cost = 0
      <4>1. paidFrom' = l \/ paidFrom' = paidFrom
          BY <2>3, <3>1
      <4>2. AgreeAt(job[r], paidFrom[r]) /\ AgreeAt(job[r], l[r])
          BY <1>2
      <4>3. AgreeAt(k, paidFrom[r]) /\ AgreeAt(k, l[r])
          BY <2>7, <3>1, <4>2 DEF AgreeAt
      <4>4. \A x \in Requests : AgreeAt(job'[x], paidFrom'[x])
          BY <1>2, <2>8, <4>1, <4>3
      <4> QED
          BY <1>2, <4>1, <4>4 DEF JobsOK
    <3>2. CASE job[r].cost # 0
      <4>1. paidFrom' = [l EXCEPT ![r] = m]
          BY <2>3, <2>9, <3>2
      <4>2. /\ paidFrom' \in [Requests -> {None, "reserved"} \cup Mcp!Ends] /\ paidFrom'[r] = m
            /\ \A x \in Requests : x # r => paidFrom'[x] = l[x]
          BY <1>2, <2>10, <4>1
      <4>3. \A x \in Requests : AgreeAt(job'[x], paidFrom'[x])
          BY <1>2, <2>8, <2>10, <4>2
      <4> QED
          BY <4>2, <4>3 DEF JobsOK
    <3> QED
        BY <3>1, <3>2
  <2>12. OwnJobsOnly
    <3>1. SUFFICES ASSUME NEW x \in DOMAIN job, NEW y \in DOMAIN assistant, job[x] # None, job[x].by = None,
                          job'[x].by = y, ~Mcp!Working(y)
                   PROVE  job[x].connection = y
        BY DEF OwnJobsOnly
    <3>2. x \in Requests /\ y \in Connections /\ y # None
        BY <3>1, JobIs DEF Mcp!McpAssumption
    <3>3. x = r /\ y = c
        BY <2>7, <2>8, <3>1, <3>2
    <3> QED
        BY <1>3, <3>1, <3>3 DEF Mcp!MaySettle
  <2> QED
      BY <1>3, <2>8, <2>11, <2>12, JobsTurn DEF McpKept
<1> QED
    BY <1>4, <1>5

\* What a reservation writes to the jobs and to the ledger.
LEMMA ReservedAgrees ==
    ASSUME McpInv, Mcp!McpAssumption, NEW c \in Connections, NEW r \in Requests, NEW print \in Prints, NEW cost \in {0, 1},
           \/ paidFrom' = Mcp!Synced(paidFrom) /\ job' = job
           \/ /\ job[r] = None
              /\ job' = [job EXCEPT ![r] = [connection |-> c, print |-> print, cost |-> cost,
                                            status |-> "reserved", late |-> FALSE, by |-> None]]
              /\ paidFrom' = IF cost = 0 THEN Mcp!Synced(paidFrom) ELSE [Mcp!Synced(paidFrom) EXCEPT ![r] = "reserved"]
    PROVE  /\ job' \in [Requests -> Jobs \cup {None}]
           /\ paidFrom' \in [Requests -> {None, "reserved"} \cup Mcp!Ends] /\ JobsOK' /\ OwnJobsOnly
<1>1. PICK l : l = Mcp!Synced(paidFrom)
    OBVIOUS
<1>2. l \in [Requests -> {None, "reserved"} \cup Mcp!Ends] /\ \A x \in Requests : AgreeAt(job[x], l[x])
    BY <1>1, SyncedAgrees
<1>3. job \in [Requests -> Jobs \cup {None}]
    BY JobIs
<1>4. CASE paidFrom' = l /\ job' = job
  <2>1. OwnJobsOnly
      BY <1>4, JobIs, NobodySettles
  <2> QED
      BY <1>2, <1>3, <1>4, <2>1 DEF JobsOK
<1>5. CASE ~(paidFrom' = l /\ job' = job)
  <2>1. PICK k : k = [connection |-> c, print |-> print, cost |-> cost, status |-> "reserved", late |-> FALSE, by |-> None]
      OBVIOUS
  <2>2. /\ job[r] = None /\ job' = [job EXCEPT ![r] = k]
        /\ paidFrom' = IF cost = 0 THEN l ELSE [l EXCEPT ![r] = "reserved"]
      BY <1>1, <1>5, <2>1
  <2>3. k \in Jobs /\ k.cost = cost /\ k.status = "reserved" /\ k # None
    <3>1. k \in Jobs /\ k.cost = cost /\ k.status = "reserved"
        BY <2>1 DEF Jobs
    <3> QED
        BY <3>1 DEF Jobs, Mcp!McpAssumption
  <2>4. job'[r] = k /\ job' \in [Requests -> Jobs \cup {None}] /\ \A x \in Requests : x # r => job'[x] = job[x]
      BY <1>3, <2>2, <2>3
  <2>5. l[r] = None
      BY <1>2, <2>2 DEF AgreeAt
  <2>6. "reserved" # None
      BY DEF Mcp!McpAssumption
  <2>7. CASE cost = 0
    <3>1. paidFrom' = l
        BY <2>2, <2>7
    <3>2. AgreeAt(k, l[r])
        BY <2>3, <2>5, <2>7 DEF AgreeAt
    <3>3. \A x \in Requests : AgreeAt(job'[x], paidFrom'[x])
        BY <1>2, <2>4, <3>1, <3>2
    <3>4. paidFrom' \in [Requests -> {None, "reserved"} \cup Mcp!Ends] /\ JobsOK'
        BY <1>2, <3>1, <3>3 DEF JobsOK
    <3>5. OwnJobsOnly
      <4>1. \A x \in DOMAIN job : job[x] # None => job'[x].by = job[x].by
          BY <1>3, <2>2, <2>4
      <4> QED
          BY <4>1, JobIs, NobodySettles
    <3> QED
        BY <2>4, <3>4, <3>5
  <2>8. CASE cost = 1
    <3>1. paidFrom' = [l EXCEPT ![r] = "reserved"]
        BY <2>2, <2>8
    <3>2. /\ paidFrom' \in [Requests -> {None, "reserved"} \cup Mcp!Ends] /\ paidFrom'[r] = "reserved"
          /\ \A x \in Requests : x # r => paidFrom'[x] = l[x]
        BY <1>2, <3>1
    <3>3. AgreeAt(k, "reserved")
        BY <2>3, <2>6, <2>8 DEF AgreeAt
    <3>4. \A x \in Requests : AgreeAt(job'[x], paidFrom'[x])
        BY <1>2, <2>4, <3>2, <3>3
    <3>5. JobsOK'
        BY <3>4 DEF JobsOK
    <3>6. OwnJobsOnly
      <4>1. \A x \in DOMAIN job : job[x] # None => job'[x].by = job[x].by
          BY <1>3, <2>2, <2>4
      <4> QED
          BY <4>1, JobIs, NobodySettles
    <3> QED
        BY <2>4, <3>2, <3>5, <3>6
  <2> QED
      BY <2>7, <2>8
<1> QED
    BY <1>4, <1>5

LEMMA KeptByReserve ==
    ASSUME McpInv, Mcp!McpAssumption, NEW c \in Connections, NEW r \in Requests, NEW print \in Prints,
           Mcp!Reserve(c, r, print)
    PROVE  McpKept
<1>1. PICK cost : cost = IF licence THEN 0 ELSE 1
    OBVIOUS
<1>2. PICK over \in BOOLEAN : over = \/ job[r] # None /\ (job[r].status # "reserved" \/ job[r].late)
                                     \/ ~licence /\ job[r] = None /\ Mcp!Available(Mcp!Synced(paidFrom)) = 0
    OBVIOUS
<1>3. PICK t \in Mcp!Moments :
        /\ assistant[c] # None
        /\ IF over
           THEN paidFrom' = Mcp!Synced(paidFrom) /\ UNCHANGED <<clock, assistant, rows, job>>
           ELSE /\ IF licence
                   THEN /\ Mcp!Admits(c, assistant[c].approved, t)
                        /\ assistant' = [assistant EXCEPT ![c] = Mcp!Bound(assistant[c], t)]
                        /\ rows' = Mcp!RowsAfter(c, t)
                        /\ IF assistant[c].seat # 0 THEN t = clock + 2 /\ UNCHANGED clock ELSE Mcp!Passed(t)
                   ELSE t = clock + 2 /\ UNCHANGED <<clock, assistant, rows>>
                /\ IF job[r] # None THEN paidFrom' = Mcp!Synced(paidFrom) /\ UNCHANGED job
                   ELSE /\ job' = [job EXCEPT ![r] = [connection |-> c, print |-> print, cost |-> cost,
                                                      status |-> "reserved", late |-> FALSE, by |-> None]]
                        /\ paidFrom' = IF cost = 0 THEN Mcp!Synced(paidFrom)
                                       ELSE [Mcp!Synced(paidFrom) EXCEPT ![r] = "reserved"]
        /\ UNCHANGED licence
    BY <1>1, <1>2 DEF Mcp!Reserve, Mcp!Working
<1>4. /\ job' \in [Requests -> Jobs \cup {None}]
      /\ paidFrom' \in [Requests -> {None, "reserved"} \cup Mcp!Ends] /\ JobsOK' /\ OwnJobsOnly
  <2>1. cost \in {0, 1}
      BY <1>1
  <2>2. \/ paidFrom' = Mcp!Synced(paidFrom) /\ job' = job
        \/ /\ job[r] = None
           /\ job' = [job EXCEPT ![r] = [connection |-> c, print |-> print, cost |-> cost,
                                         status |-> "reserved", late |-> FALSE, by |-> None]]
           /\ paidFrom' = IF cost = 0 THEN Mcp!Synced(paidFrom) ELSE [Mcp!Synced(paidFrom) EXCEPT ![r] = "reserved"]
      BY <1>3
  <2> QED
      BY <2>1, <2>2, ReservedAgrees
<1>5. CASE over \/ ~licence
  <2>1. UNCHANGED <<clock, assistant, rows, licence>>
      BY <1>3, <1>5
  <2> QED
      BY <1>4, <2>1, JobsTurn DEF McpKept
<1>6. CASE ~over /\ licence
  <2>1. PICK k : k = assistant[c]
      OBVIOUS
  <2>2. k \in Assistants /\ (k.held => k.status \in {"approved", "revoked"}) /\ clock \in Nat
      BY <1>3, <2>1, ConnectionIs
  <2>3. /\ Mcp!Admits(c, k.approved, t) /\ assistant' = [assistant EXCEPT ![c] = Mcp!Bound(k, t)]
        /\ rows' = Mcp!RowsAfter(c, t) /\ licence' = licence
        /\ IF k.seat # 0 THEN t = clock + 2 /\ clock' = clock ELSE clock' = IF t > clock THEN t ELSE clock
      BY <1>3, <1>6, <2>1 DEF Mcp!Passed
  <2>4. t \in Nat /\ (~Waits => t = clock + 2)
      BY <2>2 DEF Mcp!Moments
  <2>5. clock' \in Nat /\ clock' >= clock /\ (~Waits => t > clock /\ (k.seat = 0 => clock' = t))
      BY <2>2, <2>3, <2>4
  <2>6. /\ rows' \in Seq(DeviceRows) /\ assistant' \in [Connections -> Assistants \cup {None}]
        /\ \A x \in Connections : assistant'[x] # None =>
             assistant'[x].seat <= Len(rows') /\ (assistant'[x].held => assistant'[x].status \in {"approved", "revoked"})
        /\ ~Waits => RowsOK(rows', clock') /\ BindingsOK' /\ NewRowsFair
      BY <1>3, <2>1, <2>2, <2>3, <2>4, <2>5, Seats
  <2>7. McpTypes'
      BY <1>4, <2>3, <2>5, <2>6 DEF McpTypes, McpInv
  <2> QED
      BY <1>4, <2>6, <2>7 DEF McpKept, McpInv
<1> QED
    BY <1>5, <1>6

LEMMA McpBegins ==
    ASSUME Mcp!McpAssumption, Mcp!Init
    PROVE  McpInv
<1>1. /\ clock = 0 /\ rows = <<>> /\ licence \in BOOLEAN /\ assistant = [c \in Connections |-> None]
      /\ job = [r \in Requests |-> None] /\ paidFrom = [r \in Requests |-> None]
    BY DEF Mcp!Init
<1>2. \A r \in Requests : AgreeAt(job[r], paidFrom[r])
    BY <1>1 DEF AgreeAt
<1> QED
    BY <1>1, <1>2 DEF McpInv, McpTypes, JobsOK, RowsOK, BindingsOK

LEMMA McpSteps ==
    ASSUME McpInv, Mcp!McpAssumption, [Mcp!Next]_(Mcp!vars)
    PROVE  McpKept
<1>1. CASE UNCHANGED Mcp!vars
  <2>1. UNCHANGED <<clock, assistant, rows, licence, job, paidFrom>>
      BY <1>1 DEF Mcp!vars
  <2>2. McpInv' /\ NewRowsFair
      BY <2>1, JobsTurn DEF McpInv, McpTypes, JobsOK
  <2>3. OwnJobsOnly
      BY <2>1, NobodySettles DEF McpInv, McpTypes
  <2> QED
      BY <2>2, <2>3 DEF McpKept
<1>2. CASE Mcp!LicenceTurns
    BY <1>2, KeptByLicence
<1>3. CASE Mcp!OwnerDeactivates
    BY <1>3, KeptByOwner
<1>4. ASSUME NEW d \in Devices, Mcp!PluginSeats(d) \/ Mcp!PluginMoves(d) PROVE McpKept
    BY <1>4, KeptByPluginSeats, KeptByPluginMoves
<1>5. ASSUME NEW r \in Requests, Mcp!JobExpires(r) PROVE McpKept
    BY <1>5, KeptByJobExpires
<1>6. ASSUME NEW c \in Connections, NEW d \in Devices, Mcp!Start(c, d) PROVE McpKept
    BY <1>6, KeptByStart
<1>7. ASSUME NEW c \in Connections, Mcp!Approve(c) \/ Mcp!Poll(c) \/ Mcp!Revoke(c) PROVE McpKept
    BY <1>7, KeptByApprove, KeptByPoll, KeptByRevoke
<1>8. ASSUME NEW c \in Connections, Mcp!Deny(c) \/ Mcp!PairingExpires(c) \/ Mcp!TokenExpires(c) PROVE McpKept
    BY <1>8, KeptByDeny, KeptByPairing, KeptByToken
<1>9. ASSUME NEW c \in Connections, NEW r \in Requests, NEW print \in Prints, Mcp!Reserve(c, r, print) PROVE McpKept
    BY <1>9, KeptByReserve
<1>10. ASSUME NEW c \in Connections, NEW r \in Requests, NEW outcome \in {"committed", "released"},
              Mcp!Finalize(c, r, outcome)
       PROVE  McpKept
    BY <1>10, KeptByFinalize
<1> QED
    BY <1>1, <1>2, <1>3, <1>4, <1>5, <1>6, <1>7, <1>8, <1>9, <1>10 DEF Mcp!Next

\* Whoever settles a job and however late, it ends as its reservation in the ledger
\* does, a job of a licence has none, and a connection that was revoked or has
\* expired settles its own jobs only.  Where a transaction is stamped with its own
\* time, a connection works as long as its seat stands, and a device that the owner
\* removed comes back only by a connection that was approved afterwards.
THEOREM AssistantsServed ==
    ASSUME Mcp!McpAssumption
    PROVE  Mcp!Spec => /\ [](Mcp!TypeOK /\ Mcp!JobsAgreeWithLedger) /\ Mcp!EndedSettlesItsOwn
                       /\ ~Waits => []Mcp!SeatedKeepsWorking /\ Mcp!RemovedStaysRemoved
<1>1. McpInv => Mcp!TypeOK
  <2>1. SUFFICES ASSUME McpInv PROVE Mcp!TypeOK
      OBVIOUS
  <2>2. ASSUME NEW c \in Connections, assistant[c] # None
        PROVE  /\ assistant[c].status \in {"pending", "approved", "denied", "revoked"}
               /\ assistant[c].seat \in 0..Len(rows)
               /\ assistant[c].held => assistant[c].status \in {"approved", "revoked"}
    <3>1. /\ assistant[c] \in Assistants /\ assistant[c].seat <= Len(rows) /\ rows \in Seq(DeviceRows)
          /\ assistant[c].held => assistant[c].status \in {"approved", "revoked"}
        BY <2>1, <2>2 DEF McpInv, McpTypes
    <3>2. Len(rows) \in Nat /\ assistant[c].seat \in Nat
        BY <3>1 DEF Assistants
    <3> QED
        BY <3>1, <3>2 DEF Assistants
  <2>3. ASSUME NEW r \in Requests, job[r] # None
        PROVE  job[r].status \in {"reserved"} \cup Mcp!Ends /\ job[r].cost \in {0, 1}
    <3>1. job[r] \in Jobs
        BY <2>1, <2>3 DEF McpInv, McpTypes
    <3> QED
        BY <3>1 DEF Jobs
  <2>4. \A r \in Requests : paidFrom[r] \in {None, "reserved"} \cup Mcp!Ends
      BY <2>1 DEF McpInv, McpTypes
  <2> QED
      BY <2>2, <2>3, <2>4 DEF Mcp!TypeOK
<1>2. McpInv => Mcp!JobsAgreeWithLedger
    BY DEF McpInv, McpTypes, JobsOK, AgreeAt, Mcp!JobsAgreeWithLedger
<1>3. McpInv /\ ~Waits => Mcp!SeatedKeepsWorking
    BY SeatKept DEF McpInv, McpTypes, Mcp!SeatedKeepsWorking
<1>4. McpInv /\ [Mcp!Next]_(Mcp!vars) => McpInv'
    BY McpSteps DEF McpKept
<1>5. McpInv /\ [Mcp!Next]_(Mcp!vars) =>
        [\A r \in DOMAIN job : \A c \in DOMAIN assistant :
           (job[r] # None /\ job[r].by = None /\ job'[r].by = c /\ ~Mcp!Working(c)) =>
             job[r].connection = c]_(Mcp!vars)
    BY McpSteps DEF McpKept, OwnJobsOnly
<1>6. McpInv /\ ~Waits /\ [Mcp!Next]_(Mcp!vars) =>
        [\A i \in DOMAIN rows' \ DOMAIN rows :
           (Mcp!RowsOf(rows, rows'[i].device) # {} /\ assistant' # assistant) =>
             \E c \in DOMAIN assistant :
               /\ assistant'[c] # None /\ assistant'[c].seat = i
               /\ \A j \in Mcp!RowsOf(rows, rows'[i].device) : rows[j].revoked < assistant'[c].approved]_(Mcp!vars)
    BY McpSteps DEF McpKept, NewRowsFair
<1>7. Mcp!Spec => [](Mcp!TypeOK /\ Mcp!JobsAgreeWithLedger)
    BY <1>1, <1>2, <1>4, McpBegins, PTL DEF Mcp!Spec
<1>8. Mcp!Spec => Mcp!EndedSettlesItsOwn
    BY <1>4, <1>5, McpBegins, PTL DEF Mcp!Spec, Mcp!EndedSettlesItsOwn
<1>9. ASSUME ~Waits PROVE Mcp!Spec => []Mcp!SeatedKeepsWorking /\ Mcp!RemovedStaysRemoved
  <2>1. McpInv => Mcp!SeatedKeepsWorking
      BY <1>3, <1>9
  <2>2. McpInv /\ [Mcp!Next]_(Mcp!vars) =>
          [\A i \in DOMAIN rows' \ DOMAIN rows :
             (Mcp!RowsOf(rows, rows'[i].device) # {} /\ assistant' # assistant) =>
               \E c \in DOMAIN assistant :
                 /\ assistant'[c] # None /\ assistant'[c].seat = i
                 /\ \A j \in Mcp!RowsOf(rows, rows'[i].device) : rows[j].revoked < assistant'[c].approved]_(Mcp!vars)
      BY <1>6, <1>9
  <2>3. Mcp!Spec => []Mcp!SeatedKeepsWorking
      BY <1>4, <2>1, McpBegins, PTL DEF Mcp!Spec
  <2>4. Mcp!Spec => Mcp!RemovedStaysRemoved
      BY <1>4, <2>2, McpBegins, PTL DEF Mcp!Spec, Mcp!RemovedStaysRemoved
  <2> QED
      BY <2>3, <2>4
<1> QED
    BY <1>7, <1>8, <1>9
=============================================================================
