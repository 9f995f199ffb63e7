------------------------- MODULE DeviceLicenseProofs -------------------------
(***************************************************************************)
(* Proofs about DeviceLicense, for any number of devices and activations    *)
(* and under every policy mode.                                             *)
(*                                                                          *)
(* The two slots are unique, so the active rows are at most two, and of     *)
(* those and of the rows of one device there is a latest one; a seat is     *)
(* taken only by a device that has none.  A claim that will move a seat     *)
(* still finds both seats taken, or finds its own gone.  With the policy    *)
(* enforced a token is issued only to a device with a seat, and what ends   *)
(* the seat ends the device's tokens, so a live token names the row its     *)
(* device took.                                                             *)
(***************************************************************************)
EXTENDS DeviceLicense, TLAPS, FiniteSetTheorems, SequenceTheorems

-----------------------------------------------------------------------------
(* The registry and the tokens, whichever they are *)

SlotsOK(rs) ==
    \A i, j \in DOMAIN rs :
        rs[i].gone = "no" /\ rs[j].gone = "no" /\ rs[i].slot = rs[j].slot => i = j
OneSeat(rs) == \A i, j \in Active(rs) : rs[i].device = rs[j].device => i = j
HasLatest(rs) ==
    \A d \in Devices : RowsOf(rs, d) # {} =>
        \E i \in RowsOf(rs, d) : \A j \in RowsOf(rs, d) : Before(rs, j, i)
RegistryOK(rs) ==
    /\ rs \in Seq(RowType) /\ Len(rs) <= MaxRows
    /\ SlotsOK(rs) /\ OneSeat(rs) /\ HasLatest(rs)

\* Both seats are taken.
Full(rs) == \E i, j \in Active(rs) : i # j

Good(token) == ~token.revoked /\ token.refresh
TokensOK(ts) ==
    /\ ts \in Seq(TokenType) /\ Len(ts) <= MaxTokens
    /\ \A t \in DOMAIN ts : ts[t].created >= 1
    /\ \A s, t \in DOMAIN ts : Good(ts[s]) /\ Good(ts[t]) /\ ts[s].act = ts[t].act => s = t
SeatsBehind(rs, ts) ==
    Mode = "enforce" /\ Migrated = {} =>
        \A t \in DOMAIN ts : Good(ts[t]) => Bound(rs, ts[t].device)

\* No device predates the registry and no transaction waits: rows are numbered
\* as they were inserted, and a live token bears the number of its seat.
Strict == Mode = "enforce" /\ Migrated = {} /\ ~Waits
InOrder(rs, now) ==
    \A i \in DOMAIN rs :
        /\ rs[i].activated <= now
        /\ \A j \in DOMAIN rs : i < j => rs[i].activated < rs[j].activated
Registered(rs, ts) == \A t \in DOMAIN ts : RowsOf(rs, ts[t].device) # {}
NamesSeat(rs, ts) ==
    \A t \in DOMAIN ts : Good(ts[t]) =>
        \E i \in Active(rs) : rs[i].device = ts[t].device /\ ts[t].gen = i
StrictOK(rs, ts, now) ==
    Strict => InOrder(rs, now) /\ Registered(rs, ts) /\ NamesSeat(rs, ts)

(* What is under way *)

StateOK ==
    /\ clock \in Nat
    /\ act \in [Activations -> ActType]
    /\ poll \in [Activations -> PollType]
    /\ claim \in [Activations -> ClaimType]
    /\ license \in BOOLEAN
    /\ losing \subseteq 0..MaxTokens

\* A claim that will replace a row that is still active: both seats are taken,
\* this row was the last to be, and neither is the claim's own device's.
ClaimsOK ==
    \A a \in Activations :
        /\ claim[a].stage # "idle" => act[a].device \in Devices
        /\ claim[a].prior <= Len(rows)
        /\ claim[a].stage \in {"decided", "claimed"} /\ claim[a].prior \in Active(rows) =>
             /\ Full(rows) /\ ~Bound(rows, act[a].device)
             /\ \A j \in Active(rows) : Before(rows, j, claim[a].prior)
PollsOK ==
    \A a \in Activations :
        /\ act[a].claimed => act[a].device \in Devices
        /\ poll[a].stage # "idle" => act[a].device \in Devices
        /\ Waits /\ poll[a].stage = "checked" => poll[a].began >= 1
StrictActs ==
    Strict =>
      \A a \in Activations :
        /\ act[a].completed # 0 \/ poll[a].stage = "issued" => RowsOf(rows, act[a].device) # {}
        /\ poll[a].issuedAt # 0 => act[a].completed # 0

IInv ==
    /\ StateOK
    /\ RegistryOK(rows)
    /\ TokensOK(tokens)
    /\ SeatsBehind(rows, tokens)
    /\ StrictOK(rows, tokens, clock)
    /\ ClaimsOK
    /\ PollsOK
    /\ StrictActs

-----------------------------------------------------------------------------
(* The registry *)

LEMMA RowsFacts ==
    ASSUME NEW rs \in Seq(RowType)
    PROVE  /\ Len(rs) \in Nat /\ DOMAIN rs = 1..Len(rs)
           /\ \A i \in DOMAIN rs : rs[i] \in RowType
    BY LenProperties, ElementOfSeq

LEMMA TokensFacts ==
    ASSUME NEW ts \in Seq(TokenType)
    PROVE  /\ Len(ts) \in Nat /\ DOMAIN ts = 1..Len(ts)
           /\ \A t \in DOMAIN ts : ts[t] \in TokenType
    BY LenProperties, ElementOfSeq

\* One more row or token.
LEMMA OneMore ==
    ASSUME NEW S, NEW s \in Seq(S), NEW e \in S
    PROVE  LET n == Len(s) + 1 IN
           /\ Append(s, e) \in Seq(S) /\ Len(Append(s, e)) = n
           /\ DOMAIN Append(s, e) = DOMAIN s \cup {n}
           /\ n \notin DOMAIN s /\ Append(s, e)[n] = e
           /\ \A i \in DOMAIN s : Append(s, e)[i] = s[i]
<1>1. /\ Append(s, e) \in Seq(S) /\ Len(Append(s, e)) = Len(s) + 1
      /\ \A i \in 1..Len(s) : Append(s, e)[i] = s[i]
      /\ Append(s, e)[Len(s) + 1] = e
    BY AppendProperties
<1>2. Len(s) \in Nat /\ DOMAIN s = 1..Len(s)
    BY LenProperties
<1>3. DOMAIN Append(s, e) = 1..(Len(s) + 1)
    BY <1>1, LenProperties
<1> QED
    BY <1>1, <1>2, <1>3

\* Later row wins, the later insertion among equals.
LEMMA BeforeIsTotal ==
    ASSUME NEW rs \in Seq(RowType), NEW i \in DOMAIN rs, NEW j \in DOMAIN rs
    PROVE  /\ Before(rs, i, j) \/ Before(rs, j, i)
           /\ Before(rs, i, j) /\ Before(rs, j, i) => i = j
           /\ Before(rs, i, i)
<1>0. rs[i] \in RowType /\ rs[j] \in RowType /\ Len(rs) \in Nat /\ DOMAIN rs = 1..Len(rs)
    BY RowsFacts
<1>1. rs[i].activated \in Nat /\ rs[j].activated \in Nat /\ i \in Nat /\ j \in Nat
    BY <1>0 DEF RowType
<1> QED
    BY <1>1 DEF Before

LEMMA BeforeIsTransitive ==
    ASSUME NEW rs \in Seq(RowType), NEW i \in DOMAIN rs, NEW j \in DOMAIN rs,
           NEW k \in DOMAIN rs, Before(rs, i, j), Before(rs, j, k)
    PROVE  Before(rs, i, k)
<1>0. /\ rs[i] \in RowType /\ rs[j] \in RowType /\ rs[k] \in RowType
      /\ Len(rs) \in Nat /\ DOMAIN rs = 1..Len(rs)
    BY RowsFacts
<1>1. /\ rs[i].activated \in Nat /\ rs[j].activated \in Nat /\ rs[k].activated \in Nat
      /\ i \in Nat /\ j \in Nat /\ k \in Nat
    BY <1>0 DEF RowType
<1> QED
    BY <1>1 DEF Before

\* The code counts; two slots make that the same as asking for two rows.
LEMMA SeatsAreTwo ==
    ASSUME NEW rs \in Seq(RowType), SlotsOK(rs)
    PROVE  /\ Cardinality(Active(rs)) < MaxActive <=> ~Full(rs)
           /\ \A i, j, k \in Active(rs) : i = j \/ j = k \/ i = k
<1> DEFINE A == Active(rs)
<1>1. IsFiniteSet(A) /\ Cardinality(A) \in Nat
  <2>1. Len(rs) \in Nat /\ DOMAIN rs = 1..Len(rs)
      BY RowsFacts
  <2>2. IsFiniteSet(1..Len(rs))
      BY <2>1, FS_Interval
  <2>3. A \in SUBSET (1..Len(rs))
      BY <2>1 DEF Active
  <2> QED
      BY <2>2, <2>3, FS_Subset, FS_CardinalityType
<1>2. ASSUME Full(rs) PROVE Cardinality(A) >= 2
  <2>1. PICK i \in A, j \in A : i # j
      BY <1>2 DEF Full
  <2>2. IsFiniteSet({i}) /\ Cardinality({i}) = 1
      BY FS_Singleton
  <2> DEFINE one == {i}
  <2>3. j \notin one /\ IsFiniteSet(one) /\ Cardinality(one) = 1
      BY <2>1, <2>2
  <2> HIDE DEF one
  <2>4. IsFiniteSet(one \cup {j}) /\ Cardinality(one \cup {j}) = 2
      BY <2>3, FS_AddElement
  <2> USE DEF one
  <2>5. (one \cup {j}) \in SUBSET A
      OBVIOUS
  <2> HIDE DEF one
  <2> QED
      BY <1>1, <2>4, <2>5, FS_Subset
<1>3. ASSUME ~Full(rs) PROVE Cardinality(A) < 2
  <2>1. CASE A = {}
      BY <2>1, FS_EmptySet
  <2>2. CASE A # {}
    <3>1. PICK i \in A : TRUE
        BY <2>2
    <3>2. A = {i}
        BY <1>3, <3>1 DEF Full
    <3>3. Cardinality(A) = 1
        BY <3>2, FS_Singleton
    <3> QED
        BY <3>3
  <2> QED
      BY <2>1, <2>2
<1>4. \A i, j, k \in A : i = j \/ j = k \/ i = k
  <2> SUFFICES ASSUME NEW i \in A, NEW j \in A, NEW k \in A PROVE i = j \/ j = k \/ i = k
      OBVIOUS
  <2>1. rs[i].slot \in 1..2 /\ rs[j].slot \in 1..2 /\ rs[k].slot \in 1..2
      BY RowsFacts DEF Active, RowType, MaxActive
  <2>2. rs[i].slot = rs[j].slot \/ rs[j].slot = rs[k].slot \/ rs[i].slot = rs[k].slot
      BY <2>1
  <2> QED
      BY <2>2 DEF SlotsOK, Active
<1> QED
    BY <1>1, <1>2, <1>3, <1>4 DEF MaxActive

\* Of active rows there is a latest.
LEMMA LatestOfActive ==
    ASSUME NEW rs \in Seq(RowType), SlotsOK(rs), NEW S \in SUBSET Active(rs), S # {}
    PROVE  Latest(rs, S) \in S /\ \A j \in S : Before(rs, j, Latest(rs, S))
<1>1. PICK i \in S : TRUE
    OBVIOUS
<1>2. \A k \in S : k \in DOMAIN rs /\ Before(rs, k, k)
    BY BeforeIsTotal DEF Active
<1>3. \E m \in S : \A j \in S : Before(rs, j, m)
  <2>1. CASE S = {i}
      BY <1>2, <2>1
  <2>2. CASE S # {i}
    <3>1. PICK j \in S : j # i
        BY <1>1, <2>2
    <3>2. S = {i, j}
        BY <3>1, SeatsAreTwo
    <3>3. Before(rs, i, j) \/ Before(rs, j, i)
        BY <1>2, BeforeIsTotal
    <3> QED
        BY <1>2, <3>2, <3>3
  <2> QED
      BY <2>1, <2>2
<1> QED
    BY <1>3 DEF Latest

LEMMA LatestOfDevice ==
    ASSUME NEW rs \in Seq(RowType), HasLatest(rs), NEW d \in Devices, RowsOf(rs, d) # {}
    PROVE  Latest(rs, RowsOf(rs, d)) \in RowsOf(rs, d)
    BY DEF HasLatest, Latest

\* A device whose seat was taken from it has a latest row that says so.
LEMMA LostSeatShows ==
    ASSUME NEW rs \in Seq(RowType), HasLatest(rs), NEW d \in Devices,
           RowsOf(rs, d) # {}, ~Bound(rs, d)
    PROVE  LatestIsGone(rs, d)
    BY LatestOfDevice DEF LatestIsGone, Bound, Active, RowsOf

-----------------------------------------------------------------------------
(* A free seat is taken *)

\* Rows that stay and at most one that is new.
LEMMA AddedRow ==
    ASSUME NEW rs, RegistryOK(rs), Len(rs) < MaxRows, NEW r \in RowType,
           \A i \in Active(rs) : rs[i].device # r.device /\ rs[i].slot # r.slot
    PROVE  RegistryOK(Append(rs, r))
<1> DEFINE n == Len(rs) + 1  new == Append(rs, r)
<1>0. rs \in Seq(RowType) /\ Len(rs) \in Nat /\ MaxRows \in Nat
    BY LenProperties, DeviceAssumption DEF RegistryOK
<1>1. /\ new \in Seq(RowType) /\ Len(new) = n
      /\ DOMAIN new = DOMAIN rs \cup {n} /\ n \notin DOMAIN rs
      /\ new[n] = r /\ \A i \in DOMAIN rs : new[i] = rs[i]
    BY <1>0, OneMore
<1> HIDE DEF new
<1>2. Active(new) \subseteq Active(rs) \cup {n}
    BY <1>1 DEF Active
<1>3. SlotsOK(new)
    BY <1>1 DEF SlotsOK, RegistryOK, Active
<1>4. OneSeat(new)
    BY <1>1, <1>2 DEF OneSeat, RegistryOK, Active
<1>5. HasLatest(new)
  <2> SUFFICES ASSUME NEW d \in Devices, RowsOf(new, d) # {}
               PROVE  \E i \in RowsOf(new, d) : \A j \in RowsOf(new, d) : Before(new, j, i)
      BY DEF HasLatest
  <2>1. \A i, j \in DOMAIN rs : Before(rs, i, j) <=> Before(new, i, j)
      BY <1>1 DEF Before
  <2>2. RowsOf(new, d) = RowsOf(rs, d) \cup (IF r.device = d THEN {n} ELSE {})
      BY <1>1 DEF RowsOf
  <2>3. CASE RowsOf(rs, d) = {}
    <3>1. RowsOf(new, d) = {n}
        BY <2>2, <2>3
    <3> QED
        BY <1>1, <3>1, BeforeIsTotal
  <2>4. CASE RowsOf(rs, d) # {}
    <3>1. PICK i \in RowsOf(rs, d) : \A j \in RowsOf(rs, d) : Before(rs, j, i)
        BY <2>4 DEF RegistryOK, HasLatest
    <3>2. \A j \in RowsOf(rs, d) : Before(new, j, i) /\ j \in DOMAIN new
        BY <1>1, <2>1, <3>1 DEF RowsOf
    <3>3. CASE r.device # d
        BY <2>2, <3>1, <3>2, <3>3
    <3>4. CASE r.device = d /\ Before(new, n, i)
        BY <2>2, <3>1, <3>2, <3>4
    <3>5. CASE r.device = d /\ ~Before(new, n, i)
      <4>1. Before(new, i, n) /\ Before(new, n, n)
          BY <1>1, <3>1, <3>5, BeforeIsTotal DEF RowsOf
      <4>2. \A j \in RowsOf(rs, d) : Before(new, j, n)
          BY <1>1, <3>1, <3>2, <4>1, BeforeIsTransitive
      <4> QED
          BY <2>2, <3>5, <4>1, <4>2
    <3> QED
        BY <3>3, <3>4, <3>5
  <2> QED
      BY <2>3, <2>4
<1> QED
    BY <1>0, <1>1, <1>3, <1>4, <1>5 DEF RegistryOK, new

\* The slot that is taken was free.
LEMMA SlotIsFree ==
    ASSUME NEW rs \in Seq(RowType), SlotsOK(rs), Cardinality(Active(rs)) < MaxActive
    PROVE  FreeSlot(rs) \in 1..MaxActive /\ \A i \in Active(rs) : rs[i].slot # FreeSlot(rs)
<1>1. ~Full(rs)
    BY SeatsAreTwo
<1> QED
    BY <1>1 DEF Full, FreeSlot, MaxActive

\* The new row that a seat is.
Grown(rs, new, d, since, now) ==
    LET n == Len(rs) + 1 IN
    /\ TakesSeat(rs, d, since) /\ Len(new) = n
    /\ DOMAIN new = DOMAIN rs \cup {n} /\ n \notin DOMAIN rs
    /\ \A i \in DOMAIN rs : new[i] = rs[i]
    /\ new[n] \in RowType /\ new[n].device = d /\ new[n].gone = "no"
    /\ new[n].activated = IF since = 0 THEN now ELSE since

LEMMA SeatedFacts ==
    ASSUME NEW rs, RegistryOK(rs), NEW d \in Devices, NEW since \in Nat, NEW now \in Nat,
           Len(Seated(rs, d, since, now)) <= MaxRows
    PROVE  /\ RegistryOK(Seated(rs, d, since, now))
           /\ \/ Seated(rs, d, since, now) = rs
              \/ Grown(rs, Seated(rs, d, since, now), d, since, now)
<1> DEFINE new == Seated(rs, d, since, now)  n == Len(rs) + 1
           at == IF since = 0 THEN now ELSE since
           r == NewRow(d, FreeSlot(rs), at, None)
<1>0. rs \in Seq(RowType) /\ SlotsOK(rs) /\ Len(rs) \in Nat /\ MaxRows \in Nat
    BY LenProperties, DeviceAssumption DEF RegistryOK
<1>1. CASE ~TakesSeat(rs, d, since)
    BY <1>1 DEF Seated
<1>2. CASE TakesSeat(rs, d, since)
  <2>1. new = Append(rs, r)
      BY <1>2 DEF Seated
  <2>2. FreeSlot(rs) \in 1..MaxActive /\ \A i \in Active(rs) : rs[i].slot # FreeSlot(rs)
      BY <1>0, <1>2, SlotIsFree DEF TakesSeat
  <2>3. r \in RowType /\ r.device = d /\ r.slot = FreeSlot(rs) /\ r.gone = "no" /\ r.activated = at
      BY <2>2 DEF NewRow, RowType
  <2> HIDE DEF r
  <2>4. /\ Len(new) = n /\ DOMAIN new = DOMAIN rs \cup {n} /\ n \notin DOMAIN rs
        /\ new[n] = r /\ \A i \in DOMAIN rs : new[i] = rs[i]
      BY <1>0, <2>1, <2>3, OneMore
  <2>5. RegistryOK(new)
    <3>1. Len(rs) < MaxRows
        BY <1>0, <2>4
    <3> QED
        BY <1>2, <2>1, <2>2, <2>3, <3>1, AddedRow DEF TakesSeat
  <2>6. Grown(rs, new, d, since, now)
      BY <1>2, <2>3, <2>4 DEF Grown
  <2> QED
      BY <2>5, <2>6
<1> QED
    BY <1>1, <1>2

\* No credential takes a seat for a device that was registered before.
LEMMA NoSeatAgain ==
    ASSUME NEW rs, RegistryOK(rs), NEW d \in Devices, NEW since \in Nat \ {0}, NEW now,
           RowsOf(rs, d) # {}
    PROVE  Seated(rs, d, since, now) = rs
<1>1. Bound(rs, d) \/ LatestIsGone(rs, d)
    BY LostSeatShows DEF RegistryOK
<1> QED
    BY <1>1 DEF Seated, TakesSeat, Bound

\* A first activation takes a free seat, so that whatever an enforced policy
\* allows has one.
LEMMA AllowedIsBound ==
    ASSUME NEW rs, RegistryOK(rs), NEW d \in Devices, NEW since \in Nat, NEW now \in Nat,
           Len(Seated(rs, d, since, now)) <= MaxRows, Mode = "enforce",
           Allows(Seated(rs, d, since, now), d, since)
    PROVE  Bound(Seated(rs, d, since, now), d)
<1> DEFINE new == Seated(rs, d, since, now)
<1>1. CASE new = rs
  <2>1. TakesSeat(rs, d, since) => FALSE
    <3>1. TakesSeat(rs, d, since) => Len(new) = Len(rs) + 1
        BY OneMore DEF Seated, RegistryOK
    <3> QED
        BY <1>1, <3>1, LenProperties DEF RegistryOK
  <2> QED
      BY <1>1, <2>1 DEF Allows, TakesSeat, Bound
<1>2. CASE new # rs
  <2>1. Grown(rs, new, d, since, now)
      BY <1>2, SeatedFacts
  <2> HIDE DEF new
  <2>2. Bound(new, d)
      BY <2>1 DEF Grown, Bound, Active
  <2> QED
      BY <2>2 DEF new
<1> QED
    BY <1>1, <1>2

-----------------------------------------------------------------------------
(* The initial states *)

LEMMA InitInv == Init => IInv
<1> SUFFICES ASSUME Init PROVE IInv
    OBVIOUS
<1> DEFINE n == Cardinality(Migrated)
<1>1. n \in Nat /\ n <= MaxTokens /\ MaxTokens \in Nat /\ MaxRows \in Nat
    BY DeviceAssumption, FS_CardinalityType
<1>2. PICK f \in [Migrated -> Activations] :
        /\ \A d, e \in Migrated : f[d] = f[e] => d = e
        /\ \E order \in [1..n -> Migrated] :
             /\ {order[i] : i \in DOMAIN order} = Migrated
             /\ tokens = [i \in DOMAIN order |-> Token(f[order[i]], order[i], 0, 0, 2 * i)]
        /\ act = [a \in Activations |->
             IF \E d \in Migrated : f[d] = a
             THEN [device |-> CHOOSE d \in Migrated : f[d] = a,
                   claimed |-> TRUE, completed |-> clock]
             ELSE [device |-> None, claimed |-> FALSE, completed |-> 0]]
    BY DEF Init
<1>3. PICK order \in [1..n -> Migrated] :
        /\ {order[i] : i \in DOMAIN order} = Migrated
        /\ tokens = [i \in DOMAIN order |-> Token(f[order[i]], order[i], 0, 0, 2 * i)]
    BY <1>2
<1>4. /\ clock = 2 * n /\ rows = <<>> /\ license = TRUE /\ losing = {}
      /\ poll = [a \in Activations |-> NoPoll] /\ claim = [a \in Activations |-> NoClaim]
    BY DEF Init
<1>5. \A s, t \in 1..n : order[s] = order[t] => s = t
  <2>1. order \in Surjection(1..n, Migrated)
      BY <1>3 DEF Surjection
  <2>2. IsFiniteSet(1..n) /\ Cardinality(1..n) = n
      BY <1>1, FS_Interval
  <2>3. order \in Injection(1..n, Migrated)
      BY <2>1, <2>2, FS_Surjection
  <2> QED
      BY <2>3 DEF Injection, IsInjective
<1>6. StateOK
  <2>1. act \in [Activations -> ActType]
    <3>1. ASSUME NEW a \in Activations PROVE act[a] \in ActType
        BY <1>1, <1>2, <1>4, DeviceAssumption DEF ActType
    <3> QED
        BY <1>2, <3>1
  <2>2. poll \in [Activations -> PollType] /\ claim \in [Activations -> ClaimType]
      BY <1>1, <1>4 DEF PollType, ClaimType, NoPoll, NoClaim
  <2> QED
      BY <1>1, <1>4, <2>1, <2>2 DEF StateOK
<1>7. /\ rows \in Seq(RowType) /\ Len(rows) = 0 /\ DOMAIN rows = {}
      /\ Active(rows) = {} /\ \A d : RowsOf(rows, d) = {}
  <2>1. rows \in Seq(RowType) /\ Len(rows) = 0
      BY <1>4, EmptySeq
  <2>2. DOMAIN rows = {}
      BY <2>1, LenProperties
  <2> QED
      BY <2>1, <2>2 DEF Active, RowsOf
<1>8. RegistryOK(rows)
    BY <1>1, <1>7 DEF RegistryOK, SlotsOK, OneSeat, HasLatest
<1>9. /\ tokens \in Seq(TokenType) /\ Len(tokens) = n /\ DOMAIN tokens = 1..n
      /\ \A t \in 1..n : tokens[t].created = 2 * t /\ tokens[t].act = f[order[t]]
  <2>1. DOMAIN tokens = 1..n
      BY <1>3
  <2>2. ASSUME NEW t \in 1..n
        PROVE  /\ tokens[t] \in TokenType
               /\ tokens[t].created = 2 * t /\ tokens[t].act = f[order[t]]
    <3>1. tokens[t] = Token(f[order[t]], order[t], 0, 0, 2 * t)
        BY <1>3
    <3>2. order[t] \in Devices /\ f[order[t]] \in Activations
        BY <1>2, <1>3, DeviceAssumption
    <3>3. 2 * t \in Nat
        BY <1>1
    <3> QED
        BY <1>1, <3>1, <3>2, <3>3 DEF Token, TokenType
  <2>3. tokens \in [1..n -> TokenType]
      BY <1>3, <2>2
  <2>4. tokens \in Seq(TokenType)
      BY <1>1, <2>3, SeqDef
  <2>5. Len(tokens) = n
      BY <1>1, <2>1, <2>4, LenProperties
  <2> QED
      BY <2>1, <2>2, <2>4, <2>5
<1>10. TokensOK(tokens)
  <2>1. \A s, t \in 1..n : tokens[s].act = tokens[t].act => s = t
      BY <1>2, <1>3, <1>5, <1>9
  <2>2. \A t \in 1..n : tokens[t].created >= 1
      BY <1>1, <1>9
  <2> QED
      BY <1>1, <1>9, <2>1, <2>2 DEF TokensOK
<1>11. Migrated = {} => DOMAIN tokens = {} /\ \A a \in Activations : act[a].completed = 0
    BY <1>1, <1>2, <1>9, FS_EmptySet
<1>12. SeatsBehind(rows, tokens)
    BY <1>11 DEF SeatsBehind
<1>13. StrictOK(rows, tokens, clock)
    BY <1>7, <1>11 DEF StrictOK, Strict, InOrder, Registered, NamesSeat
<1>14. ClaimsOK
    BY <1>4, <1>7 DEF ClaimsOK, NoClaim
<1>15. PollsOK
    BY <1>2, <1>4, DeviceAssumption DEF PollsOK, NoPoll
<1>16. StrictActs
    BY <1>4, <1>11 DEF StrictActs, Strict, NoPoll
<1> QED
    BY <1>6, <1>8, <1>10, <1>12, <1>13, <1>14, <1>15, <1>16 DEF IInv

-----------------------------------------------------------------------------
(* Steps that leave the seats and the tokens alone *)

LEMMA QuietRegistry ==
    ASSUME IInv, UNCHANGED <<rows, tokens>>, clock' \in Nat, clock' >= clock
    PROVE  /\ RegistryOK(rows') /\ TokensOK(tokens') /\ SeatsBehind(rows', tokens')
           /\ StrictOK(rows', tokens', clock')
<1>1. \A i \in DOMAIN rows : rows[i].activated \in Nat
  <2>1. rows \in Seq(RowType)
      BY DEF IInv, RegistryOK
  <2>2. \A i \in DOMAIN rows : rows[i] \in RowType
      BY <2>1, RowsFacts
  <2> QED
      BY <2>2 DEF RowType
<1>2. InOrder(rows, clock) => InOrder(rows, clock')
    BY <1>1 DEF InOrder, IInv, StateOK
<1> QED
    BY <1>2 DEF IInv, StrictOK

\* An activation of no device yet is in no claim and no poll, and not complete.
LEMMA FreshActivation ==
    ASSUME IInv, NEW a \in Activations, act[a].device = None
    PROVE  /\ claim[a].stage = "idle" /\ poll[a].stage = "idle" /\ ~act[a].claimed
           /\ Strict => act[a].completed = 0
<1>1. None \notin Devices
    BY DeviceAssumption
<1>2. RowsOf(rows, None) = {}
  <2>1. \A i \in DOMAIN rows : rows[i] \in RowType
      BY RowsFacts DEF IInv, RegistryOK
  <2> QED
      BY <1>1, <2>1 DEF RowsOf, RowType
<1> QED
    BY <1>1, <1>2 DEF IInv, ClaimsOK, PollsOK, StrictActs

LEMMA StartInv == ASSUME IInv, NEW a \in Activations, NEW d \in Devices, Start(a, d) PROVE IInv'
<1>1. UNCHANGED <<clock, rows, tokens, poll, claim, license, losing>>
    BY DEF Start
<1>2. /\ claim[a].stage = "idle" /\ poll[a].stage = "idle" /\ ~act[a].claimed
      /\ Strict => act[a].completed = 0
    BY FreshActivation DEF Start
<1>3. act \in [Activations -> ActType]
    BY DEF IInv, StateOK
<1>4. act' = [act EXCEPT ![a] = [act[a] EXCEPT !.device = d]]
    BY <1>3 DEF Start
<1>5. [act[a] EXCEPT !.device = d] \in ActType
    BY <1>3 DEF ActType
<1>6. /\ act' \in [Activations -> ActType]
      /\ act'[a].claimed = act[a].claimed /\ act'[a].completed = act[a].completed
      /\ \A b \in Activations : b # a => act'[b] = act[b]
    BY <1>3, <1>4, <1>5 DEF ActType
<1>7. StateOK'
    BY <1>1, <1>6 DEF IInv, StateOK
<1>8. ClaimsOK'
    BY <1>1, <1>2, <1>6 DEF IInv, ClaimsOK
<1>9. PollsOK'
    BY <1>1, <1>2, <1>6 DEF IInv, PollsOK
<1>10. StrictActs'
    BY <1>1, <1>2, <1>6 DEF IInv, StrictActs
<1> QED
    BY <1>1, <1>7, <1>8, <1>9, <1>10, QuietRegistry DEF IInv, StateOK

\* An activation is claimed, by its payment or by its page.
LEMMA ClaimedInv ==
    ASSUME IInv, NEW a \in Activations, act[a].device \in Devices,
           act' = [act EXCEPT ![a].claimed = TRUE]
    PROVE  /\ act' \in [Activations -> ActType]
           /\ \A b \in Activations : /\ act'[b].device = act[b].device
                                     /\ act'[b].completed = act[b].completed
           /\ \A b \in Activations : act'[b].claimed => act'[b].device \in Devices
<1>1. act \in [Activations -> ActType]
    BY DEF IInv, StateOK
<1>2. [act[a] EXCEPT !.claimed = TRUE] \in ActType
    BY <1>1 DEF ActType
<1>3. act' = [act EXCEPT ![a] = [act[a] EXCEPT !.claimed = TRUE]]
    BY <1>1
<1> QED
    BY <1>1, <1>2, <1>3 DEF ActType, IInv, PollsOK

LEMMA BindCheckoutInv == ASSUME IInv, NEW a \in Activations, BindCheckout(a) PROVE IInv'
<1>1. UNCHANGED <<clock, rows, tokens, poll, claim, license, losing>>
    BY DEF BindCheckout
<1>2. act[a].device \in Devices
    BY DEF BindCheckout, IInv, StateOK, ActType
<1>3. /\ act' \in [Activations -> ActType]
      /\ \A b \in Activations : /\ act'[b].device = act[b].device
                                /\ act'[b].completed = act[b].completed
      /\ \A b \in Activations : act'[b].claimed => act'[b].device \in Devices
    BY <1>2, ClaimedInv DEF BindCheckout
<1>4. StateOK' /\ PollsOK' /\ StrictActs'
    BY <1>1, <1>3 DEF IInv, StateOK, PollsOK, StrictActs
<1>5. ClaimsOK'
    BY <1>1, <1>3 DEF IInv, ClaimsOK
<1> QED
    BY <1>1, <1>4, <1>5, QuietRegistry DEF IInv, StateOK

-----------------------------------------------------------------------------
(* Claims *)

\* What the page offers: nothing, or the latest of two taken seats.
LEMMA DecisionFacts ==
    ASSUME IInv, NEW d \in Devices
    PROVE  /\ Decision(d) \in 0..Len(rows) /\ Len(rows) \in Nat /\ Len(rows) <= MaxRows
           /\ Decision(d) \in Active(rows) =>
                /\ Full(rows) /\ ~Bound(rows, d)
                /\ \A j \in Active(rows) : Before(rows, j, Decision(d))
<1>1. rows \in Seq(RowType) /\ SlotsOK(rows) /\ Len(rows) <= MaxRows
    BY DEF IInv, RegistryOK
<1>2. Len(rows) \in Nat /\ DOMAIN rows = 1..Len(rows)
    BY <1>1, RowsFacts
<1>3. CASE Bound(rows, d) \/ Cardinality(Active(rows)) < MaxActive
    BY <1>1, <1>2, <1>3 DEF Decision, Active
<1>4. CASE ~(Bound(rows, d) \/ Cardinality(Active(rows)) < MaxActive)
  <2>1. Full(rows) /\ Active(rows) # {}
      BY <1>1, <1>4, SeatsAreTwo DEF Full
  <2>2. /\ Latest(rows, Active(rows)) \in Active(rows)
        /\ \A j \in Active(rows) : Before(rows, j, Latest(rows, Active(rows)))
      BY <1>1, <2>1, LatestOfActive
  <2>3. Decision(d) = Latest(rows, Active(rows))
      BY <1>4 DEF Decision
  <2>4. Active(rows) \subseteq 1..Len(rows)
      BY <1>2 DEF Active
  <2> QED
      BY <1>1, <1>2, <1>4, <2>1, <2>2, <2>3, <2>4
<1> QED
    BY <1>3, <1>4

\* A claim moves on, and all else stays.
LEMMA ClaimMoves ==
    ASSUME IInv, NEW a \in Activations, NEW c \in ClaimType, claim' = [claim EXCEPT ![a] = c],
           UNCHANGED <<clock, rows, tokens, poll, license, losing>>,
           act' \in [Activations -> ActType],
           \A b \in Activations : /\ act'[b].device = act[b].device
                                  /\ act'[b].completed = act[b].completed
                                  /\ act'[b].claimed => act'[b].device \in Devices,
           c.stage # "idle" => act[a].device \in Devices,
           c.prior <= Len(rows),
           c.stage \in {"decided", "claimed"} /\ c.prior \in Active(rows) =>
             /\ Full(rows) /\ ~Bound(rows, act[a].device)
             /\ \A j \in Active(rows) : Before(rows, j, c.prior)
    PROVE  IInv'
<1>1. claim \in [Activations -> ClaimType]
    BY DEF IInv, StateOK
<1>2. claim' \in [Activations -> ClaimType] /\ claim'[a] = c
      /\ \A b \in Activations : b # a => claim'[b] = claim[b]
    BY <1>1
<1>3. StateOK' /\ PollsOK' /\ StrictActs'
    BY <1>2 DEF IInv, StateOK, PollsOK, StrictActs
<1>4. ClaimsOK'
    BY <1>2 DEF IInv, ClaimsOK
<1> QED
    BY <1>3, <1>4, QuietRegistry DEF IInv, StateOK

\* Nothing is decided in a claim that is over.
LEMMA NoClaimFacts ==
    /\ MaxRows \in Nat => NoClaim \in ClaimType
    /\ NoClaim.stage = "idle" /\ NoClaim.prior = 0
    BY DEF NoClaim, ClaimType

LEMMA OpenPageInv == ASSUME IInv, NEW a \in Activations, OpenPage(a) PROVE IInv'
<1> DEFINE c == [stage |-> "page", prior |-> 0, reviewed |-> Decision(act[a].device)]
<1>1. act[a].device \in Devices /\ act \in [Activations -> ActType]
    BY DEF OpenPage, Claimable, IInv, StateOK, ActType
<1>2. Decision(act[a].device) \in 0..MaxRows /\ MaxRows \in Nat /\ Len(rows) \in Nat
    BY <1>1, DecisionFacts, DeviceAssumption
<1>3. c \in ClaimType
    BY <1>2 DEF ClaimType
<1>4. /\ claim' = [claim EXCEPT ![a] = c]
      /\ UNCHANGED <<clock, rows, tokens, act, poll, license, losing>>
    BY DEF OpenPage
<1>5. \A b \in Activations : act[b].claimed => act[b].device \in Devices
    BY DEF IInv, PollsOK
<1>6. c.stage = "page" /\ c.prior <= Len(rows)
    BY <1>2
<1> HIDE DEF c
<1> QED
    BY <1>1, <1>3, <1>4, <1>5, <1>6, ClaimMoves

LEMMA PostInv == ASSUME IInv, NEW a \in Activations, Post(a) PROVE IInv'
<1> DEFINE p == Decision(act[a].device)
           c == [claim[a] EXCEPT !.stage = "decided", !.prior = p]
<1>1. act[a].device \in Devices /\ act \in [Activations -> ActType] /\ claim[a] \in ClaimType
    BY DEF Post, IInv, StateOK, ClaimsOK
<1>2. p \in 0..MaxRows /\ p <= Len(rows)
    BY <1>1, DecisionFacts, DeviceAssumption
<1>3. p \in Active(rows) => /\ Full(rows) /\ ~Bound(rows, act[a].device)
                            /\ \A j \in Active(rows) : Before(rows, j, p)
    BY <1>1, DecisionFacts
<1>4. claim' = [claim EXCEPT ![a] = c]
    BY DEF Post, IInv, StateOK
<1> HIDE DEF p
<1>5. c \in ClaimType /\ c.prior = p /\ c.stage = "decided"
    BY <1>1, <1>2 DEF ClaimType
<1>6. UNCHANGED <<clock, rows, tokens, act, poll, license, losing>>
    BY DEF Post
<1>7. \A b \in Activations : act[b].claimed => act[b].device \in Devices
    BY DEF IInv, PollsOK
<1> HIDE DEF c
<1> QED
    BY <1>1, <1>2, <1>3, <1>4, <1>5, <1>6, <1>7, ClaimMoves

LEMMA ClaimActivationInv == ASSUME IInv, NEW a \in Activations, ClaimActivation(a) PROVE IInv'
<1> DEFINE c == IF claim[a].prior = 0 THEN NoClaim ELSE [claim[a] EXCEPT !.stage = "claimed"]
<1>1. act[a].device \in Devices /\ claim[a] \in ClaimType
    BY DEF ClaimActivation, IInv, StateOK, ClaimsOK
<1>2. claim' = [claim EXCEPT ![a] = c]
    BY DEF ClaimActivation, IInv, StateOK
<1>3. /\ act' \in [Activations -> ActType]
      /\ \A b \in Activations : /\ act'[b].device = act[b].device
                                /\ act'[b].completed = act[b].completed
      /\ \A b \in Activations : act'[b].claimed => act'[b].device \in Devices
    BY <1>1, ClaimedInv DEF ClaimActivation
<1>4. c \in ClaimType /\ c.prior = claim[a].prior
    BY <1>1, NoClaimFacts, DeviceAssumption DEF ClaimType
<1>5. /\ claim[a].prior <= Len(rows)
      /\ claim[a].prior \in Active(rows) =>
             /\ Full(rows) /\ ~Bound(rows, act[a].device)
             /\ \A j \in Active(rows) : Before(rows, j, claim[a].prior)
    BY DEF ClaimActivation, IInv, ClaimsOK
<1>6. UNCHANGED <<clock, rows, tokens, poll, license, losing>>
    BY DEF ClaimActivation
<1> HIDE DEF c
<1> QED
    BY <1>1, <1>2, <1>3, <1>4, <1>5, <1>6, ClaimMoves

LEMMA LeaveClaimInv == ASSUME IInv, NEW a \in Activations, LeaveClaim(a) PROVE IInv'
<1>1. /\ claim' = [claim EXCEPT ![a] = NoClaim]
      /\ UNCHANGED <<clock, rows, tokens, act, poll, license, losing>>
    BY DEF LeaveClaim
<1>2. PICK c \in ClaimType : c = NoClaim /\ c.stage = "idle" /\ c.prior = 0
    BY NoClaimFacts, DeviceAssumption
<1>3. act \in [Activations -> ActType] /\ Len(rows) \in Nat
    BY RowsFacts DEF IInv, StateOK, RegistryOK
<1>4. \A b \in Activations : act[b].claimed => act[b].device \in Devices
    BY DEF IInv, PollsOK
<1>5. c.prior <= Len(rows) /\ c.stage = "idle" /\ claim' = [claim EXCEPT ![a] = c]
    BY <1>1, <1>2, <1>3
<1>6. act' = act
    BY <1>1
<1> QED
    BY <1>1, <1>3, <1>4, <1>5, <1>6, ClaimMoves

-----------------------------------------------------------------------------
(* Polls that only read, and the licence *)

\* A poll moves on; completing it may also complete its activation.
LEMMA PollMoves ==
    ASSUME IInv, NEW a \in Activations, NEW p \in PollType, poll' = [poll EXCEPT ![a] = p],
           UNCHANGED <<rows, tokens, claim, license, losing>>,
           act' \in [Activations -> ActType], clock' \in Nat, clock' >= clock,
           \A b \in Activations : /\ act'[b].device = act[b].device
                                  /\ act'[b].claimed = act[b].claimed
                                  /\ act[b].completed # 0 => act'[b].completed # 0
                                  /\ b # a => act'[b] = act[b],
           p.stage # "idle" => act[a].device \in Devices,
           p.stage # "checked",
           Strict => /\ act'[a].completed # 0 \/ p.stage = "issued"
                          => RowsOf(rows, act[a].device) # {}
                     /\ p.issuedAt # 0 => act'[a].completed # 0
    PROVE  IInv'
<1>1. poll \in [Activations -> PollType]
    BY DEF IInv, StateOK
<1>2. poll' \in [Activations -> PollType] /\ poll'[a] = p
      /\ \A b \in Activations : b # a => poll'[b] = poll[b]
    BY <1>1
<1>3. StateOK'
    BY <1>2 DEF IInv, StateOK
<1>4. PollsOK'
    BY <1>2 DEF IInv, PollsOK
<1>5. StrictActs'
    BY <1>2 DEF IInv, StrictActs
<1>6. ClaimsOK'
    BY DEF IInv, ClaimsOK
<1> QED
    BY <1>3, <1>4, <1>5, <1>6, QuietRegistry DEF IInv

LEMMA NoPollFacts ==
    NoPoll \in PollType /\ NoPoll.stage = "idle" /\ NoPoll.issuedAt = 0
    BY DEF NoPoll, PollType

LEMMA PollReadInv == ASSUME IInv, NEW a \in Activations, PollRead(a) PROVE IInv'
<1> DEFINE p == [stage |-> "read", began |-> 0, issuedAt |-> act[a].completed]
<1>1. /\ act \in [Activations -> ActType] /\ clock \in Nat
      /\ act[a].device \in Devices
    BY DEF PollRead, IInv, StateOK, PollsOK
<1>2. p \in PollType /\ p.stage = "read" /\ p.issuedAt = act[a].completed
    BY <1>1 DEF PollType, ActType
<1>3. Strict => /\ act[a].completed # 0 => RowsOf(rows, act[a].device) # {}
    BY DEF IInv, StrictActs
<1>4. /\ poll' = [poll EXCEPT ![a] = p]
      /\ clock' = clock /\ act' = act
      /\ UNCHANGED <<rows, tokens, claim, license, losing>>
    BY DEF PollRead
<1> HIDE DEF p
<1>5. clock' \in Nat /\ clock' >= clock
    BY <1>1, <1>4
<1> QED
    BY <1>1, <1>2, <1>3, <1>4, <1>5, PollMoves

LEMMA PollCompleteInv == ASSUME IInv, NEW a \in Activations, PollComplete(a) PROVE IInv'
<1>1. act \in [Activations -> ActType] /\ clock \in Nat
    BY DEF IInv, StateOK
<1>2. PICK p \in PollType : p = NoPoll /\ p.stage = "idle" /\ p.issuedAt = 0
    BY NoPollFacts
<1>3. /\ poll' = [poll EXCEPT ![a] = p]
      /\ UNCHANGED <<rows, tokens, claim, license, losing>>
    BY <1>2 DEF PollComplete
<1>4. [act[a] EXCEPT !.completed = Later] \in ActType
    BY <1>1 DEF ActType, Later
<1>5. /\ act' \in [Activations -> ActType] /\ clock' \in Nat /\ clock' >= clock
      /\ \A b \in Activations : /\ act'[b].device = act[b].device
                                /\ act'[b].claimed = act[b].claimed
                                /\ act[b].completed # 0 => act'[b].completed # 0
                                /\ b # a => act'[b] = act[b]
  <2>1. CASE act[a].completed = 0
    <3>1. act' = [act EXCEPT ![a] = [act[a] EXCEPT !.completed = Later]] /\ clock' = Later
        BY <1>1, <2>1 DEF PollComplete
    <3> QED
        BY <1>1, <1>4, <2>1, <3>1 DEF Later, ActType
  <2>2. CASE act[a].completed # 0
      BY <1>1, <2>2 DEF PollComplete
  <2> QED
      BY <2>1, <2>2
<1>6. Strict => RowsOf(rows, act[a].device) # {}
    BY DEF PollComplete, IInv, StrictActs
<1>7. p.stage # "checked" /\ p.stage # "issued"
    BY <1>2
<1> QED
    BY <1>2, <1>3, <1>5, <1>6, <1>7, PollMoves

LEMMA PollStopsInv == ASSUME IInv, NEW a \in Activations, PollStops(a) PROVE IInv'
<1>1. act \in [Activations -> ActType] /\ clock \in Nat
    BY DEF IInv, StateOK
<1>2. PICK p \in PollType : p = NoPoll /\ p.stage = "idle" /\ p.issuedAt = 0
    BY NoPollFacts
<1>3. /\ poll' = [poll EXCEPT ![a] = p] /\ act' = act /\ clock' = clock
      /\ UNCHANGED <<rows, tokens, claim, license, losing>>
    BY <1>2 DEF PollStops
<1>4. Strict => /\ act[a].completed # 0 => RowsOf(rows, act[a].device) # {}
    BY DEF IInv, StrictActs
<1>5. p.stage # "checked" /\ p.stage # "issued" /\ clock' \in Nat /\ clock' >= clock
    BY <1>1, <1>2, <1>3
<1> QED
    BY <1>1, <1>2, <1>3, <1>4, <1>5, PollMoves

\* The licence comes back, or a transaction that takes it has begun.
LEMMA LicenseInv ==
    ASSUME IInv, BeginLoss \/ RestoreLicense PROVE IInv'
<1>1. UNCHANGED <<clock, rows, tokens, act, poll, claim>>
    BY DEF BeginLoss, RestoreLicense
<1>2. DOMAIN tokens \subseteq 0..MaxTokens /\ MaxTokens \in Nat /\ clock \in Nat
  <2>1. tokens \in Seq(TokenType) /\ Len(tokens) <= MaxTokens /\ MaxTokens \in Nat
      BY DeviceAssumption DEF IInv, TokensOK
  <2>2. Len(tokens) \in Nat /\ DOMAIN tokens = 1..Len(tokens)
      BY <2>1, TokensFacts
  <2> QED
      BY <2>1, <2>2 DEF IInv, StateOK
<1>3. StateOK'
  <2>1. license' \in BOOLEAN
      BY DEF IInv, StateOK, BeginLoss, RestoreLicense
  <2>2. losing' \subseteq 0..MaxTokens
    <3>1. CASE BeginLoss
        BY <1>2, <3>1 DEF BeginLoss
    <3>2. CASE RestoreLicense
        BY <3>2 DEF IInv, StateOK, RestoreLicense
    <3> QED
        BY <3>1, <3>2
  <2> QED
      BY <1>1, <2>1, <2>2 DEF IInv, StateOK
<1>4. ClaimsOK' /\ PollsOK' /\ StrictActs'
    BY <1>1 DEF IInv, ClaimsOK, PollsOK, StrictActs
<1>5. UNCHANGED <<rows, tokens>> /\ clock' \in Nat /\ clock' >= clock
    BY <1>1, <1>2
<1> QED
    BY <1>3, <1>4, <1>5, QuietRegistry DEF IInv

-----------------------------------------------------------------------------
(* Seats are taken, tokens are given and revoked *)

\* A seat is taken or none is, and nobody loses one.  Where rows are numbered
\* in order, whoever shows a credential is registered already and the new row is
\* of this moment.
Taken(new, at) ==
    /\ RegistryOK(new) /\ SeatsBehind(new, tokens)
    /\ Strict => InOrder(new, at) /\ Registered(new, tokens) /\ NamesSeat(new, tokens)
    /\ Len(new) >= Len(rows)
    /\ \A i \in DOMAIN rows : i \in DOMAIN new /\ new[i] = rows[i]
    /\ \A i \in DOMAIN new : i \in DOMAIN rows \/ i > Len(rows)
    /\ Full(rows) => new = rows

LEMMA SeatTaken ==
    ASSUME IInv, NEW d \in Devices, NEW since \in Nat, NEW now \in Nat,
           NEW new, new = Seated(rows, d, since, now), Len(new) <= MaxRows,
           NEW at \in Nat, at >= clock, new # rows => at = Later,
           Strict => /\ since # 0 => RowsOf(rows, d) # {}
                     /\ now = Later
    PROVE  Taken(new, at)
<1>0. RegistryOK(rows) /\ rows \in Seq(RowType) /\ clock \in Nat
    BY DEF IInv, RegistryOK, StateOK
<1>1. Len(rows) \in Nat /\ DOMAIN rows = 1..Len(rows)
      /\ \A i \in DOMAIN rows : rows[i] \in RowType
    BY <1>0, RowsFacts
<1>2. \A i \in DOMAIN rows : rows[i].activated \in Nat
    BY <1>1 DEF RowType
<1>3. RegistryOK(new) /\ (new = rows \/ Grown(rows, new, d, since, now))
    BY <1>0, SeatedFacts
<1>4. CASE new = rows
  <2>1. Strict => InOrder(rows, at)
      BY <1>0, <1>2 DEF IInv, StrictOK, InOrder
  <2> QED
      BY <1>0, <1>1, <1>4, <2>1 DEF Taken, IInv, StrictOK
<1>5. CASE Grown(rows, new, d, since, now) /\ new # rows
  <2> DEFINE n == Len(rows) + 1
  <2>1. /\ TakesSeat(rows, d, since) /\ Len(new) = n
        /\ DOMAIN new = DOMAIN rows \cup {n} /\ n \notin DOMAIN rows
        /\ \A i \in DOMAIN rows : new[i] = rows[i]
        /\ new[n].activated = IF since = 0 THEN now ELSE since
      BY <1>5 DEF Grown
  <2>2. ~Full(rows)
      BY <1>0, <2>1, SeatsAreTwo DEF TakesSeat, RegistryOK
  <2>3. /\ \A i \in Active(rows) : i \in Active(new) /\ new[i] = rows[i]
        /\ \A e : RowsOf(rows, e) \subseteq RowsOf(new, e)
      BY <2>1 DEF Active, RowsOf
  <2>4. SeatsBehind(new, tokens)
      BY <2>3 DEF IInv, SeatsBehind, Bound
  <2>5. ASSUME Strict PROVE InOrder(new, at) /\ Registered(new, tokens) /\ NamesSeat(new, tokens)
    <3>1. since = 0
        BY <1>0, <1>5, <2>5, NoSeatAgain
    <3>2. new[n].activated = clock + 2 /\ at = clock + 2
        BY <1>5, <2>1, <2>5, <3>1 DEF Later
    <3>3. \A i \in DOMAIN rows : /\ rows[i].activated <= clock
                                 /\ \A j \in DOMAIN rows : i < j => rows[i].activated < rows[j].activated
        BY <2>5 DEF IInv, StrictOK, InOrder
    <3>4. \A i \in DOMAIN new : new[i].activated <= at
        BY <1>0, <1>2, <2>1, <3>2, <3>3
    <3>5. \A i, j \in DOMAIN new : i < j => new[i].activated < new[j].activated
      <4> SUFFICES ASSUME NEW i \in DOMAIN new, NEW j \in DOMAIN new, i < j
                   PROVE  new[i].activated < new[j].activated
          OBVIOUS
      <4>1. i \in DOMAIN rows
          BY <1>1, <2>1
      <4>2. CASE j = n
          BY <1>0, <1>2, <2>1, <3>2, <3>3, <4>1, <4>2
      <4>3. CASE j \in DOMAIN rows
          BY <2>1, <3>3, <4>1, <4>3
      <4> QED
          BY <2>1, <4>2, <4>3
    <3>6. Registered(new, tokens)
        BY <2>3, <2>5 DEF IInv, StrictOK, Registered
    <3>7. NamesSeat(new, tokens)
        BY <2>3, <2>5 DEF IInv, StrictOK, NamesSeat
    <3> QED
        BY <3>4, <3>5, <3>6, <3>7 DEF InOrder
  <2> QED
      BY <1>1, <1>3, <2>1, <2>2, <2>4, <2>5 DEF Taken
<1> QED
    BY <1>3, <1>4, <1>5

LEMMA ClaimsStay ==
    ASSUME IInv, NEW new, NEW at, Taken(new, at), rows' = new, UNCHANGED <<act, claim>>
    PROVE  /\ ClaimsOK'
           /\ \A e : RowsOf(rows, e) # {} => RowsOf(rows', e) # {}
<1>0. rows \in Seq(RowType) /\ new \in Seq(RowType)
    BY DEF IInv, Taken, RegistryOK
<1>1. Len(rows) \in Nat /\ DOMAIN rows = 1..Len(rows) /\ Len(new) \in Nat /\ DOMAIN new = 1..Len(new)
    BY <1>0, RowsFacts
<1>2. \A e : RowsOf(rows, e) # {} => RowsOf(new, e) # {}
    BY DEF Taken, RowsOf
<1>3. ASSUME NEW a \in Activations
      PROVE  /\ claim[a].stage # "idle" => act[a].device \in Devices
             /\ claim[a].prior <= Len(new)
             /\ claim[a].stage \in {"decided", "claimed"} /\ claim[a].prior \in Active(new) =>
                  /\ Full(new) /\ ~Bound(new, act[a].device)
                  /\ \A j \in Active(new) : Before(new, j, claim[a].prior)
  <2>1. /\ claim[a].stage # "idle" => act[a].device \in Devices
        /\ claim[a].prior <= Len(rows)
        /\ claim[a].stage \in {"decided", "claimed"} /\ claim[a].prior \in Active(rows) =>
             /\ Full(rows) /\ ~Bound(rows, act[a].device)
             /\ \A j \in Active(rows) : Before(rows, j, claim[a].prior)
      BY DEF IInv, ClaimsOK
  <2>2. claim[a].prior \in Nat
      BY DeviceAssumption DEF IInv, StateOK, ClaimType
  <2>3. claim[a].prior \in Active(new) => claim[a].prior \in Active(rows)
      BY <1>1, <2>1, <2>2 DEF Taken, Active
  <2>4. Full(rows) => new = rows
      BY DEF Taken
  <2>5. claim[a].prior <= Len(new)
      BY <1>1, <2>1, <2>2 DEF Taken
  <2> QED
      BY <2>1, <2>3, <2>4, <2>5
<1> QED
    BY <1>2, <1>3 DEF ClaimsOK

\* A token is given for an activation that has none that lives.
LEMMA TokenAdded ==
    ASSUME NEW ts, TokensOK(ts), Len(ts) < MaxTokens, NEW k \in TokenType, k.created >= 1,
           \A t \in DOMAIN ts : Good(ts[t]) => ts[t].act # k.act
    PROVE  /\ TokensOK(Append(ts, k))
           /\ \A t \in DOMAIN Append(ts, k) :
                Append(ts, k)[t] = k \/ (t \in DOMAIN ts /\ Append(ts, k)[t] = ts[t])
<1> DEFINE n == Len(ts) + 1  new == Append(ts, k)
<1>0. ts \in Seq(TokenType) /\ MaxTokens \in Nat
    BY DeviceAssumption DEF TokensOK
<1>1. /\ new \in Seq(TokenType) /\ Len(new) = n
      /\ DOMAIN new = DOMAIN ts \cup {n} /\ n \notin DOMAIN ts
      /\ new[n] = k /\ \A t \in DOMAIN ts : new[t] = ts[t]
    BY <1>0, OneMore
<1>2. Len(ts) \in Nat
    BY <1>0, LenProperties
<1> HIDE DEF new
<1>3. \A t \in DOMAIN new : new[t].created >= 1
    BY <1>1 DEF TokensOK
<1>4. \A s, t \in DOMAIN new : Good(new[s]) /\ Good(new[t]) /\ new[s].act = new[t].act => s = t
    BY <1>1 DEF TokensOK
<1>5. TokensOK(new)
    BY <1>0, <1>1, <1>2, <1>3, <1>4 DEF TokensOK
<1> QED
    BY <1>1, <1>5 DEF new

\* Tokens are revoked, and otherwise as they were.
Fewer(us, ts) ==
    /\ us \in Seq(TokenType) /\ DOMAIN us = DOMAIN ts
    /\ \A t \in DOMAIN ts :
         /\ us[t].act = ts[t].act /\ us[t].device = ts[t].device
         /\ us[t].gen = ts[t].gen /\ us[t].created = ts[t].created
         /\ Good(us[t]) => Good(ts[t])

LEMMA FewerTokens ==
    ASSUME NEW ts, TokensOK(ts), NEW us, Fewer(us, ts)
    PROVE  /\ TokensOK(us) /\ Len(us) = Len(ts)
           /\ \A rs : SeatsBehind(rs, ts) => SeatsBehind(rs, us)
           /\ \A rs, now : StrictOK(rs, ts, now) => StrictOK(rs, us, now)
<1>1. ts \in Seq(TokenType) /\ us \in Seq(TokenType) /\ DOMAIN us = DOMAIN ts
    BY DEF Fewer, TokensOK
<1>2. Len(us) = Len(ts)
    BY <1>1, LenProperties
<1>3. TokensOK(us)
    BY <1>1, <1>2 DEF Fewer, TokensOK
<1>4. \A rs : SeatsBehind(rs, ts) => SeatsBehind(rs, us)
    BY <1>1 DEF Fewer, SeatsBehind
<1>5. \A rs, now : StrictOK(rs, ts, now) => StrictOK(rs, us, now)
    BY <1>1 DEF Fewer, StrictOK, Registered, NamesSeat
<1> QED
    BY <1>2, <1>3, <1>4, <1>5

-----------------------------------------------------------------------------
(* The number a token bears *)

LEMMA GenerationType ==
    ASSUME NEW rs \in Seq(RowType), NEW i PROVE Generation(rs, i) \in Nat
<1>1. Len(rs) \in Nat /\ DOMAIN rs = 1..Len(rs)
    BY RowsFacts
<1>2. IsFiniteSet(DOMAIN rs)
    BY <1>1, FS_Interval
<1>3. {j \in DOMAIN rs : Before(rs, j, i)} \in SUBSET DOMAIN rs
    OBVIOUS
<1> QED
    BY <1>2, <1>3, FS_Subset, FS_CardinalityType DEF Generation

LEMMA GenerationInOrder ==
    ASSUME NEW rs \in Seq(RowType), NEW now, InOrder(rs, now), NEW i \in DOMAIN rs
    PROVE  Generation(rs, i) = i
<1>1. Len(rs) \in Nat /\ DOMAIN rs = 1..Len(rs) /\ \A j \in DOMAIN rs : rs[j] \in RowType
    BY RowsFacts
<1>2. \A j \in DOMAIN rs : rs[j].activated \in Nat
    BY <1>1 DEF RowType
<1>3. {j \in DOMAIN rs : Before(rs, j, i)} = 1..i
    BY <1>1, <1>2 DEF InOrder, Before
<1>4. Cardinality(1..i) = i
    BY <1>1, FS_Interval
<1> QED
    BY <1>3, <1>4 DEF Generation

\* A device's seat is the row that its credential is measured against.
LEMMA NearestIsSeat ==
    ASSUME NEW rs, RegistryOK(rs), NEW i \in Active(rs)
    PROVE  Nearest(rs, rs[i].device) = i
<1>0. rs \in Seq(RowType) /\ SlotsOK(rs)
    BY DEF RegistryOK
<1> DEFINE S == Active(rs) \cap RowsOf(rs, rs[i].device)
<1>1. S = {i}
    BY DEF RegistryOK, OneSeat, RowsOf, Active
<1>2. S \in SUBSET Active(rs) /\ S # {}
    BY <1>1
<1> HIDE DEF S
<1>3. Latest(rs, S) \in S
    BY <1>0, <1>2, LatestOfActive
<1> QED
    BY <1>1, <1>2, <1>3 DEF Nearest, S

\* So an allowed credential gets a token that names its seat.
LEMMA GivenNamesSeat ==
    ASSUME NEW rs, RegistryOK(rs), NEW d \in Devices, NEW since \in Nat, NEW now \in Nat,
           NEW new, new = Seated(rs, d, since, now), Len(new) <= MaxRows, Mode = "enforce",
           Allows(new, d, since)
    PROVE  /\ Bound(new, d) /\ RowsOf(new, d) # {}
           /\ \A at : InOrder(new, at) =>
                \E i \in Active(new) : new[i].device = d /\ Generation(new, Nearest(new, d)) = i
<1>1. Bound(new, d) /\ RegistryOK(new)
    BY AllowedIsBound, SeatedFacts
<1>2. PICK i \in Active(new) : new[i].device = d
    BY <1>1 DEF Bound
<1>3. Nearest(new, d) = i /\ new \in Seq(RowType) /\ i \in DOMAIN new
    BY <1>1, <1>2, NearestIsSeat DEF RegistryOK, Active
<1>4. \A at : InOrder(new, at) => Generation(new, i) = i
    BY <1>3, GenerationInOrder
<1> QED
    BY <1>1, <1>2, <1>3, <1>4 DEF RowsOf

-----------------------------------------------------------------------------
(* Polls that take a seat or give a token *)

\* What a poll in progress shows its transactions.
LEMMA PollShows ==
    ASSUME IInv, NEW a \in Activations, poll[a].stage # "idle"
    PROVE  /\ act[a].device \in Devices /\ poll[a] \in PollType /\ poll[a].issuedAt \in Nat
           /\ Strict /\ poll[a].issuedAt # 0 => RowsOf(rows, act[a].device) # {}
<1>1. poll[a] \in PollType
    BY DEF IInv, StateOK
<1> QED
    BY <1>1 DEF IInv, PollsOK, StrictActs, PollType

\* After a poll took a seat, or took none.
LEMMA PollSeated ==
    ASSUME IInv, NEW a \in Activations, poll[a].stage # "idle",
           NEW new, NEW at, Taken(new, at), rows' = new, clock' = at, at \in Nat,
           NEW p \in PollType, poll' = [poll EXCEPT ![a] = p],
           UNCHANGED <<act, claim, license, losing>>,
           p.issuedAt \in {0, poll[a].issuedAt},
           Waits /\ p.stage = "checked" => p.began >= 1,
           Strict /\ p.stage = "issued" => RowsOf(new, act[a].device) # {}
    PROVE  StateOK' /\ RegistryOK(rows') /\ ClaimsOK' /\ PollsOK' /\ StrictActs'
<1>1. poll \in [Activations -> PollType]
    BY DEF IInv, StateOK
<1>2. poll' \in [Activations -> PollType] /\ poll'[a] = p
      /\ \A b \in Activations : b # a => poll'[b] = poll[b]
    BY <1>1
<1>3. StateOK'
    BY <1>2 DEF IInv, StateOK
<1>4. ClaimsOK' /\ \A e : RowsOf(rows, e) # {} => RowsOf(rows', e) # {}
    BY ClaimsStay
<1>5. act[a].device \in Devices
    BY PollShows
<1>6. PollsOK'
    BY <1>2, <1>5 DEF IInv, PollsOK
<1>7. StrictActs'
    BY <1>2, <1>4 DEF IInv, StrictActs
<1>8. RegistryOK(rows')
    BY DEF Taken
<1> QED
    BY <1>3, <1>4, <1>6, <1>7, <1>8

LEMMA PollCheckInv == ASSUME IInv, NEW a \in Activations, PollCheck(a) PROVE IInv'
<1> DEFINE d == act[a].device  since == poll[a].issuedAt
<1>1. clock \in Nat /\ TokensOK(tokens)
    BY DEF IInv, StateOK
<1>2. d \in Devices /\ since \in Nat /\ poll[a] \in PollType /\ poll[a].stage = "read"
      /\ (Strict /\ since # 0 => RowsOf(rows, d) # {})
    BY PollShows DEF PollCheck
<1>3. PICK new : new = Seated(rows, d, since, Later)
    OBVIOUS
<1>4. PICK at : at = IF new = rows THEN clock ELSE Later
    OBVIOUS
<1>5. /\ Len(new) <= MaxRows /\ rows' = new /\ clock' = at
      /\ poll' = [poll EXCEPT ![a] =
            IF Allows(new, d, since)
            THEN [poll[a] EXCEPT !.stage = "checked",
                                 !.began = IF Waits THEN clock' + 1 ELSE 0]
            ELSE NoPoll]
      /\ UNCHANGED <<tokens, act, claim, license, losing>>
    BY <1>3, <1>4 DEF PollCheck
<1>6. Later \in Nat /\ at \in Nat /\ at >= clock /\ (new # rows => at = Later)
    BY <1>1, <1>4 DEF Later
<1>7. Taken(new, at)
    BY <1>2, <1>3, <1>5, <1>6, SeatTaken
<1>8. PICK began \in Nat : began = (IF Waits THEN at + 1 ELSE 0)
    BY <1>6
<1>9. [poll[a] EXCEPT !.stage = "checked", !.began = began] \in PollType
    BY <1>2, <1>8 DEF PollType
<1>10. PICK p \in PollType :
         /\ poll' = [poll EXCEPT ![a] = p]
         /\ p.issuedAt \in {0, since} /\ p.stage # "issued"
         /\ (Waits /\ p.stage = "checked" => p.began >= 1)
  <2>1. CASE Allows(new, d, since)
    <3> DEFINE q == [poll[a] EXCEPT !.stage = "checked", !.began = began]
    <3>1. poll' = [poll EXCEPT ![a] = q]
        BY <1>5, <1>8, <2>1
    <3>2. q.issuedAt = since /\ q.stage = "checked" /\ q.began = began
        BY <1>2 DEF PollType
    <3>3. Waits => began >= 1
        BY <1>6, <1>8
    <3> QED
        BY <1>9, <3>1, <3>2, <3>3
  <2>2. CASE ~Allows(new, d, since)
      BY <1>5, <2>2, NoPollFacts
  <2> QED
      BY <2>1, <2>2
<1>11. poll[a].stage # "idle" /\ Strict /\ p.stage = "issued" => RowsOf(new, d) # {}
    BY <1>10
<1>12. StateOK' /\ RegistryOK(rows') /\ ClaimsOK' /\ PollsOK' /\ StrictActs'
    BY <1>2, <1>5, <1>6, <1>7, <1>10, PollSeated
<1>13. TokensOK(tokens') /\ SeatsBehind(rows', tokens') /\ StrictOK(rows', tokens', clock')
    BY <1>1, <1>5, <1>7 DEF Taken, StrictOK
<1> QED
    BY <1>12, <1>13 DEF IInv

\* The two ways a token is given: for a poll, and in exchange for another.
LEMMA TokenGiven ==
    ASSUME IInv, NEW new, NEW at, Taken(new, at),
           NEW ts, TokensOK(ts), Len(ts) < MaxTokens,
           SeatsBehind(new, tokens) => SeatsBehind(new, ts),
           StrictOK(new, tokens, at) => StrictOK(new, ts, at),
           NEW k \in TokenType, k.created >= 1,
           \A t \in DOMAIN ts : Good(ts[t]) => ts[t].act # k.act,
           Mode = "enforce" => Bound(new, k.device) /\ RowsOf(new, k.device) # {},
           Strict => \E i \in Active(new) : new[i].device = k.device /\ k.gen = i
    PROVE  /\ TokensOK(Append(ts, k)) /\ SeatsBehind(new, Append(ts, k))
           /\ StrictOK(new, Append(ts, k), at)
<1> DEFINE us == Append(ts, k)
<1>1. /\ TokensOK(us)
      /\ \A t \in DOMAIN us : us[t] = k \/ (t \in DOMAIN ts /\ us[t] = ts[t])
    BY TokenAdded
<1> HIDE DEF us
<1>2. SeatsBehind(new, ts) /\ StrictOK(new, ts, at)
    BY DEF Taken, StrictOK
<1>3. SeatsBehind(new, us)
    BY <1>1, <1>2 DEF SeatsBehind
<1>4. ASSUME Strict PROVE InOrder(new, at) /\ Registered(new, us) /\ NamesSeat(new, us)
  <2>1. Mode = "enforce"
      BY <1>4 DEF Strict
  <2>2. InOrder(new, at) /\ Registered(new, ts) /\ NamesSeat(new, ts)
      BY <1>2, <1>4 DEF StrictOK
  <2>3. Registered(new, us)
      BY <1>1, <2>1, <2>2 DEF Registered
  <2>4. NamesSeat(new, us)
      BY <1>1, <1>4, <2>2 DEF NamesSeat
  <2> QED
      BY <2>2, <2>3, <2>4
<1>5. StrictOK(new, us, at)
    BY <1>4 DEF StrictOK
<1> QED
    BY <1>1, <1>3, <1>5 DEF us

\* What issueLicenseTokenPair does once it has the lock.
Answers(a, d, since, now, new, gen) ==
    \/ /\ ~Allows(new, d, since) /\ rows' = new
       /\ poll' = [poll EXCEPT ![a] = NoPoll] /\ UNCHANGED tokens
    \/ /\ Allows(new, d, since) /\ rows' = new
       /\ \/ poll' = [poll EXCEPT ![a] = [poll[a] EXCEPT !.stage = "issued"]]
          \/ poll' = [poll EXCEPT ![a] = NoPoll]
       /\ UNCHANGED tokens
    \/ poll' = [poll EXCEPT ![a] = NoPoll] /\ UNCHANGED <<rows, tokens>>
    \/ /\ Allows(new, d, since) /\ rows' = new /\ ~Collides(a, gen)
       /\ Len(tokens) < MaxTokens
       /\ tokens' = Append(tokens, Token(a, d, gen, 0, now))
       /\ poll' = [poll EXCEPT ![a] = [poll[a] EXCEPT !.stage = "issued"]]

LEMMA PollIssueAnswers ==
    ASSUME IInv, NEW a \in Activations, PollIssue(a)
    PROVE  \E now \in Nat, at \in Nat : \E new, gen :
             /\ now >= 1 /\ (Strict => now = Later)
             /\ new = Seated(rows, act[a].device, poll[a].issuedAt, now) /\ Len(new) <= MaxRows
             /\ gen = Generation(new, Nearest(new, act[a].device))
             /\ Answers(a, act[a].device, poll[a].issuedAt, now, new, gen)
             /\ clock' = at /\ at >= clock
             /\ at = (IF rows' = rows /\ tokens' = tokens THEN clock ELSE Later)
<1> DEFINE d == act[a].device  since == poll[a].issuedAt
<1>1. clock \in Nat /\ poll[a] \in PollType /\ poll[a].stage = "checked"
      /\ poll \in [Activations -> PollType] /\ (Waits => poll[a].began >= 1)
    BY DEF PollIssue, IInv, StateOK, PollsOK
<1>2. [poll EXCEPT ![a].stage = "issued"] = [poll EXCEPT ![a] = [poll[a] EXCEPT !.stage = "issued"]]
    BY <1>1
<1>3. PICK now \in Times(a) :
        LET new == Seated(rows, d, since, now)
            gen == Generation(new, Nearest(new, d))
        IN /\ Len(new) <= MaxRows
           /\ Answers(a, d, since, now, new, gen)
           /\ clock' = IF rows' = rows /\ tokens' = tokens THEN clock ELSE Later
    BY <1>2 DEF PollIssue, Answers
<1>4. now \in Nat /\ now >= 1 /\ (Strict => now = Later)
    BY <1>1 DEF Times, Later, PollType, Strict
<1>5. PICK at : at = IF rows' = rows /\ tokens' = tokens THEN clock ELSE Later
    OBVIOUS
<1>6. at \in Nat /\ at >= clock
    BY <1>1, <1>5 DEF Later
<1>7. PICK new : new = Seated(rows, d, since, now)
    OBVIOUS
<1>8. PICK gen : gen = Generation(new, Nearest(new, d))
    OBVIOUS
<1>9. /\ Len(new) <= MaxRows /\ Answers(a, d, since, now, new, gen)
      /\ clock' = IF rows' = rows /\ tokens' = tokens THEN clock ELSE Later
    BY <1>3, <1>7, <1>8
<1>10. /\ now \in Nat /\ at \in Nat /\ now >= 1 /\ (Strict => now = Later)
       /\ new = Seated(rows, d, since, now) /\ Len(new) <= MaxRows
       /\ gen = Generation(new, Nearest(new, d))
       /\ Answers(a, d, since, now, new, gen)
       /\ clock' = at /\ at >= clock
       /\ at = (IF rows' = rows /\ tokens' = tokens THEN clock ELSE Later)
    BY <1>4, <1>5, <1>6, <1>7, <1>8, <1>9
<1> QED
    BY <1>10

LEMMA PollIssueInv == ASSUME IInv, NEW a \in Activations, PollIssue(a) PROVE IInv'
<1> DEFINE d == act[a].device  since == poll[a].issuedAt
<1>0. PICK now \in Nat, at \in Nat : \E new, gen :
        /\ now >= 1 /\ (Strict => now = Later)
        /\ new = Seated(rows, d, since, now) /\ Len(new) <= MaxRows
        /\ gen = Generation(new, Nearest(new, d))
        /\ Answers(a, d, since, now, new, gen)
        /\ clock' = at /\ at >= clock
        /\ at = (IF rows' = rows /\ tokens' = tokens THEN clock ELSE Later)
    BY PollIssueAnswers
<1>1. PICK new, gen :
        /\ now >= 1 /\ (Strict => now = Later)
        /\ new = Seated(rows, d, since, now) /\ Len(new) <= MaxRows
        /\ gen = Generation(new, Nearest(new, d))
        /\ Answers(a, d, since, now, new, gen)
        /\ clock' = at /\ at >= clock
        /\ at = (IF rows' = rows /\ tokens' = tokens THEN clock ELSE Later)
    BY <1>0
<1>2. d \in Devices /\ since \in Nat /\ poll[a] \in PollType /\ poll[a].stage = "checked"
      /\ (Strict /\ since # 0 => RowsOf(rows, d) # {})
    BY PollShows DEF PollIssue
<1>3. UNCHANGED <<act, claim, license, losing>>
    BY DEF PollIssue
<1>4. clock \in Nat /\ TokensOK(tokens) /\ RegistryOK(rows)
    BY DEF IInv, StateOK
<1>5. (rows' = new => Taken(new, at)) /\ Taken(rows, at)
  <2>1. ASSUME rows' = new PROVE Taken(new, at)
    <3>1. new # rows => at = Later
        BY <1>1, <2>1
    <3> QED
        BY <1>1, <1>2, <3>1, SeatTaken
  <2>2. Taken(rows, at)
    <3>1. rows \in Seq(RowType)
        BY <1>4 DEF RegistryOK
    <3>2. \A i \in DOMAIN rows : rows[i].activated \in Nat
        BY <3>1, RowsFacts DEF RowType
    <3>3. InOrder(rows, clock) => InOrder(rows, at)
        BY <1>1, <1>4, <3>2 DEF InOrder
    <3>4. Len(rows) \in Nat
        BY <3>1, LenProperties
    <3> QED
        BY <3>3, <3>4 DEF Taken, IInv, StrictOK
  <2> QED
      BY <2>1, <2>2
<1>6. PICK p \in PollType, q \in PollType :
        /\ p = NoPoll /\ p.stage = "idle" /\ p.issuedAt = 0
        /\ q = [poll[a] EXCEPT !.stage = "issued"] /\ q.stage = "issued" /\ q.issuedAt = since
  <2>1. [poll[a] EXCEPT !.stage = "issued"] \in PollType
      BY <1>2 DEF PollType
  <2>2. /\ [poll[a] EXCEPT !.stage = "issued"].stage = "issued"
        /\ [poll[a] EXCEPT !.stage = "issued"].issuedAt = since
      BY <1>2 DEF PollType
  <2> QED
      BY <2>1, <2>2, NoPollFacts
<1>7. ASSUME Allows(new, d, since), Mode = "enforce" PROVE Bound(new, d) /\ RowsOf(new, d) # {}
    BY <1>1, <1>2, <1>4, <1>7, GivenNamesSeat
<1>8. CASE tokens' = tokens
  <2>1. ASSUME NEW r, Taken(r, at), rows' = r,
               NEW v \in {p, q}, poll' = [poll EXCEPT ![a] = v],
               v = q => Allows(new, d, since) /\ r = new
        PROVE  IInv'
    <3>1. Strict /\ v.stage = "issued" => RowsOf(r, d) # {}
        BY <1>6, <1>7, <2>1 DEF Strict
    <3>2. v \in PollType /\ v.issuedAt \in {0, since} /\ v.stage # "checked"
        BY <1>6
    <3>3. StateOK' /\ RegistryOK(rows') /\ ClaimsOK' /\ PollsOK' /\ StrictActs'
        BY <1>1, <1>2, <1>3, <2>1, <3>1, <3>2, PollSeated
    <3>4. TokensOK(tokens') /\ SeatsBehind(rows', tokens') /\ StrictOK(rows', tokens', clock')
        BY <1>1, <1>4, <1>8, <2>1 DEF Taken, StrictOK
    <3> QED
        BY <3>3, <3>4 DEF IInv
  <2>3. CASE ~Allows(new, d, since) /\ rows' = new /\ poll' = [poll EXCEPT ![a] = NoPoll]
      BY <1>2, <1>5, <1>6, <2>1, <2>3
  <2>4. CASE /\ Allows(new, d, since) /\ rows' = new
             /\ \/ poll' = [poll EXCEPT ![a] = [poll[a] EXCEPT !.stage = "issued"]]
                \/ poll' = [poll EXCEPT ![a] = NoPoll]
      BY <1>5, <1>6, <2>1, <2>4
  <2>5. CASE poll' = [poll EXCEPT ![a] = NoPoll] /\ UNCHANGED <<rows, tokens>>
      BY <1>5, <1>6, <2>1, <2>5
  <2> QED
      BY <1>1, <2>3, <2>4, <2>5 DEF Answers
<1>9. CASE tokens' # tokens
  <2>1. /\ Allows(new, d, since) /\ rows' = new /\ ~Collides(a, gen)
        /\ Len(tokens) < MaxTokens
        /\ tokens' = Append(tokens, Token(a, d, gen, 0, now))
        /\ poll' = [poll EXCEPT ![a] = q]
      BY <1>1, <1>6, <1>9 DEF Answers
  <2>2. Taken(new, at) /\ new \in Seq(RowType)
      BY <1>5, <2>1 DEF Taken, RegistryOK
  <2>3. PICK k \in TokenType : k = Token(a, d, gen, 0, now) /\ k.created >= 1
                               /\ k.act = a /\ k.device = d /\ k.gen = gen
    <3>1. gen \in Nat
        BY <1>1, <2>2, GenerationType
    <3>2. now \in Nat /\ now >= 1 /\ 0 \in 0..MaxTokens
        BY <1>1, DeviceAssumption
    <3> DEFINE new_token == Token(a, d, gen, 0, now)
    <3>3. new_token \in TokenType
        BY <1>2, <3>1, <3>2 DEF Token, TokenType
    <3>4. /\ new_token.created = now /\ new_token.act = a
          /\ new_token.device = d /\ new_token.gen = gen
        BY DEF Token
    <3> QED
        BY <3>2, <3>3, <3>4
  <2>4. \A t \in DOMAIN tokens : Good(tokens[t]) => tokens[t].act # k.act
      BY <2>1, <2>3 DEF Collides, Live, Good
  <2>5. Mode = "enforce" => Bound(new, k.device) /\ RowsOf(new, k.device) # {}
      BY <1>7, <2>1, <2>3
  <2>6. Strict => \E i \in Active(new) : new[i].device = k.device /\ k.gen = i
    <3> SUFFICES ASSUME Strict
                 PROVE  \E i \in Active(new) : new[i].device = k.device /\ k.gen = i
        OBVIOUS
    <3>1. Mode = "enforce" /\ InOrder(new, at)
        BY <2>2 DEF Taken, Strict
    <3>2. \E i \in Active(new) : new[i].device = d /\ Generation(new, Nearest(new, d)) = i
      <4>1. \A z : InOrder(new, z) =>
              \E i \in Active(new) : new[i].device = d /\ Generation(new, Nearest(new, d)) = i
        <5>1. /\ RegistryOK(rows) /\ d \in Devices /\ since \in Nat /\ now \in Nat
              /\ new = Seated(rows, d, since, now) /\ Len(new) <= MaxRows
              /\ Mode = "enforce" /\ Allows(new, d, since)
            BY <1>1, <1>2, <1>4, <2>1, <3>1
        <5> QED
            BY <5>1, GivenNamesSeat
      <4> QED
          BY <3>1, <4>1
    <3> QED
        BY <1>1, <2>3, <3>2
  <2>7. TokensOK(tokens') /\ SeatsBehind(rows', tokens') /\ StrictOK(rows', tokens', clock')
    <3>1. /\ TokensOK(Append(tokens, k)) /\ SeatsBehind(new, Append(tokens, k))
          /\ StrictOK(new, Append(tokens, k), at)
      <4>1. PICK ts : ts = tokens
          OBVIOUS
      <4> QED
          BY <1>4, <2>1, <2>2, <2>3, <2>4, <2>5, <2>6, <4>1, TokenGiven
    <3> QED
        BY <1>1, <2>1, <2>3, <3>1
  <2>8. StateOK' /\ RegistryOK(rows') /\ ClaimsOK' /\ PollsOK' /\ StrictActs'
    <3>1. Strict => RowsOf(new, d) # {}
        BY <1>7, <2>1 DEF Strict
    <3> QED
        BY <1>1, <1>2, <1>3, <1>6, <2>1, <2>2, <3>1, PollSeated
  <2> QED
      BY <2>7, <2>8 DEF IInv
<1> QED
    BY <1>8, <1>9

-----------------------------------------------------------------------------
(* Credentials *)

LEMMA SeatsMove ==
    ASSUME IInv, NEW new, NEW at \in Nat, Taken(new, at), rows' = new, clock' = at,
           UNCHANGED <<act, poll, claim, license, losing>>
    PROVE  StateOK' /\ RegistryOK(rows') /\ ClaimsOK' /\ PollsOK' /\ StrictActs'
<1>1. ClaimsOK' /\ \A e : RowsOf(rows, e) # {} => RowsOf(rows', e) # {}
    BY ClaimsStay
<1>2. StateOK' /\ PollsOK' /\ StrictActs'
    BY <1>1 DEF IInv, StateOK, PollsOK, StrictActs
<1>3. RegistryOK(rows')
    BY DEF Taken
<1> QED
    BY <1>1, <1>2, <1>3

LEMMA TakenNone == ASSUME IInv, NEW at \in Nat, at >= clock PROVE Taken(rows, at)
<1>1. rows \in Seq(RowType) /\ clock \in Nat
    BY DEF IInv, StateOK, RegistryOK
<1>2. \A i \in DOMAIN rows : rows[i].activated \in Nat
    BY <1>1, RowsFacts DEF RowType
<1>3. InOrder(rows, clock) => InOrder(rows, at)
    BY <1>1, <1>2 DEF InOrder
<1>4. Len(rows) \in Nat
    BY <1>1, LenProperties
<1> QED
    BY <1>3, <1>4 DEF Taken, IInv, StrictOK

\* A token as it is presented.
LEMMA TokenShows ==
    ASSUME IInv, NEW t \in DOMAIN tokens
    PROVE  /\ tokens[t] \in TokenType /\ tokens[t].device \in Devices
           /\ tokens[t].created \in Nat \ {0} /\ t \in 0..MaxTokens
           /\ Strict => RowsOf(rows, tokens[t].device) # {}
<1>1. tokens \in Seq(TokenType) /\ Len(tokens) <= MaxTokens /\ MaxTokens \in Nat
    BY DeviceAssumption DEF IInv, TokensOK
<1>2. tokens[t] \in TokenType /\ t \in 1..Len(tokens) /\ Len(tokens) \in Nat
    BY <1>1, TokensFacts
<1>3. tokens[t].device \in Devices /\ tokens[t].created \in Nat
    BY <1>2 DEF TokenType
<1>4. tokens[t].created >= 1
    BY DEF IInv, TokensOK
<1>5. Strict => RowsOf(rows, tokens[t].device) # {}
    BY DEF IInv, StrictOK, Registered
<1> QED
    BY <1>1, <1>2, <1>3, <1>4, <1>5

LEMMA VerifyInv == ASSUME IInv, NEW t \in DOMAIN tokens, Verify(t) PROVE IInv'
<1> DEFINE d == tokens[t].device  since == tokens[t].created
<1>1. d \in Devices /\ since \in Nat /\ (Strict => RowsOf(rows, d) # {})
    BY TokenShows
<1>2. clock \in Nat /\ TokensOK(tokens)
    BY DEF IInv, StateOK
<1>3. PICK at \in Nat : at = Later /\ at >= clock
    BY <1>2 DEF Later
<1>4. PICK new : new = Seated(rows, d, since, at)
    OBVIOUS
<1>5. /\ Len(new) <= MaxRows /\ rows' = new /\ clock' = at
      /\ UNCHANGED <<tokens, act, poll, claim, license, losing>>
    BY <1>3, <1>4 DEF Verify
<1>6. Taken(new, at)
    BY <1>1, <1>3, <1>4, <1>5, SeatTaken
<1>7. StateOK' /\ RegistryOK(rows') /\ ClaimsOK' /\ PollsOK' /\ StrictActs'
    BY <1>5, <1>6, SeatsMove
<1>8. TokensOK(tokens') /\ SeatsBehind(rows', tokens') /\ StrictOK(rows', tokens', clock')
    BY <1>2, <1>5, <1>6 DEF Taken, StrictOK
<1> QED
    BY <1>7, <1>8 DEF IInv

LEMMA RevokeFewer ==
    ASSUME IInv, NEW t \in DOMAIN tokens
    PROVE  Fewer(Revoke(t), tokens) /\ ~Good(Revoke(t)[t])
<1>1. tokens \in Seq(TokenType) /\ tokens[t] \in TokenType
    BY TokenShows DEF IInv, TokensOK
<1>2. Len(tokens) \in Nat /\ DOMAIN tokens = 1..Len(tokens)
      /\ \A s \in DOMAIN tokens : tokens[s] \in TokenType
    BY <1>1, TokensFacts
<1> DEFINE k == [tokens[t] EXCEPT !.revoked = TRUE]
<1>3. k \in TokenType /\ k.act = tokens[t].act /\ k.device = tokens[t].device
      /\ k.gen = tokens[t].gen /\ k.created = tokens[t].created /\ k.revoked
    BY <1>1 DEF TokenType
<1>4. Revoke(t) = [tokens EXCEPT ![t] = k]
    BY <1>2 DEF Revoke
<1> HIDE DEF k
<1>5. /\ DOMAIN Revoke(t) = DOMAIN tokens /\ Revoke(t)[t] = k
      /\ \A s \in DOMAIN tokens : s # t => Revoke(t)[s] = tokens[s]
    BY <1>4
<1>6. Revoke(t) \in [1..Len(tokens) -> TokenType]
    BY <1>2, <1>3, <1>4
<1>7. Revoke(t) \in Seq(TokenType)
    BY <1>2, <1>6, SeqDef
<1> QED
    BY <1>3, <1>5, <1>7 DEF Fewer, Good

LEMMA PresentedIsToken ==
    ASSUME NEW t \in DOMAIN tokens, Live(t) \/ Successors(t) # {}
    PROVE  Presented(t) \in DOMAIN tokens
    BY DEF Presented, Successors

LEMMA RefreshInactiveInv ==
    ASSUME IInv, NEW t \in DOMAIN tokens, RefreshInactive(t) PROVE IInv'
<1>1. PICK s \in DOMAIN tokens : s = Presented(t)
    BY PresentedIsToken DEF RefreshInactive
<1>2. PICK us : us = Revoke(s)
    OBVIOUS
<1>3. tokens' = us /\ Fewer(us, tokens) /\ UNCHANGED <<clock, rows, act, poll, claim, license, losing>>
    BY <1>1, <1>2, RevokeFewer DEF RefreshInactive
<1>4. TokensOK(us) /\ SeatsBehind(rows, us) /\ StrictOK(rows, us, clock)
    BY <1>3, FewerTokens DEF IInv
<1>5. StateOK' /\ ClaimsOK' /\ PollsOK' /\ StrictActs'
    BY <1>3 DEF IInv, StateOK, ClaimsOK, PollsOK, StrictActs
<1> QED
    BY <1>3, <1>4, <1>5 DEF IInv

LEMMA RefreshInv == ASSUME IInv, NEW t \in DOMAIN tokens, Refresh(t) PROVE IInv'
<1> DEFINE d == tokens[t].device
<1>1. PICK s \in DOMAIN tokens : s = Presented(t)
    BY PresentedIsToken DEF Refresh
<1> DEFINE since == tokens[s].created
<1>2. /\ tokens[t] \in TokenType /\ d \in Devices /\ since \in Nat
      /\ t \in 0..MaxTokens /\ (Strict => RowsOf(rows, d) # {})
    BY TokenShows
<1>3. clock \in Nat /\ TokensOK(tokens) /\ RegistryOK(rows) /\ tokens \in Seq(TokenType)
    BY DEF IInv, StateOK, TokensOK
<1>4. PICK new : new = Seated(rows, d, since, Later)
    OBVIOUS
<1>5. PICK gen : gen = Generation(new, Nearest(new, d))
    OBVIOUS
<1>6. PICK at : at = IF rows' = rows /\ tokens' = tokens THEN clock ELSE Later
    OBVIOUS
<1>7. /\ Len(new) <= MaxRows /\ clock' = at
      /\ UNCHANGED <<act, poll, claim, license, losing>>
      /\ \/ ~Allows(new, d, since) /\ rows' = new /\ UNCHANGED tokens
         \/ Allows(new, d, since) /\ rows' = new /\ Rotates(t, gen)
         \/ rows' = (IF Replays(s, gen) THEN new ELSE rows) /\ UNCHANGED tokens
    BY <1>1, <1>4, <1>5, <1>6 DEF Refresh
<1>8. Later \in Nat /\ at \in Nat /\ at >= clock /\ (rows' # rows => at = Later)
    BY <1>3, <1>6 DEF Later
<1>9. rows' = new => Taken(new, at)
    BY <1>2, <1>4, <1>7, <1>8, SeatTaken
<1>10. Taken(rows, at)
    BY <1>8, TakenNone
<1>11. ASSUME NEW r, Taken(r, at), rows' = r
       PROVE  StateOK' /\ RegistryOK(rows') /\ ClaimsOK' /\ PollsOK' /\ StrictActs'
    BY <1>7, <1>8, <1>11, SeatsMove
<1>12. CASE UNCHANGED tokens
  <2>1. PICK r : Taken(r, at) /\ rows' = r
      BY <1>7, <1>9, <1>10, <1>12
  <2>2. TokensOK(tokens') /\ SeatsBehind(rows', tokens') /\ StrictOK(rows', tokens', clock')
      BY <1>3, <1>7, <1>12, <2>1 DEF Taken, StrictOK
  <2> QED
      BY <1>11, <2>1, <2>2 DEF IInv
<1>13. CASE Allows(new, d, since) /\ rows' = new /\ Rotates(t, gen)
  <2>1. Taken(new, at) /\ new \in Seq(RowType)
      BY <1>9, <1>13 DEF Taken, RegistryOK
  <2>2. PICK ts : ts = Revoke(t)
      OBVIOUS
  <2>3. Fewer(ts, tokens) /\ ~Good(ts[t])
      BY <2>2, RevokeFewer
  <2>4. /\ TokensOK(ts) /\ Len(ts) = Len(tokens)
        /\ SeatsBehind(new, tokens) => SeatsBehind(new, ts)
        /\ StrictOK(new, tokens, at) => StrictOK(new, ts, at)
      BY <1>3, <2>3, FewerTokens
  <2>5. PICK k \in TokenType : k = Token(tokens[t].act, d, gen, t, Later) /\ k.created >= 1
                               /\ k.act = tokens[t].act /\ k.device = d /\ k.gen = gen
    <3>1. gen \in Nat
        BY <1>5, <2>1, GenerationType
    <3>2. tokens[t].act \in Activations
        BY <1>2 DEF TokenType
    <3> DEFINE new_token == Token(tokens[t].act, d, gen, t, Later)
    <3>3. new_token \in TokenType
        BY <1>2, <1>8, <3>1, <3>2 DEF Token, TokenType
    <3>4. /\ new_token.created = Later /\ new_token.act = tokens[t].act
          /\ new_token.device = d /\ new_token.gen = gen
        BY DEF Token
    <3>5. Later >= 1
        BY <1>3 DEF Later
    <3> QED
        BY <3>3, <3>4, <3>5
  <2>6. /\ Len(tokens) < MaxTokens /\ tokens' = Append(ts, k)
        /\ ~\E u \in DOMAIN tokens \ {t} : tokens[u].act = tokens[t].act /\ Live(u)
      BY <1>13, <2>2, <2>5 DEF Rotates
  <2>7. \A u \in DOMAIN ts : Good(ts[u]) => ts[u].act # k.act
      BY <2>3, <2>5, <2>6 DEF Fewer, Live, Good
  <2>8. Mode = "enforce" => Bound(new, k.device) /\ RowsOf(new, k.device) # {}
      BY <1>2, <1>3, <1>4, <1>7, <1>8, <1>13, <2>5, GivenNamesSeat
  <2>9. Strict => \E i \in Active(new) : new[i].device = k.device /\ k.gen = i
    <3> SUFFICES ASSUME Strict
                 PROVE  \E i \in Active(new) : new[i].device = k.device /\ k.gen = i
        OBVIOUS
    <3>1. Mode = "enforce" /\ InOrder(new, at)
        BY <2>1 DEF Taken, Strict
    <3>2. \E i \in Active(new) : new[i].device = d /\ Generation(new, Nearest(new, d)) = i
        BY <1>2, <1>3, <1>4, <1>7, <1>8, <1>13, <3>1, GivenNamesSeat
    <3> QED
        BY <1>5, <2>5, <3>2
  <2>10. /\ TokensOK(Append(ts, k)) /\ SeatsBehind(new, Append(ts, k))
         /\ StrictOK(new, Append(ts, k), at)
      BY <2>1, <2>4, <2>5, <2>6, <2>7, <2>8, <2>9, TokenGiven
  <2>11. TokensOK(tokens') /\ SeatsBehind(rows', tokens') /\ StrictOK(rows', tokens', clock')
      BY <1>7, <1>13, <2>6, <2>10
  <2> QED
      BY <1>11, <1>13, <2>1, <2>11 DEF IInv
<1> QED
    BY <1>7, <1>12, <1>13

-----------------------------------------------------------------------------
(* Seats are lost *)

\* Rows are marked as gone, and are otherwise as they were.
Gone(new, rs) ==
    /\ new \in Seq(RowType) /\ DOMAIN new = DOMAIN rs
    /\ \A i \in DOMAIN rs :
         /\ new[i].device = rs[i].device /\ new[i].slot = rs[i].slot
         /\ new[i].activated = rs[i].activated
         /\ new[i].gone = "no" => rs[i].gone = "no"

LEMMA GoneRows ==
    ASSUME NEW rs, RegistryOK(rs), NEW new, Gone(new, rs)
    PROVE  /\ RegistryOK(new) /\ Len(new) = Len(rs) /\ Active(new) \subseteq Active(rs)
           /\ \A d : RowsOf(new, d) = RowsOf(rs, d)
           /\ \A now : InOrder(rs, now) => InOrder(new, now)
<1>1. new \in Seq(RowType) /\ rs \in Seq(RowType) /\ DOMAIN new = DOMAIN rs
    BY DEF Gone, RegistryOK
<1>2. Len(new) = Len(rs)
    BY <1>1, LenProperties
<1>3. Active(new) \subseteq Active(rs) /\ \A d : RowsOf(new, d) = RowsOf(rs, d)
    BY DEF Gone, Active, RowsOf
<1>4. \A i, j \in DOMAIN rs : Before(new, i, j) <=> Before(rs, i, j)
    BY DEF Gone, Before
<1>5. SlotsOK(new)
    BY <1>1 DEF Gone, RegistryOK, SlotsOK
<1>6. OneSeat(new)
    BY <1>3 DEF Gone, RegistryOK, OneSeat, Active
<1>7. HasLatest(new)
  <2>1. \A d : RowsOf(rs, d) \subseteq DOMAIN rs
      BY DEF RowsOf
  <2> QED
      BY <1>3, <1>4, <2>1 DEF RegistryOK, HasLatest
<1>8. \A now : InOrder(rs, now) => InOrder(new, now)
    BY <1>1 DEF Gone, InOrder
<1> QED
    BY <1>1, <1>2, <1>3, <1>5, <1>6, <1>7, <1>8 DEF RegistryOK

LEMMA IsSequence ==
    ASSUME NEW S, NEW n \in Nat, NEW f \in [1..n -> S] PROVE f \in Seq(S)
    BY SeqDef

\* A bulk revocation.
LEMMA RevokeSome ==
    ASSUME IInv, NEW us, DOMAIN us = DOMAIN tokens,
           \A t \in DOMAIN tokens :
              \/ us[t] = tokens[t]
              \/ us[t] = [tokens[t] EXCEPT !.revoked = TRUE]
              \/ us[t] = [tokens[t] EXCEPT !.revoked = TRUE, !.refresh = FALSE],
           us = [t \in DOMAIN tokens |-> us[t]]
    PROVE  Fewer(us, tokens) /\ \A t \in DOMAIN tokens : us[t] # tokens[t] => ~Good(us[t])
<1>1. tokens \in Seq(TokenType)
    BY DEF IInv, TokensOK
<1>2. Len(tokens) \in Nat /\ DOMAIN tokens = 1..Len(tokens)
      /\ \A t \in DOMAIN tokens : tokens[t] \in TokenType
    BY <1>1, TokensFacts
<1>3. ASSUME NEW t \in DOMAIN tokens
      PROVE  /\ us[t] \in TokenType
             /\ us[t].act = tokens[t].act /\ us[t].device = tokens[t].device
             /\ us[t].gen = tokens[t].gen /\ us[t].created = tokens[t].created
             /\ us[t] = tokens[t] \/ ~Good(us[t])
  <2>1. tokens[t] \in TokenType
      BY <1>2
  <2>2. CASE us[t] = tokens[t]
      BY <2>1, <2>2
  <2>3. CASE us[t] = [tokens[t] EXCEPT !.revoked = TRUE]
      BY <2>1, <2>3 DEF TokenType, Good
  <2>4. CASE us[t] = [tokens[t] EXCEPT !.revoked = TRUE, !.refresh = FALSE]
      BY <2>1, <2>4 DEF TokenType, Good
  <2> QED
      BY <2>2, <2>3, <2>4
<1>4. us \in Seq(TokenType)
  <2>1. us \in [1..Len(tokens) -> TokenType]
      BY <1>2, <1>3
  <2> QED
      BY <1>2, <2>1, IsSequence
<1> QED
    BY <1>3, <1>4 DEF Fewer

LEMMA LoseLicenseInv == ASSUME IInv, LoseLicense PROVE IInv'
<1>1. PICK us : us = tokens'
    OBVIOUS
<1>2. /\ DOMAIN us = DOMAIN tokens
      /\ us = [t \in DOMAIN tokens |-> us[t]]
      /\ \A t \in DOMAIN tokens :
            \/ us[t] = tokens[t]
            \/ us[t] = [tokens[t] EXCEPT !.revoked = TRUE, !.refresh = FALSE]
    BY <1>1 DEF LoseLicense
<1>3. Fewer(us, tokens)
    BY <1>2, RevokeSome
<1>4. UNCHANGED <<clock, rows, act, poll, claim>> /\ license' = FALSE /\ losing' = {}
    BY DEF LoseLicense
<1>5. TokensOK(us) /\ SeatsBehind(rows, us) /\ StrictOK(rows, us, clock)
    BY <1>3, FewerTokens DEF IInv
<1>6. StateOK' /\ ClaimsOK' /\ PollsOK' /\ StrictActs'
    BY <1>4 DEF IInv, StateOK, ClaimsOK, PollsOK, StrictActs
<1> QED
    BY <1>1, <1>4, <1>5, <1>6 DEF IInv

LEMMA DeactivateInv == ASSUME IInv, Deactivate PROVE IInv'
<1>0. rows \in Seq(RowType) /\ clock \in Nat /\ RegistryOK(rows) /\ TokensOK(tokens)
    BY DEF IInv, RegistryOK, StateOK
<1>1. Len(rows) \in Nat /\ DOMAIN rows = 1..Len(rows) /\ \A i \in DOMAIN rows : rows[i] \in RowType
    BY <1>0, RowsFacts
<1>2. PICK new : new = [i \in DOMAIN rows |->
                          IF i \in Active(rows) THEN [rows[i] EXCEPT !.gone = "deactivated"]
                          ELSE rows[i]]
    OBVIOUS
<1>3. Gone(new, rows) /\ \A i \in DOMAIN new : new[i].gone # "no"
  <2>1. DOMAIN new = DOMAIN rows
      BY <1>2
  <2>2. ASSUME NEW i \in DOMAIN rows
        PROVE  /\ new[i] \in RowType
               /\ new[i].device = rows[i].device /\ new[i].slot = rows[i].slot
               /\ new[i].activated = rows[i].activated /\ new[i].gone # "no"
    <3>1. rows[i] \in RowType
        BY <1>1
    <3>2. CASE i \in Active(rows)
      <4>1. new[i] = [rows[i] EXCEPT !.gone = "deactivated"]
          BY <1>2, <3>2
      <4> QED
          BY <3>1, <4>1 DEF RowType
    <3>3. CASE i \notin Active(rows)
        BY <1>2, <3>1, <3>3 DEF Active
    <3> QED
        BY <3>2, <3>3
  <2>3. new \in [1..Len(rows) -> RowType]
      BY <1>1, <1>2, <2>2
  <2>4. new \in Seq(RowType)
      BY <1>1, <2>3, SeqDef
  <2> QED
      BY <2>1, <2>2, <2>4 DEF Gone
<1>4. /\ RegistryOK(new) /\ Len(new) = Len(rows) /\ Active(new) = {}
      /\ \A d : RowsOf(new, d) = RowsOf(rows, d)
      /\ \A now : InOrder(rows, now) => InOrder(new, now)
    BY <1>0, <1>3, GoneRows DEF Active
<1>5. PICK us : us = tokens'
    OBVIOUS
<1>6. /\ DOMAIN us = DOMAIN tokens
      /\ us = [t \in DOMAIN tokens |-> us[t]]
      /\ \A t \in DOMAIN tokens : us[t] = [tokens[t] EXCEPT !.revoked = TRUE]
    BY <1>5 DEF Deactivate
<1>7. Fewer(us, tokens) /\ \A t \in DOMAIN us : ~Good(us[t])
  <2>1. Fewer(us, tokens)
      BY <1>6, RevokeSome
  <2>2. \A t \in DOMAIN tokens : tokens[t] \in TokenType
      BY <1>0, TokensFacts DEF TokensOK
  <2>3. \A t \in DOMAIN us : ~Good(us[t])
      BY <1>6, <2>2 DEF TokenType, Good
  <2> QED
      BY <2>1, <2>3
<1>8. rows' = new /\ clock' = Later /\ UNCHANGED <<act, poll, claim, license, losing>>
    BY <1>2 DEF Deactivate
<1>9. TokensOK(us)
    BY <1>0, <1>7, FewerTokens
<1>10. SeatsBehind(new, us)
    BY <1>7 DEF SeatsBehind
<1>11. StrictOK(new, us, Later)
  <2>1. InOrder(rows, clock) => InOrder(new, Later)
    <3>1. \A i \in DOMAIN new : new[i].activated \in Nat
      <4>1. \A i \in DOMAIN new : new[i] \in RowType
          BY <1>4, RowsFacts DEF RegistryOK
      <4> QED
          BY <4>1 DEF RowType
    <3>2. InOrder(new, clock) => InOrder(new, Later)
        BY <1>0, <3>1 DEF InOrder, Later
    <3> QED
        BY <1>4, <3>2
  <2>2. Registered(rows, tokens) => Registered(new, us)
      BY <1>4, <1>7 DEF Registered, Fewer
  <2>3. NamesSeat(new, us)
      BY <1>7 DEF NamesSeat
  <2> QED
      BY <2>1, <2>2, <2>3 DEF IInv, StrictOK
<1>12. StateOK' /\ PollsOK' /\ StrictActs'
    BY <1>0, <1>4, <1>8 DEF IInv, StateOK, PollsOK, StrictActs, Later
<1>13. ClaimsOK'
    BY <1>4, <1>8 DEF IInv, ClaimsOK
<1> QED
    BY <1>4, <1>5, <1>8, <1>9, <1>10, <1>11, <1>12, <1>13 DEF IInv

LEMMA TransferInv == ASSUME IInv, NEW a \in Activations, Transfer(a) PROVE IInv'
<1> DEFINE d == act[a].device
<1>0. rows \in Seq(RowType) /\ clock \in Nat /\ RegistryOK(rows) /\ TokensOK(tokens)
    BY DEF IInv, RegistryOK, StateOK
<1>1. Len(rows) \in Nat /\ DOMAIN rows = 1..Len(rows) /\ \A i \in DOMAIN rows : rows[i] \in RowType
    BY <1>0, RowsFacts
<1>2. PICK p : p = claim[a].prior
    OBVIOUS
<1>3. /\ claim[a].stage = "claimed" /\ p \in Active(rows) /\ p \in DOMAIN rows
      /\ Len(rows) < MaxRows /\ clock' = Later
      /\ claim' = [claim EXCEPT ![a] = NoClaim]
      /\ UNCHANGED <<act, poll, license, losing>>
    BY <1>2 DEF Transfer, Active
<1>4. /\ d \in Devices /\ ~Bound(rows, d)
      /\ \A j \in Active(rows) : Before(rows, j, p)
    BY <1>2, <1>3 DEF IInv, ClaimsOK
<1>5. PICK left : left = [rows EXCEPT ![p].gone = "replaced"]
    OBVIOUS
<1>6. Gone(left, rows) /\ left[p].gone # "no" /\ \A i \in DOMAIN rows : i # p => left[i] = rows[i]
  <2> DEFINE r == [rows[p] EXCEPT !.gone = "replaced"]
  <2>1. rows[p] \in RowType
      BY <1>1, <1>3
  <2>2. r \in RowType /\ r.device = rows[p].device /\ r.slot = rows[p].slot
        /\ r.activated = rows[p].activated /\ r.gone = "replaced"
      BY <2>1 DEF RowType
  <2>3. left = [rows EXCEPT ![p] = r]
      BY <1>1, <1>5
  <2> HIDE DEF r
  <2>4. DOMAIN left = DOMAIN rows /\ left[p] = r /\ \A i \in DOMAIN rows : i # p => left[i] = rows[i]
      BY <1>3, <2>3
  <2>5. left \in [1..Len(rows) -> RowType]
      BY <1>1, <1>3, <2>2, <2>3
  <2>6. left \in Seq(RowType)
      BY <1>1, <2>5, SeqDef
  <2> QED
      BY <2>2, <2>4, <2>6 DEF Gone
<1>7. /\ RegistryOK(left) /\ Len(left) = Len(rows) /\ DOMAIN left = DOMAIN rows
      /\ Active(left) = Active(rows) \ {p}
      /\ \A e : RowsOf(left, e) = RowsOf(rows, e)
      /\ InOrder(rows, clock) => InOrder(left, clock)
  <2>1. Active(left) = Active(rows) \ {p}
      BY <1>6 DEF Gone, Active
  <2> QED
      BY <1>0, <1>6, <2>1, GoneRows DEF Gone
<1>8. PICK r \in RowType : /\ r = NewRow(d, rows[p].slot, Later, a)
                           /\ r.device = d /\ r.slot = rows[p].slot
                           /\ r.activated = Later /\ r.gone = "no"
  <2>1. rows[p].slot \in 1..MaxActive
      BY <1>1, <1>3 DEF RowType
  <2>2. Later \in Nat
      BY <1>0 DEF Later
  <2> DEFINE r == NewRow(d, rows[p].slot, Later, a)
  <2>3. r \in RowType
      BY <1>4, <2>1, <2>2 DEF NewRow, RowType
  <2>4. r.device = d /\ r.slot = rows[p].slot /\ r.activated = Later /\ r.gone = "no"
      BY DEF NewRow
  <2> QED
      BY <2>3, <2>4
<1>9. PICK new : new = Append(left, r)
    OBVIOUS
<1> DEFINE n == Len(rows) + 1
<1>10. /\ new \in Seq(RowType) /\ Len(new) = n
       /\ DOMAIN new = DOMAIN rows \cup {n} /\ n \notin DOMAIN rows /\ n \in Nat
       /\ new[n] = r /\ \A i \in DOMAIN rows : new[i] = left[i]
    BY <1>1, <1>7, <1>9, OneMore DEF RegistryOK
<1>11. RegistryOK(new)
  <2>1. \A i \in Active(left) : left[i].device # r.device /\ left[i].slot # r.slot
      BY <1>0, <1>3, <1>4, <1>6, <1>7, <1>8 DEF RegistryOK, SlotsOK, Bound, Active
  <2> QED
      BY <1>3, <1>7, <1>9, <2>1, AddedRow
<1>12. /\ Active(new) = (Active(rows) \ {p}) \cup {n}
       /\ \A e : RowsOf(rows, e) \subseteq RowsOf(new, e)
  <2>1. Active(new) = Active(left) \cup {n}
      BY <1>7, <1>8, <1>10 DEF Active
  <2>2. \A e : RowsOf(left, e) \subseteq RowsOf(new, e)
      BY <1>7, <1>10 DEF RowsOf
  <2> QED
      BY <1>7, <2>1, <2>2
<1>13. PICK us : us = tokens'
    OBVIOUS
<1>14. /\ DOMAIN us = DOMAIN tokens
       /\ us = [t \in DOMAIN tokens |-> us[t]]
       /\ \A t \in DOMAIN tokens :
            us[t] = IF tokens[t].device = rows[p].device
                    THEN [tokens[t] EXCEPT !.revoked = TRUE] ELSE tokens[t]
    BY <1>2, <1>13 DEF Transfer, Loses
<1>15. Fewer(us, tokens) /\ \A t \in DOMAIN us : Good(us[t]) => us[t].device # rows[p].device
  <2>1. Fewer(us, tokens)
      BY <1>14, RevokeSome
  <2>2. \A t \in DOMAIN tokens : tokens[t] \in TokenType
      BY <1>0, TokensFacts DEF TokensOK
  <2>3. ASSUME NEW t \in DOMAIN tokens, tokens[t].device = rows[p].device PROVE ~Good(us[t])
      BY <1>14, <2>2, <2>3 DEF TokenType, Good
  <2> QED
      BY <1>14, <2>1, <2>3 DEF Fewer
<1>16. rows' = new
    BY <1>2, <1>5, <1>8, <1>9 DEF Transfer
<1>17. TokensOK(us)
    BY <1>0, <1>15, FewerTokens
<1>18. ASSUME NEW i \in Active(rows), rows[i].device # rows[p].device
       PROVE  i \in Active(new) /\ new[i].device = rows[i].device
    BY <1>6, <1>10, <1>12, <1>18 DEF Active
<1>19. SeatsBehind(new, us)
    BY <1>15, <1>18 DEF IInv, SeatsBehind, Bound, Fewer
<1>20. ASSUME Strict PROVE InOrder(new, Later) /\ Registered(new, us) /\ NamesSeat(new, us)
  <2>1. InOrder(left, clock) /\ Registered(rows, tokens) /\ NamesSeat(rows, tokens)
      BY <1>7, <1>20 DEF IInv, StrictOK
  <2>2. \A i \in DOMAIN rows : new[i].activated \in Nat /\ new[i].activated <= clock
    <3>1. \A i \in DOMAIN new : new[i] \in RowType
        BY <1>10, RowsFacts
    <3> QED
        BY <1>7, <1>10, <2>1, <3>1 DEF InOrder, RowType
  <2>3. \A i \in DOMAIN new : new[i].activated <= Later
      BY <1>0, <1>8, <1>10, <2>2 DEF Later
  <2>4. \A i, j \in DOMAIN new : i < j => new[i].activated < new[j].activated
    <3> SUFFICES ASSUME NEW i \in DOMAIN new, NEW j \in DOMAIN new, i < j
                 PROVE  new[i].activated < new[j].activated
        OBVIOUS
    <3>1. i \in DOMAIN rows
        BY <1>1, <1>10
    <3>2. CASE j = n
        BY <1>0, <1>8, <1>10, <2>2, <3>1, <3>2 DEF Later
    <3>3. CASE j \in DOMAIN rows
        BY <1>7, <1>10, <2>1, <3>1, <3>3 DEF InOrder
    <3> QED
        BY <1>10, <3>2, <3>3
  <2>5. Registered(new, us)
      BY <1>12, <1>15, <2>1 DEF Registered, Fewer
  <2>6. NamesSeat(new, us)
      BY <1>15, <1>18, <2>1 DEF NamesSeat, Fewer
  <2> QED
      BY <2>3, <2>4, <2>5, <2>6 DEF InOrder
<1>21. StateOK' /\ PollsOK' /\ StrictActs'
  <2>1. claim' \in [Activations -> ClaimType]
      BY <1>3, NoClaimFacts, DeviceAssumption DEF IInv, StateOK
  <2>2. StateOK'
      BY <1>0, <1>3, <2>1 DEF IInv, StateOK, Later
  <2>3. PollsOK' /\ StrictActs'
      BY <1>3, <1>12, <1>16 DEF IInv, PollsOK, StrictActs
  <2> QED
      BY <2>2, <2>3
<1>22. ClaimsOK'
  <2>1. ASSUME NEW b \in Activations
        PROVE  /\ claim'[b].stage # "idle" => act[b].device \in Devices
               /\ claim'[b].prior <= Len(new)
               /\ ~(claim'[b].stage \in {"decided", "claimed"} /\ claim'[b].prior \in Active(new))
    <3>1. CASE b = a
      <4>1. claim'[b] = NoClaim
          BY <1>3, <3>1 DEF IInv, StateOK
      <4> QED
          BY <1>10, <4>1, NoClaimFacts
    <3>2. CASE b # a
      <4>1. claim'[b] = claim[b] /\ claim[b].prior \in Nat
          BY <1>3, <3>2, DeviceAssumption DEF IInv, StateOK, ClaimType
      <4>2. /\ claim[b].stage # "idle" => act[b].device \in Devices
            /\ claim[b].prior <= Len(rows)
            /\ claim[b].stage \in {"decided", "claimed"} /\ claim[b].prior \in Active(rows) =>
                 \A j \in Active(rows) : Before(rows, j, claim[b].prior)
          BY DEF IInv, ClaimsOK
      <4>3. ASSUME claim[b].stage \in {"decided", "claimed"}, claim[b].prior \in Active(new)
            PROVE  FALSE
        <5>1. claim[b].prior \in Active(rows) /\ claim[b].prior # p
            BY <1>1, <1>10, <1>12, <4>1, <4>2, <4>3
        <5>2. Before(rows, p, claim[b].prior) /\ Before(rows, claim[b].prior, p)
            BY <1>3, <1>4, <4>2, <4>3, <5>1
        <5> QED
            BY <1>0, <1>3, <5>1, <5>2, BeforeIsTotal DEF Active
      <4> QED
          BY <1>1, <1>10, <4>1, <4>2, <4>3
    <3> QED
        BY <3>1, <3>2
  <2> QED
      BY <1>3, <1>16, <2>1 DEF ClaimsOK
<1>23. RegistryOK(rows') /\ TokensOK(tokens') /\ SeatsBehind(rows', tokens')
    BY <1>11, <1>13, <1>16, <1>17, <1>19
<1>24. StrictOK(rows', tokens', clock')
    BY <1>3, <1>13, <1>16, <1>20 DEF StrictOK
<1> QED
    BY <1>21, <1>22, <1>23, <1>24 DEF IInv

-----------------------------------------------------------------------------
(* Every step *)

LEMMA NextInv == ASSUME IInv, [Next]_vars PROVE IInv'
<1>1. ASSUME NEW a \in Activations, NEW d \in Devices, Start(a, d) PROVE IInv'
    BY <1>1, StartInv
<1>2. ASSUME NEW a \in Activations,
             \/ BindCheckout(a)
             \/ OpenPage(a) \/ Post(a) \/ ClaimActivation(a) \/ Transfer(a)
             \/ LeaveClaim(a)
             \/ PollRead(a) \/ PollCheck(a) \/ PollIssue(a) \/ PollComplete(a)
             \/ PollStops(a)
      PROVE  IInv'
    BY <1>2, BindCheckoutInv, OpenPageInv, PostInv, ClaimActivationInv, TransferInv,
       LeaveClaimInv, PollReadInv, PollCheckInv, PollIssueInv, PollCompleteInv, PollStopsInv
<1>3. ASSUME NEW t \in DOMAIN tokens, RefreshInactive(t) \/ Refresh(t) \/ Verify(t)
      PROVE  IInv'
  <2>1. PICK u : u = t
      OBVIOUS
  <2> QED
      BY <1>3, RefreshInactiveInv, RefreshInv, VerifyInv
<1>4. Deactivate => IInv'
    BY DeactivateInv
<1>5. BeginLoss \/ RestoreLicense => IInv'
    BY LicenseInv
<1>6. LoseLicense => IInv'
    BY LoseLicenseInv
<1>7. ASSUME UNCHANGED vars PROVE IInv'
  <2>1. UNCHANGED <<clock, rows, tokens, act, poll, claim, license, losing>>
      BY <1>7 DEF vars
  <2>2. StateOK' /\ ClaimsOK' /\ PollsOK' /\ StrictActs'
      BY <2>1 DEF IInv, StateOK, ClaimsOK, PollsOK, StrictActs
  <2> QED
      BY <2>1, <2>2 DEF IInv
<1> QED
    BY <1>1, <1>2, <1>3, <1>4, <1>5, <1>6, <1>7 DEF Next

LEMMA Invariance == Spec => []IInv
<1>1. Init => IInv
    BY InitInv
<1>2. IInv /\ [Next]_vars => IInv'
    BY NextInv
<1> QED
    BY <1>1, <1>2, PTL DEF Spec

-----------------------------------------------------------------------------
(* What the invariant says *)

\* Everything has its type, no slot has two rows and no activation two live
\* tokens.
THEOREM TypeCorrect == Spec => []TypeOK
<1>1. IInv => TypeOK
  <2> SUFFICES ASSUME IInv PROVE TypeOK
      OBVIOUS
  <2>1. rows \in Seq(RowType) /\ tokens \in Seq(TokenType)
      BY DEF IInv, RegistryOK, TokensOK
  <2>2. \A i, j \in DOMAIN rows :
          rows[i].gone = "no" /\ rows[j].gone = "no" /\ rows[i].slot = rows[j].slot => i = j
      BY DEF IInv, RegistryOK, SlotsOK
  <2>3. \A s, t \in DOMAIN tokens :
          /\ ~tokens[s].revoked /\ tokens[s].refresh
          /\ ~tokens[t].revoked /\ tokens[t].refresh
          /\ tokens[s].act = tokens[t].act
          => s = t
      BY DEF IInv, TokensOK, Good
  <2> QED
      BY <2>1, <2>2, <2>3 DEF IInv, StateOK, TypeOK
<1> QED
    BY <1>1, Invariance, PTL

LEMMA SeatsFollow == IInv => OneSeatPerDevice /\ LiveTokenHasSeat /\ LostAnswerReplays
<1> SUFFICES ASSUME IInv PROVE OneSeatPerDevice /\ LiveTokenHasSeat /\ LostAnswerReplays
    OBVIOUS
<1>1. OneSeatPerDevice
    BY DEF IInv, RegistryOK, OneSeat, OneSeatPerDevice
<1>2. LiveTokenHasSeat
    BY DEF IInv, SeatsBehind, LiveTokenHasSeat, Live, Good
<1>3. ASSUME Strict, NEW t \in DOMAIN tokens, Live(t)
      PROVE  Replays(t, Generation(rows, Nearest(rows, tokens[t].device)))
  <2>1. PICK i \in Active(rows) : rows[i].device = tokens[t].device /\ tokens[t].gen = i
      BY <1>3 DEF IInv, StrictOK, NamesSeat, Live, Good
  <2>2. Nearest(rows, tokens[t].device) = i
      BY <2>1, NearestIsSeat DEF IInv
  <2>3. Generation(rows, i) = i
    <3>1. rows \in Seq(RowType) /\ InOrder(rows, clock) /\ i \in DOMAIN rows
        BY <1>3, <2>1 DEF IInv, RegistryOK, StrictOK, Active
    <3>2. PICK now : now = clock
        OBVIOUS
    <3> QED
        BY <3>1, <3>2, GenerationInOrder
  <2> QED
      BY <2>1, <2>2, <2>3 DEF Replays
<1>4. LostAnswerReplays
    BY <1>3 DEF LostAnswerReplays, Strict
<1> QED
    BY <1>1, <1>2, <1>4

-----------------------------------------------------------------------------
(* A lost seat does not come back by a credential *)

Returns ==
    \A d \in Devices :
        RowsOf(rows, d) # {} /\ ~Bound(rows, d) /\ Bound(rows', d)
          => \/ \E a \in Activations : act[a].device = d /\ claim[a].stage = "claimed"
             \/ \E a \in Activations : /\ act[a].device = d
                                       /\ poll[a].stage \in {"read", "checked"}
                                       /\ poll[a].issuedAt = 0

\* A seat that is taken is taken for the device that asks, and with a
\* credential only if the device never had one.
LEMMA SeatedReturns ==
    ASSUME IInv, NEW d \in Devices, NEW e \in Devices, NEW since \in Nat, NEW now \in Nat,
           Len(Seated(rows, e, since, now)) <= MaxRows,
           RowsOf(rows, d) # {}, ~Bound(rows, d), Bound(Seated(rows, e, since, now), d)
    PROVE  d = e /\ since = 0
<1> DEFINE new == Seated(rows, e, since, now)
<1>1. RegistryOK(rows)
    BY DEF IInv
<1>2. Grown(rows, new, e, since, now)
    BY <1>1, SeatedFacts
<1> HIDE DEF new
<1>3. Bound(new, d)
    BY DEF new
<1>4. d = e
    BY <1>2, <1>3 DEF Grown, Bound, Active
<1>5. since = 0
    BY <1>1, <1>4, NoSeatAgain
<1> QED
    BY <1>4, <1>5

LEMMA PollReturns ==
    ASSUME IInv, NEW a \in Activations, PollCheck(a) \/ PollIssue(a) PROVE Returns
<1> SUFFICES ASSUME NEW d \in Devices, RowsOf(rows, d) # {}, ~Bound(rows, d), Bound(rows', d)
             PROVE  act[a].device = d /\ poll[a].stage \in {"read", "checked"} /\ poll[a].issuedAt = 0
    BY DEF Returns
<1>1. poll[a].stage \in {"read", "checked"}
    BY DEF PollCheck, PollIssue
<1>2. act[a].device \in Devices /\ poll[a].issuedAt \in Nat
    BY <1>1, PollShows
<1>3. clock \in Nat
    BY DEF IInv, StateOK
<1>4. PICK now \in Nat :
        /\ Len(Seated(rows, act[a].device, poll[a].issuedAt, now)) <= MaxRows
        /\ Bound(Seated(rows, act[a].device, poll[a].issuedAt, now), d)
  <2>1. CASE PollCheck(a)
    <3>1. Later \in Nat
        BY <1>3 DEF Later
    <3>2. /\ rows' = Seated(rows, act[a].device, poll[a].issuedAt, Later)
          /\ Len(Seated(rows, act[a].device, poll[a].issuedAt, Later)) <= MaxRows
        BY <2>1 DEF PollCheck
    <3> QED
        BY <3>1, <3>2
  <2>2. CASE PollIssue(a)
    <3>1. PICK now \in Nat, at \in Nat : \E new, gen :
            /\ new = Seated(rows, act[a].device, poll[a].issuedAt, now) /\ Len(new) <= MaxRows
            /\ Answers(a, act[a].device, poll[a].issuedAt, now, new, gen)
        BY <2>2, PollIssueAnswers
    <3>2. PICK new, gen :
            /\ new = Seated(rows, act[a].device, poll[a].issuedAt, now) /\ Len(new) <= MaxRows
            /\ Answers(a, act[a].device, poll[a].issuedAt, now, new, gen)
        BY <3>1
    <3>3. rows' = new \/ rows' = rows
        BY <3>2 DEF Answers
    <3> QED
        BY <3>2, <3>3
  <2> QED
      BY <2>1, <2>2
<1> QED
    BY <1>1, <1>2, <1>4, SeatedReturns

LEMMA CredentialReturns ==
    ASSUME IInv, NEW t \in DOMAIN tokens, Refresh(t) \/ Verify(t) PROVE Returns
<1> SUFFICES ASSUME NEW d \in Devices, RowsOf(rows, d) # {}, ~Bound(rows, d), Bound(rows', d)
             PROVE  FALSE
    BY DEF Returns
<1>1. PICK s \in DOMAIN tokens :
        /\ Len(Seated(rows, tokens[t].device, tokens[s].created, Later)) <= MaxRows
        /\ rows' = Seated(rows, tokens[t].device, tokens[s].created, Later) \/ rows' = rows
  <2>1. CASE Refresh(t)
    <3>1. Presented(t) \in DOMAIN tokens
        BY <2>1, PresentedIsToken DEF Refresh
    <3>2. PICK s \in DOMAIN tokens : s = Presented(t)
        BY <3>1
    <3> QED
        BY <2>1, <3>2 DEF Refresh
  <2>2. CASE Verify(t)
      BY <2>2 DEF Verify
  <2> QED
      BY <2>1, <2>2
<1>2. tokens[t].device \in Devices /\ tokens[s].created \in Nat \ {0}
    BY TokenShows
<1>3. Later \in Nat
    BY DEF IInv, StateOK, Later
<1>4. PICK e \in Devices, since \in Nat \ {0}, now \in Nat :
        /\ Len(Seated(rows, e, since, now)) <= MaxRows
        /\ rows' = Seated(rows, e, since, now) \/ rows' = rows
    BY <1>1, <1>2, <1>3
<1>5. Bound(Seated(rows, e, since, now), d)
    BY <1>4
<1> QED
    BY <1>4, <1>5, SeatedReturns

LEMMA TransferReturns == ASSUME IInv, NEW a \in Activations, Transfer(a) PROVE Returns
<1> SUFFICES ASSUME NEW d \in Devices, ~Bound(rows, d), Bound(rows', d)
             PROVE  act[a].device = d /\ claim[a].stage = "claimed"
    BY DEF Returns
<1>1. rows \in Seq(RowType) /\ Len(rows) \in Nat /\ DOMAIN rows = 1..Len(rows)
    BY RowsFacts DEF IInv, RegistryOK
<1>2. PICK p : p = claim[a].prior
    OBVIOUS
<1> DEFINE left == [rows EXCEPT ![p].gone = "replaced"]
           r == NewRow(act[a].device, rows[p].slot, Later, a)
<1>3. rows' = Append(left, r) /\ claim[a].stage = "claimed" /\ p \in DOMAIN rows
    BY <1>2 DEF Transfer, Active
<1>4. /\ DOMAIN left = DOMAIN rows /\ Len(left) = Len(rows)
      /\ \A i \in DOMAIN rows : left[i].device = rows[i].device
                                /\ (left[i].gone = "no" => rows[i].gone = "no")
  <2>1. DOMAIN left = DOMAIN rows /\ \A i \in DOMAIN rows : i # p => left[i] = rows[i]
      OBVIOUS
  <2>2. left[p] = [rows[p] EXCEPT !.gone = "replaced"]
      BY <1>3
  <2>3. rows[p] \in RowType
      BY <1>1, <1>3, RowsFacts
  <2>4. left[p].device = rows[p].device /\ left[p].gone = "replaced"
      BY <2>2, <2>3 DEF RowType
  <2>5. Len(left) = Len(rows)
      BY <1>1, <2>1
  <2> QED
      BY <2>1, <2>4, <2>5
<1> QED
  <2>1. r.device = act[a].device
      BY DEF NewRow
  <2> HIDE DEF left, r
  <2>2. PICK i \in DOMAIN rows' : rows'[i].gone = "no" /\ rows'[i].device = d
      BY DEF Bound, Active
  <2>3. CASE i \in DOMAIN rows
    <3>1. rows'[i] = left[i]
        BY <1>1, <1>3, <1>4, <2>3
    <3> QED
        BY <1>4, <2>2, <2>3, <3>1 DEF Bound, Active
  <2>4. CASE i \notin DOMAIN rows
    <3>1. rows'[i] = r
        BY <1>1, <1>3, <1>4, <2>2, <2>4
    <3> QED
        BY <1>3, <2>1, <2>2, <3>1
  <2> QED
      BY <2>3, <2>4

\* Nobody gets a seat while the rows stay, or when both are given up.
LEMMA NoneReturns == ASSUME IInv, rows' = rows \/ Deactivate PROVE Returns
<1>1. CASE rows' = rows
    BY <1>1 DEF Returns
<1>2. CASE Deactivate
  <2>1. ASSUME NEW i \in DOMAIN rows' PROVE rows'[i].gone # "no"
    <3>1. rows \in Seq(RowType) /\ i \in DOMAIN rows
        BY <1>2, <2>1 DEF Deactivate, IInv, RegistryOK
    <3>2. rows[i] \in RowType
        BY <3>1, RowsFacts
    <3> QED
        BY <1>2, <3>1, <3>2 DEF Deactivate, Active, RowType
  <2> QED
      BY <2>1 DEF Returns, Bound, Active
<1> QED
    BY <1>1, <1>2

LEMMA NextReturns == ASSUME IInv, [Next]_vars PROVE [Returns]_vars
<1>1. ASSUME NEW a \in Activations, NEW d \in Devices, Start(a, d) PROVE rows' = rows
    BY <1>1 DEF Start
<1>2. ASSUME NEW a \in Activations,
             \/ BindCheckout(a)
             \/ OpenPage(a) \/ Post(a) \/ ClaimActivation(a) \/ LeaveClaim(a)
             \/ PollRead(a) \/ PollComplete(a) \/ PollStops(a)
      PROVE  rows' = rows
    BY <1>2 DEF BindCheckout, OpenPage, Post, ClaimActivation, LeaveClaim,
                PollRead, PollComplete, PollStops
<1>3. ASSUME NEW t \in DOMAIN tokens, RefreshInactive(t) PROVE rows' = rows
    BY <1>3 DEF RefreshInactive
<1>4. BeginLoss \/ LoseLicense \/ RestoreLicense => rows' = rows
    BY DEF BeginLoss, LoseLicense, RestoreLicense
<1>5. ASSUME NEW a \in Activations, PollCheck(a) \/ PollIssue(a) \/ Transfer(a) PROVE Returns
    BY <1>5, PollReturns, TransferReturns
<1>6. ASSUME NEW t \in DOMAIN tokens, Refresh(t) \/ Verify(t) PROVE Returns
    BY <1>6, CredentialReturns
<1> QED
    BY <1>1, <1>2, <1>3, <1>4, <1>5, <1>6, NoneReturns DEF Next

\* The seats of an account, under any number of devices, polls and moves, any
\* policy mode and with devices that predate the registry: one seat to a
\* device, no live token without a seat, replays after a lost answer, and no
\* lost seat back by a credential.
THEOREM SeatsCorrect == Spec => SeatsHold
<1>1. IInv => OneSeatPerDevice /\ LiveTokenHasSeat /\ LostAnswerReplays
    BY SeatsFollow
<1>2. IInv /\ [Next]_vars => [Returns]_vars
    BY NextReturns
<1>3. Spec => [](OneSeatPerDevice /\ LiveTokenHasSeat /\ LostAnswerReplays)
    BY <1>1, Invariance, PTL
<1>4. Spec => [][Returns]_vars
    BY <1>2, Invariance, PTL DEF Spec
<1>5. [][Returns]_vars => NoReturnByCredential
    BY PTL DEF Returns, NoReturnByCredential
<1> QED
    BY <1>3, <1>4, <1>5 DEF SeatsHold

\* Two devices at most can download, in every policy mode and however many
\* tokens still live: authorizeLicenseDownload asks for the seat itself.
THEOREM DownloadsSeated == Spec => []TwoDevicesDownload
<1>1. IInv => TwoDevicesDownload
  <2> SUFFICES ASSUME IInv, NEW t \in DOMAIN tokens, NEW u \in DOMAIN tokens,
                      NEW v \in DOMAIN tokens, Authorizes(t), Authorizes(u), Authorizes(v)
               PROVE  \/ tokens[t].device = tokens[u].device
                      \/ tokens[u].device = tokens[v].device
                      \/ tokens[t].device = tokens[v].device
      BY DEF TwoDevicesDownload
  <2>1. PICK i \in Active(rows) : rows[i].device = tokens[t].device
      BY DEF Authorizes, Bound
  <2>2. PICK j \in Active(rows) : rows[j].device = tokens[u].device
      BY DEF Authorizes, Bound
  <2>3. PICK k \in Active(rows) : rows[k].device = tokens[v].device
      BY DEF Authorizes, Bound
  <2>4. \A x \in Active(rows) : rows[x].slot \in {1, 2}
    <3>1. rows \in Seq(RowType)
        BY DEF IInv, RegistryOK
    <3>2. \A x \in DOMAIN rows : rows[x] \in RowType
        BY <3>1, RowsFacts
    <3> QED
        BY <3>2 DEF Active, RowType, MaxActive
  <2>5. \A x, y \in Active(rows) : rows[x].slot = rows[y].slot => x = y
      BY DEF IInv, RegistryOK, SlotsOK, Active
  <2>6. i = j \/ j = k \/ i = k
      BY <2>4, <2>5
  <2> QED
      BY <2>1, <2>2, <2>3, <2>6
<1> QED
    BY <1>1, Invariance, PTL
=============================================================================
