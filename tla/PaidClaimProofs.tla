-------------------------- MODULE PaidClaimProofs ---------------------------
(***************************************************************************)
(* Proofs about PaidClaim, for any sets of payments, accounts, activations, *)
(* installations, runs and reconcilers.  Only claims are given an           *)
(* activation, and with it a binding; a run that sends has marked the mail  *)
(* as being sent; and a merge is looked at again once it is made.           *)
(***************************************************************************)
EXTENDS PaidClaim, TLAPS

\* The kinds of identity are told apart, and None is none of them.
Separate ==
    /\ None \notin Payments \cup Accounts \cup Activations \cup Installs
    /\ Accounts \cap (Activations \cup Installs) = {}
    /\ Activations \cap Installs = {}

\* What a run works on has been paid, and paid by an account.
PaidFirst ==
    /\ \A p \in Payments : facts[p] # "unpaid" => buyer[p] \in Accounts
    /\ \A p \in Payments : paid[p].completed => facts[p] # "unpaid"
    /\ \A r \in Runs : run[r].stage # "idle" =>
         run[r].payment \in Payments /\ facts[run[r].payment] # "unpaid"

\* The rows of a payment are made together.
RowsTogether ==
    \A p \in Payments :
        /\ claim[p].state # "absent" <=> paid[p].completed
        /\ outbox[p].state # "absent" <=> paid[p].completed
        /\ outbox[p].due => outbox[p].state \in {"pending", "retryable"}
        /\ claim[p].state = "absent" => claim[p] = NoClaim

\* A claim that can still be made names no other address than its buyer's; one
\* with an activation has its binding.
ClaimInv ==
    \A p \in Payments :
        /\ claim[p].account \in {None, buyer[p]}
        /\ claim[p].state \in {"absent", "unclaimed", "claimed"}
             => claim[p].google \in {None, buyer[p]}
        /\ claim[p].activation # None =>
             /\ activation[claim[p].activation].account = buyer[p]
             /\ \E b \in bindings : b.payment = p /\ b.activation = claim[p].activation

\* A run that sends has marked the mail, alone.
SendersMarked ==
    \A r \in Runs : run[r].stage \in Sending => outbox[run[r].payment].state = "sending"

\* The stages only a claim comes to.
Claiming == {"bind", "claim"} \cup Outcomes

\* A run that claims has an activation and an account, and whatever has an
\* account, a review or a binding has a profile.
Profiled ==
    /\ \A r \in Runs : run[r].stage \in Claiming => run[r].goal = "claim"
    /\ \A r \in Runs : run[r].goal = "claim" =>
         /\ run[r].activation \in Activations /\ run[r].account \in Accounts
         /\ profile[run[r].activation] # None
    /\ \A a \in Activations : activation[a].account # None => profile[a] # None
    /\ \A x \in review : profile[x[2]] # None
    /\ \A b \in bindings : profile[b.install] # None

\* An activation is bound for one payment.
OneBinding ==
    \A b, c \in bindings : b.activation = c.activation => b.payment = c.payment

\* What a run made of a claim when it read it was made for the claim's own
\* activation, and a claim was granted to the buyer: both stay what they were.
Decides(r, s) ==
    s \in Outcomes =>
        /\ claim[run[r].payment].activation = run[r].activation
        /\ s = "claimed" => run[r].account = buyer[run[r].payment]

Decided == \A r \in Runs : Decides(r, run[r].stage)

\* A linkage under way is the one of its activation's account.
Linked == \A l \in linking : activation[l.activation].account = l.account

ClaimsIInv ==
    /\ TypeOK
    /\ PaidFirst
    /\ RowsTogether
    /\ ClaimInv
    /\ SendersMarked /\ OneSender
    /\ Profiled /\ BindingsConverge /\ OneBinding
    /\ Linked /\ Decided

-----------------------------------------------------------------------------
(* Linkages, by what they link *)

Associates(p, a, acc) ==
    /\ [payment |-> p, activation |-> a, account |-> acc] \in linking
    /\ Associate([payment |-> p, activation |-> a, account |-> acc])

\* The steps of the linkage of a confirmed activation.
Linkage ==
    \/ \E a \in Activations, acc \in Accounts : ClaimActivation(a, acc)
    \/ \E p \in Payments, a \in Activations, acc \in Accounts : Link(p, a, acc)
    \/ \E p \in Payments, a \in Activations, acc \in Accounts : Associates(p, a, acc)
    \/ \E l \in linking : Unlink(l)

LEMMA LinkageIs ==
    ASSUME TypeOK,
           \/ \E a \in Activations, acc \in Accounts : ClaimActivation(a, acc)
           \/ \E p \in Payments, a \in Activations, acc \in Accounts : Link(p, a, acc)
           \/ \E l \in linking : Associate(l) \/ Unlink(l)
    PROVE  Linkage
<1>1. ASSUME NEW l \in linking, Associate(l) PROVE Linkage
  <2>1. l \in Linkages
      BY DEF TypeOK
  <2>2. PICK p \in Payments, a \in Activations, acc \in Accounts :
            l = [payment |-> p, activation |-> a, account |-> acc]
      BY <2>1 DEF Linkages
  <2>3. Associates(p, a, acc)
      BY <1>1, <2>2 DEF Associates
  <2> QED
      BY <2>3 DEF Linkage
<1> QED
    BY <1>1 DEF Linkage

LEMMA AssociateIs ==
    ASSUME NEW p, NEW a, NEW acc, Associates(p, a, acc)
    PROVE  /\ Claimable(p, a, acc) /\ ExactIdentity(a, acc)
           /\ OwnersAgree(profile, a, acc, activation[a].install)
           /\ NoOtherBinding(p, a, acc, activation[a].install)
           /\ stageOwner' = [stageOwner EXCEPT ![activation[a].install] = p]
           /\ claim' = [claim EXCEPT ![p].activation = a, ![p].state = "claimed"]
           /\ paid' = [paid EXCEPT ![p].claim = "claimed"]
           /\ profile' = Merged(IF profile[a] = profile[activation[a].install] THEN profile[acc]
                                ELSE profile[activation[a].install], profile[a])
           /\ OwnersAgree(profile', a, acc, activation[a].install)
           /\ bindings' = bindings \cup {Binding(p, a, acc, activation[a].install)}
           /\ linking' \subseteq linking
           /\ UNCHANGED <<truth, outbox, run, recon, activation, review>>
    BY DEF Associates, Associate

-----------------------------------------------------------------------------
(* Types *)

LEMMA InitType == ASSUME Init PROVE TypeOK
    BY DEF Init, TypeOK, NoPaid, NoClaim, NoMail, Idle, Stages, ClaimStates, Identities,
           PaidRows, ClaimRows, MailRows, RunRows, ReconRows,
           ActivationRows

LEMMA CompletedTyped ==
    ASSUME TypeOK, NEW p \in Payments
    PROVE  CompletedClaim(p) \in ClaimRows
<1>1. claim[p] \in ClaimRows /\ buyer[p] \in Accounts \cup {None}
    BY DEF TypeOK
<1>2. CASE claim[p].state = "absent"
    BY <1>1, <1>2 DEF CompletedClaim, NoClaim, ClaimStates, ClaimRows
<1>3. CASE claim[p].state # "absent"
  <2>1. PICK x : x = IF claim[p].account = None THEN buyer[p] ELSE claim[p].account
      OBVIOUS
  <2>2. x \in Accounts \cup {None}
      BY <1>1, <2>1 DEF ClaimRows
  <2>3. CompletedClaim(p) = [claim[p] EXCEPT !.account = x]
      BY <1>3, <2>1, <1>1 DEF CompletedClaim, ClaimRows
  <2> QED
      BY <1>1, <2>2, <2>3 DEF ClaimRows
<1> QED
    BY <1>2, <1>3

LEMMA StatesTyped ==
    /\ \A f : StatusOf(f) \in {"active", "suspended", "revoked"}
    /\ \A c : PaymentState(c) \in {"active", "refunded", "disputed"}
    BY DEF StatusOf, PaymentState

\* A Goto or a Stop keeps the types of the runs.
LEMMA RunsTyped ==
    ASSUME TypeOK, NEW r \in Runs
    PROVE  /\ \A s \in Stages : Goto(r, s) => run' \in [Runs -> RunRows]
           /\ Stop(r) => run' \in [Runs -> RunRows]
<1>1. Idle \in RunRows
    BY DEF Idle, Stages, RunRows
<1>2. ASSUME NEW s \in Stages, Goto(r, s) PROVE run' \in [Runs -> RunRows]
    BY <1>2 DEF Goto, TypeOK, RunRows
<1>3. ASSUME Stop(r) PROVE run' \in [Runs -> RunRows]
    BY <1>1, <1>3 DEF Stop, TypeOK
<1> QED
    BY <1>2, <1>3
LEMMA WorldTyped ==
    ASSUME TypeOK,
           \/ \E p \in Payments, b \in Accounts : Pay(p, b)
           \/ \E p \in Payments : Turn(p) \/ ExpireReceipt(p) \/ MailDue(p)
           \/ \E a \in Activations, i \in Installs \cup {None} : StartActivation(a, i)
           \/ \E i \in Installs, e \in Activations \cup Accounts \cup {None} : SeeInstall(i, e)
           \/ \E a \in Activations : ExpireActivation(a)
    PROVE  TypeOK'
<1>1. ASSUME NEW p \in Payments, NEW b \in Accounts, Pay(p, b) PROVE TypeOK'
    BY <1>1 DEF Pay, TypeOK, rows, identity
<1>2. ASSUME NEW p \in Payments, Turn(p) PROVE TypeOK'
  <2>1. PICK f \in {"paid", "refunded", "open", "won", "lost"} :
            facts' = [facts EXCEPT ![p] = f]
    <3>1. CASE facts[p] = "paid"
        BY <1>2, <3>1 DEF Turn
    <3>2. CASE facts[p] = "refunded"
        BY <1>2, <3>2 DEF Turn
    <3>3. CASE facts[p] = "open"
        BY <1>2, <3>3 DEF Turn
    <3>4. CASE facts[p] = "won"
        BY <1>2, <3>4 DEF Turn
    <3>5. CASE facts[p] # "paid" /\ facts[p] # "refunded" /\ facts[p] # "open"
               /\ facts[p] # "won"
      <4>1. (CASE facts[p] = "paid" -> {"refunded", "open"}
               [] facts[p] = "refunded" -> {"paid"}
               [] facts[p] = "open" -> {"won", "lost"}
               [] facts[p] = "won" -> {"refunded"}
               [] OTHER -> {}) = {}
          BY <3>5
      <4> QED
          BY <1>2, <4>1 DEF Turn
    <3> QED
        BY <3>1, <3>2, <3>3, <3>4, <3>5
  <2> QED
      BY <1>2, <2>1 DEF Turn, TypeOK, rows, identity
<1>3. ASSUME NEW p \in Payments, ExpireReceipt(p) PROVE TypeOK'
  <2>1. [paid[p] EXCEPT !.expired = TRUE] \in PaidRows
    <3>1. paid[p] \in PaidRows
        BY DEF TypeOK
    <3> QED
        BY <3>1 DEF PaidRows
  <2>2. paid' \in [Payments -> PaidRows]
      BY <1>3, <2>1 DEF ExpireReceipt, TypeOK
  <2> QED
      BY <1>3, <2>2 DEF ExpireReceipt, TypeOK, truth, identity
<1>4. ASSUME NEW p \in Payments, MailDue(p) PROVE TypeOK'
  <2>1. [outbox[p] EXCEPT !.due = TRUE] \in MailRows
    <3>1. outbox[p] \in MailRows
        BY DEF TypeOK
    <3> QED
        BY <3>1 DEF MailRows
  <2>2. outbox' \in [Payments -> MailRows]
      BY <1>4, <2>1 DEF MailDue, TypeOK
  <2> QED
      BY <1>4, <2>2 DEF MailDue, TypeOK, truth, rows, identity
<1>5. ASSUME NEW a \in Activations, NEW i \in Installs \cup {None}, StartActivation(a, i)
      PROVE  TypeOK'
  <2>1. profile' \in [Identities -> Identities \cup {None}]
      BY <1>5 DEF StartActivation, TypeOK, Identities
  <2>2. [activation[a] EXCEPT !.install = i] \in ActivationRows
    <3>1. activation[a] \in ActivationRows
        BY DEF TypeOK
    <3> QED
        BY <3>1 DEF ActivationRows
  <2>3. activation' \in [Activations -> ActivationRows]
      BY <1>5, <2>2 DEF StartActivation, TypeOK
  <2> QED
      BY <1>5, <2>1, <2>3 DEF StartActivation, TypeOK, truth, rows
<1>6. ASSUME NEW i \in Installs, NEW e \in Activations \cup Accounts \cup {None},
             SeeInstall(i, e)
      PROVE  TypeOK'
  <2>1. profile' \in [Identities -> Identities \cup {None}]
      BY <1>6 DEF SeeInstall, TypeOK, Identities
  <2> QED
      BY <1>6, <2>1 DEF SeeInstall, TypeOK, truth, rows
<1>7. ASSUME NEW a \in Activations, ExpireActivation(a) PROVE TypeOK'
  <2>1. [activation[a] EXCEPT !.expired = TRUE] \in ActivationRows
    <3>1. activation[a] \in ActivationRows
        BY DEF TypeOK
    <3> QED
        BY <3>1 DEF ActivationRows
  <2>2. activation' \in [Activations -> ActivationRows]
      BY <1>7, <2>1 DEF ExpireActivation, TypeOK
  <2> QED
      BY <1>7, <2>2 DEF ExpireActivation, TypeOK, truth, rows, identity
<1> QED
    BY <1>1, <1>2, <1>3, <1>4, <1>5, <1>6, <1>7

LEMMA AttachTyped ==
    ASSUME TypeOK, NEW a \in Activations, NEW acc \in Accounts, AttachAccount(a, acc)
    PROVE  /\ activation' \in [Activations -> ActivationRows]
           /\ profile' \in [Identities -> Identities \cup {None}]
           /\ review' \subseteq Activations \X Accounts
<1>1. [activation[a] EXCEPT !.account = acc] \in ActivationRows
  <2>1. activation[a] \in ActivationRows
      BY DEF TypeOK
  <2> QED
      BY <2>1 DEF ActivationRows
<1>2. activation' \in [Activations -> ActivationRows]
    BY <1>1 DEF AttachAccount, TypeOK
<1>3. profile' \in [Identities -> Identities \cup {None}]
    BY DEF AttachAccount, TypeOK, Identities
<1> QED
    BY <1>2, <1>3 DEF AttachAccount, TypeOK
LEMMA RowsAt ==
    ASSUME TypeOK
    PROVE  /\ \A p \in Payments : paid[p] \in PaidRows /\ claim[p] \in ClaimRows
                                  /\ outbox[p] \in MailRows
           /\ \A r \in Runs : run[r] \in RunRows
           /\ \A c \in Reconcilers : recon[c] \in ReconRows
           /\ \A a \in Activations : activation[a] \in ActivationRows
    BY DEF TypeOK

LEMMA StepTyped ==
    ASSUME TypeOK, PaidFirst, Profiled, NEW r \in Runs, Step(r)
    PROVE  TypeOK'
<1>t. /\ \A s \in Stages : Goto(r, s) => run' \in [Runs -> RunRows]
      /\ Stop(r) => run' \in [Runs -> RunRows]
    BY RunsTyped
<1>r. run[r] \in RunRows
    BY RowsAt
<1>1. ASSUME NEW p \in Payments, Visit(r, p) PROVE TypeOK'
  <2>1. [Idle EXCEPT !.goal = "visit", !.payment = p, !.stage = "fulfil"] \in RunRows
      BY DEF Idle, RunRows, Stages
  <2>2. run' \in [Runs -> RunRows]
      BY <1>1, <2>1 DEF Visit, TypeOK
  <2> QED
      BY <1>1, <2>2 DEF Visit, TypeOK, truth, rows, identity
<1>2. ASSUME NEW p \in Payments, OpenArtifact(r, p) PROVE TypeOK'
  <2>1. [Idle EXCEPT !.goal = "artifact", !.payment = p, !.stage = "fulfil"] \in RunRows
      BY DEF Idle, RunRows, Stages
  <2>2. run' \in [Runs -> RunRows]
      BY <1>2, <2>1 DEF OpenArtifact, TypeOK
  <2> QED
      BY <1>2, <2>2 DEF OpenArtifact, TypeOK, truth, rows, identity
<1>3. ASSUME NEW p \in Payments, NEW a \in Activations, NEW acc \in Accounts,
             OpenClaim(r, p, a, acc)
      PROVE  TypeOK'
  <2>1. PICK s \in {"fulfil", "claim"} : s = IF acc = buyer[p] THEN "fulfil" ELSE "claim"
      OBVIOUS
  <2>2. [goal |-> "claim", payment |-> p, activation |-> a, account |-> acc, stage |-> s]
          \in RunRows
      BY DEF RunRows, Stages
  <2>3. run' = [run EXCEPT ![r] = [goal |-> "claim", payment |-> p, activation |-> a,
                                   account |-> acc, stage |-> s]]
      BY <1>3, <2>1 DEF OpenClaim
  <2>4. run' \in [Runs -> RunRows]
      BY <2>2, <2>3 DEF TypeOK
  <2> QED
      BY <1>3, <2>4 DEF OpenClaim, TypeOK, truth, rows, identity
<1>4. ASSUME FulfilLicence(r) PROVE TypeOK'
  <2>1. run' \in [Runs -> RunRows]
      BY <1>4, <1>t DEF FulfilLicence, Stages
  <2>2. licence' \in [Payments -> {"absent", "active", "suspended", "revoked"}]
      BY <1>4, StatesTyped DEF FulfilLicence, TypeOK
  <2> QED
      BY <1>4, <2>1, <2>2 DEF FulfilLicence, TypeOK, rows, identity
<1>5. ASSUME Complete(r) PROVE TypeOK'
  <2> DEFINE p == run[r].payment
  <2>1. run' \in [Runs -> RunRows]
      BY <1>5, <1>t DEF Complete, Stages
  <2>2. p \in Payments
      BY <1>5 DEF Complete, At, PaidFirst
  <2>3. [paid[p] EXCEPT !.completed = TRUE, !.payment = "active"] \in PaidRows
      BY <2>2, RowsAt DEF PaidRows
  <2>4. paid' = [paid EXCEPT ![p] = [paid[p] EXCEPT !.completed = TRUE, !.payment = "active"]]
    <3>1. paid' = [paid EXCEPT ![p].completed = TRUE, ![p].payment = "active"]
        BY <1>5 DEF Complete
    <3>2. paid \in [Payments -> PaidRows]
        BY DEF TypeOK
    <3> QED
        BY <3>1, <3>2, <2>2 DEF PaidRows
  <2>5. paid' \in [Payments -> PaidRows]
      BY <2>3, <2>4 DEF TypeOK
  <2>6. claim' \in [Payments -> ClaimRows]
      BY <1>5, <2>2, CompletedTyped DEF Complete, TypeOK
  <2>7. PICK x \in MailRows : outbox' = [outbox EXCEPT ![p] = x]
    <3>1. [state |-> "pending", due |-> TRUE] \in MailRows /\ outbox[p] \in MailRows
        BY <2>2, RowsAt DEF MailRows
    <3> QED
        BY <1>5, <3>1 DEF Complete
  <2>8. outbox' \in [Payments -> MailRows]
      BY <2>7 DEF TypeOK
  <2> QED
      BY <1>5, <2>1, <2>5, <2>6, <2>8 DEF Complete, TypeOK, truth, identity
<1>6. ASSUME ClaimMail(r) PROVE TypeOK'
  <2>1. run' \in [Runs -> RunRows]
      BY <1>6, <1>t DEF ClaimMail, Stages, Sending
  <2>2. [state |-> "sending", due |-> FALSE] \in MailRows
      BY DEF MailRows
  <2>3. outbox' \in [Payments -> MailRows]
      BY <1>6, <2>2 DEF ClaimMail, TypeOK
  <2> QED
      BY <1>6, <2>1, <2>3 DEF ClaimMail, TypeOK, truth, rows, identity
<1>7. ASSUME SendMail(r) PROVE TypeOK'
  <2>1. run' \in [Runs -> RunRows]
      BY <1>7, <1>t DEF SendMail, Stages, Sending
  <2> QED
      BY <1>7, <2>1 DEF SendMail, TypeOK, truth, rows, identity
<1>8. ASSUME MarkMail(r) PROVE TypeOK'
  <2>1. run' \in [Runs -> RunRows]
      BY <1>8, <1>t DEF MarkMail, Stages, Sending
  <2>2. PICK s \in {"accepted", "retryable", "dead_letter"} : s = run[r].stage
      BY <1>8 DEF MarkMail
  <2>3. [state |-> s, due |-> FALSE] \in MailRows
      BY DEF MailRows
  <2>4. outbox' \in [Payments -> MailRows]
      BY <1>8, <2>2, <2>3 DEF MarkMail, TypeOK
  <2> QED
      BY <1>8, <2>1, <2>4 DEF MarkMail, TypeOK, truth, rows, identity
<1>9. ASSUME Reread(r) \/ Serve(r) \/ Die(r) PROVE TypeOK'
  <2>1. run' \in [Runs -> RunRows]
    <3>1. CASE Reread(r)
        BY <3>1, <1>t DEF Reread, Stages
    <3>2. CASE Serve(r)
        BY <3>2, <1>t DEF Serve
    <3>3. CASE Die(r)
        BY <3>3, <1>t DEF Die
    <3> QED
        BY <1>9, <3>1, <3>2, <3>3
  <2>2. UNCHANGED <<truth, rows, outbox, recon, activation, identity>>
      BY <1>9 DEF Reread, Serve, Die
  <2> QED
      BY <2>1, <2>2 DEF TypeOK, truth, rows, identity
<1>10. ASSUME BindActivation(r) PROVE TypeOK'
  <2>1. run' \in [Runs -> RunRows]
      BY <1>10, <1>t DEF BindActivation, Stages
  <2>2. run[r].activation \in Activations /\ run[r].account \in Accounts
      BY <1>10 DEF BindActivation, At, Profiled, Claiming
  <2>3. /\ activation' \in [Activations -> ActivationRows]
        /\ profile' \in [Identities -> Identities \cup {None}]
        /\ review' \subseteq Activations \X Accounts
    <3>1. CASE AttachAccount(run[r].activation, run[r].account)
      <4>1. PICK a \in Activations, acc \in Accounts :
                a = run[r].activation /\ acc = run[r].account
          BY <2>2
      <4>2. AttachAccount(a, acc)
          BY <3>1, <4>1
      <4> QED
          BY <4>2, AttachTyped
    <3>2. CASE UNCHANGED <<activation, profile, review>>
        BY <3>2 DEF TypeOK
    <3> QED
        BY <1>10, <3>1, <3>2 DEF BindActivation
  <2> QED
      BY <1>10, <2>1, <2>3 DEF BindActivation, TypeOK, truth, rows
<1>11. ASSUME ReadClaim(r) PROVE TypeOK'
  <2>1. ClaimOutcome(run[r].payment, run[r].activation, run[r].account) \in Stages
      BY DEF ClaimOutcome, Outcomes, ClaimStates, Stages
  <2>2. run' \in [Runs -> RunRows]
      BY <1>11, <1>t, <2>1 DEF ReadClaim
  <2> QED
      BY <1>11, <2>2 DEF ReadClaim, TypeOK, truth, rows, identity
<1>12. ASSUME ClaimPaid(r) PROVE TypeOK'
  <2>1. run' \in [Runs -> RunRows]
      BY <1>12, <1>t DEF ClaimPaid
  <2>2. PICK p \in Payments, acc \in Accounts : p = run[r].payment /\ acc = run[r].account
      BY <1>12 DEF ClaimPaid, PaidFirst, Profiled, Claiming, Outcomes, ClaimStates
  <2>3. PICK o \in Outcomes : o = run[r].stage
      BY <1>12 DEF ClaimPaid
  <2>4. claim' \in [Payments -> ClaimRows]
    <3>1. CASE claim' = claim
        BY <3>1 DEF TypeOK
    <3>2. CASE claim' # claim
      <4>1. PICK g : g = IF o \in {"email_mismatch", "claimed"} THEN acc
                         ELSE claim[p].google
          OBVIOUS
      <4>2. PICK h : h = IF o = "claimed" THEN acc ELSE claim[p].account
          OBVIOUS
      <4>3. claim' = [claim EXCEPT ![p].state = o, ![p].google = g, ![p].account = h]
          BY <1>12, <2>2, <2>3, <3>2, <4>1, <4>2 DEF ClaimPaid
      <4>4. claim[p] \in ClaimRows /\ claim \in [Payments -> ClaimRows]
          BY <2>2 DEF TypeOK
      <4>5. o \in ClaimStates
          BY <2>3 DEF Outcomes
      <4>6. g \in Accounts \cup {None} /\ h \in Accounts \cup {None}
          BY <2>2, <4>1, <4>2, <4>4 DEF ClaimRows
      <4>7. [claim[p] EXCEPT !.state = o, !.google = g, !.account = h] \in ClaimRows
          BY <4>4, <4>5, <4>6 DEF ClaimRows
      <4>8. claim' = [claim EXCEPT ![p] = [claim[p] EXCEPT !.state = o, !.google = g,
                                                           !.account = h]]
          BY <4>3, <4>4, <2>2 DEF ClaimRows
      <4> QED
          BY <4>4, <4>7, <4>8
    <3> QED
        BY <3>1, <3>2
  <2> QED
      BY <1>12, <2>1, <2>4 DEF ClaimPaid, TypeOK, truth, identity
<1> QED
    BY <1>1, <1>2, <1>3, <1>4, <1>5, <1>6, <1>7, <1>8, <1>9, <1>10, <1>11, <1>12 DEF Step
LEMMA ReconTyped ==
    ASSUME TypeOK, None \notin Payments, NEW c \in Reconcilers,
           RecordLifecycle(c) \/ \E p \in Payments : Reconcile(c, p)
    PROVE  TypeOK'
<1>1. ASSUME NEW p \in Payments, Reconcile(c, p) PROVE TypeOK'
  <2>1. PICK s \in {"active", "suspended", "revoked"} : s = StatusOf(facts[p])
      BY StatesTyped
  <2> DEFINE d == facts[p] \in {"open", "lost"}
  <2>2. d \in BOOLEAN
      OBVIOUS
  <2>4. recon' = [recon EXCEPT ![c] = [payment |-> p, status |-> s, dispute |-> d]]
      BY <1>1, <2>1 DEF Reconcile
  <2> HIDE DEF d
  <2>3. [payment |-> p, status |-> s, dispute |-> d] \in ReconRows
      BY <2>2 DEF ReconRows
  <2>5. recon' \in [Reconcilers -> ReconRows]
      BY <2>3, <2>4 DEF TypeOK
  <2>6. licence' \in [Payments -> {"absent", "active", "suspended", "revoked"}]
      BY <1>1, <2>1 DEF Reconcile, TypeOK
  <2> QED
      BY <1>1, <2>5, <2>6 DEF Reconcile, TypeOK, rows, identity
<1>2. ASSUME RecordLifecycle(c) PROVE TypeOK'
  <2> DEFINE p == recon[c].payment
  <2>1. p \in Payments /\ recon[c] \in ReconRows
      BY <1>2, RowsAt DEF RecordLifecycle, ReconRows
  <2>2. recon' \in [Reconcilers -> ReconRows]
    <3>1. [recon[c] EXCEPT !.payment = None] \in ReconRows
        BY <2>1 DEF ReconRows
    <3> QED
        BY <1>2, <3>1 DEF RecordLifecycle, TypeOK
  <2>3. paid' \in [Payments -> PaidRows] /\ claim' \in [Payments -> ClaimRows]
    <3>1. CASE UNCHANGED rows
        BY <3>1 DEF rows, TypeOK
    <3>2. CASE ~UNCHANGED rows
      <4>1. PICK s \in {"active", "refunded", "disputed"} : s = PaymentState(c)
          BY StatesTyped
      <4>2. PICK x : x = IF s = "active" THEN paid[p].claim ELSE s
          OBVIOUS
      <4>3. PICK y : y = IF s = "active" THEN claim[p].state ELSE s
          OBVIOUS
      <4>4. /\ paid[p] \in PaidRows /\ paid \in [Payments -> PaidRows]
            /\ claim[p] \in ClaimRows /\ claim \in [Payments -> ClaimRows]
          BY <2>1 DEF TypeOK
      <4>5. x \in ClaimStates /\ y \in ClaimStates \cup {"absent"}
          BY <4>2, <4>3, <4>4 DEF PaidRows, ClaimRows, ClaimStates
      <4>6. [paid[p] EXCEPT !.payment = s, !.claim = x] \in PaidRows
          BY <4>4, <4>5 DEF PaidRows
      <4>7. [claim[p] EXCEPT !.state = y] \in ClaimRows
          BY <4>4, <4>5 DEF ClaimRows
      <4>8. paid' = [paid EXCEPT ![p].payment = s, ![p].claim = x]
            /\ claim' = [claim EXCEPT ![p].state = y]
          BY <1>2, <3>2, <4>1, <4>2, <4>3 DEF RecordLifecycle
      <4>9. paid' = [paid EXCEPT ![p] = [paid[p] EXCEPT !.payment = s, !.claim = x]]
          BY <4>4, <4>8, <2>1 DEF PaidRows
      <4>10. claim' = [claim EXCEPT ![p] = [claim[p] EXCEPT !.state = y]]
          BY <4>8
      <4> QED
          BY <4>4, <4>6, <4>7, <4>9, <4>10
    <3> QED
        BY <3>1, <3>2
  <2> QED
      BY <1>2, <2>2, <2>3 DEF RecordLifecycle, TypeOK, truth, identity
<1> QED
    BY <1>1, <1>2

LEMMA LinkageTyped ==
    ASSUME TypeOK, Linkage
    PROVE  TypeOK'
<1>1. ASSUME NEW a \in Activations, NEW acc \in Accounts, ClaimActivation(a, acc)
      PROVE  TypeOK'
    BY <1>1, AttachTyped DEF ClaimActivation, TypeOK, truth, rows
<1>3. ASSUME NEW p \in Payments, NEW a \in Activations, NEW acc \in Accounts, Link(p, a, acc)
      PROVE  TypeOK'
  <2>1. [payment |-> p, activation |-> a, account |-> acc] \in Linkages
      BY DEF Linkages
  <2> QED
      BY <1>3, <2>1 DEF Link, TypeOK, truth, rows
<1>4. ASSUME NEW l \in linking, Unlink(l) PROVE TypeOK'
    BY <1>4 DEF Unlink, TypeOK, truth, rows
<1>2. ASSUME NEW p \in Payments, NEW a \in Activations, NEW acc \in Accounts,
             Associates(p, a, acc)
      PROVE  TypeOK'
  <2> DEFINE i == activation[a].install
  <2>1. i \in Installs
      BY <1>2, AssociateIs, RowsAt DEF ExactIdentity, ActivationRows
  <2>2. /\ paid[p] \in PaidRows /\ paid \in [Payments -> PaidRows]
        /\ claim[p] \in ClaimRows /\ claim \in [Payments -> ClaimRows]
      BY DEF TypeOK
  <2>3. /\ claim' = [claim EXCEPT ![p].activation = a, ![p].state = "claimed"]
        /\ paid' = [paid EXCEPT ![p].claim = "claimed"]
        /\ stageOwner' = [stageOwner EXCEPT ![i] = p]
        /\ bindings' = bindings \cup {Binding(p, a, acc, i)}
        /\ profile' = Merged(IF profile[a] = profile[i] THEN profile[acc] ELSE profile[i],
                             profile[a])
        /\ linking' \subseteq linking
        /\ UNCHANGED <<truth, outbox, run, recon, activation, review>>
      BY <1>2, AssociateIs
  <2> HIDE DEF i
  <2>4. claim' = [claim EXCEPT ![p] = [claim[p] EXCEPT !.activation = a, !.state = "claimed"]]
      BY <2>2, <2>3 DEF ClaimRows
  <2>5. [claim[p] EXCEPT !.activation = a, !.state = "claimed"] \in ClaimRows
      BY <2>2 DEF ClaimRows, ClaimStates
  <2>6. [paid[p] EXCEPT !.claim = "claimed"] \in PaidRows
      BY <2>2 DEF PaidRows, ClaimStates
  <2>7. claim' \in [Payments -> ClaimRows] /\ paid' \in [Payments -> PaidRows]
      BY <2>2, <2>3, <2>4, <2>5, <2>6
  <2>8. profile' \in [Identities -> Identities \cup {None}]
      BY <2>3 DEF Merged, TypeOK, Identities
  <2>9. stageOwner' \in [Installs -> Payments \cup {None}]
      BY <2>1, <2>3 DEF TypeOK
  <2>10. bindings' \subseteq [payment: Payments, activation: Activations, account: Accounts,
                              install: Installs]
    <3>1. Binding(p, a, acc, i) \in [payment: Payments, activation: Activations,
                                     account: Accounts, install: Installs]
        BY <2>1 DEF Binding
    <3> QED
        BY <2>3, <3>1 DEF TypeOK
  <2> QED
      BY <2>3, <2>7, <2>8, <2>9, <2>10 DEF TypeOK, truth
<1> QED
    BY <1>1, <1>2, <1>3, <1>4 DEF Linkage

LEMMA TypeStep ==
    ASSUME TypeOK, PaidFirst, Profiled, None \notin Payments, [Next]_vars
    PROVE  TypeOK'
<1>1. CASE UNCHANGED vars
    BY <1>1 DEF vars, TypeOK
<1>2. CASE Next
    BY <1>2, WorldTyped, StepTyped, ReconTyped, LinkageIs, LinkageTyped DEF Next
<1> QED
    BY <1>1, <1>2
-----------------------------------------------------------------------------
(* What a step does to the facts and to the runs *)

\* A payment is never unpaid again, and its buyer stays.
FactsKept ==
    \A p \in Payments :
        /\ facts[p] # "unpaid" => facts'[p] # "unpaid" /\ buyer'[p] = buyer[p]
        /\ facts[p] = "unpaid" /\ facts'[p] # "unpaid" => buyer'[p] \in Accounts
        /\ facts'[p] = facts[p] => buyer'[p] = buyer[p]

LEMMA FactsStep ==
    ASSUME TypeOK, [Next]_vars
    PROVE  FactsKept
<1>1. CASE UNCHANGED <<facts, buyer>>
    BY <1>1 DEF FactsKept
<1>2. ASSUME NEW p \in Payments, NEW b \in Accounts, Pay(p, b) PROVE FactsKept
    BY <1>2 DEF Pay, TypeOK, FactsKept
<1>3. ASSUME NEW p \in Payments, Turn(p) PROVE FactsKept
  <2>1. facts[p] # "unpaid"
    <3>1. SUFFICES ASSUME facts[p] = "unpaid" PROVE FALSE
        OBVIOUS
    <3>2. (CASE facts[p] = "paid" -> {"refunded", "open"}
             [] facts[p] = "refunded" -> {"paid"}
             [] facts[p] = "open" -> {"won", "lost"}
             [] facts[p] = "won" -> {"refunded"}
             [] OTHER -> {}) = {}
        BY <3>1
    <3> QED
        BY <1>3, <3>2 DEF Turn
  <2>2. PICK f \in {"paid", "refunded", "open", "won", "lost"} :
            facts' = [facts EXCEPT ![p] = f]
    <3>1. CASE facts[p] = "paid"
        BY <1>3, <3>1 DEF Turn
    <3>2. CASE facts[p] = "refunded"
        BY <1>3, <3>2 DEF Turn
    <3>3. CASE facts[p] = "open"
        BY <1>3, <3>3 DEF Turn
    <3>4. CASE facts[p] = "won"
        BY <1>3, <3>4 DEF Turn
    <3>5. CASE facts[p] # "paid" /\ facts[p] # "refunded" /\ facts[p] # "open"
               /\ facts[p] # "won"
      <4>1. (CASE facts[p] = "paid" -> {"refunded", "open"}
               [] facts[p] = "refunded" -> {"paid"}
               [] facts[p] = "open" -> {"won", "lost"}
               [] facts[p] = "won" -> {"refunded"}
               [] OTHER -> {}) = {}
          BY <3>5
      <4> QED
          BY <1>3, <4>1 DEF Turn
    <3> QED
        BY <3>1, <3>2, <3>3, <3>4, <3>5
  <2>3. buyer' = buyer
      BY <1>3 DEF Turn
  <2> QED
      BY <2>1, <2>2, <2>3 DEF TypeOK, FactsKept
<1>4. CASE \E p \in Payments : ExpireReceipt(p) \/ MailDue(p)
    BY <1>4, <1>1 DEF ExpireReceipt, MailDue, truth
<1>5. CASE \/ \E a \in Activations, i \in Installs \cup {None} : StartActivation(a, i)
           \/ \E i \in Installs, e \in Activations \cup Accounts \cup {None} : SeeInstall(i, e)
           \/ \E a \in Activations : ExpireActivation(a)
    BY <1>5, <1>1 DEF StartActivation, SeeInstall, ExpireActivation, truth
<1>6. ASSUME NEW r \in Runs, Step(r) PROVE FactsKept
    BY <1>6, <1>1 DEF Step, Visit, OpenArtifact, OpenClaim, FulfilLicence, Complete, ClaimMail,
           SendMail, MarkMail, Reread, Serve, BindActivation, ReadClaim, ClaimPaid, Die, truth
<1>7. CASE \E c \in Reconcilers : RecordLifecycle(c) \/ \E p \in Payments : Reconcile(c, p)
  <2>1. ASSUME NEW c \in Reconcilers, RecordLifecycle(c) PROVE FactsKept
      BY <2>1, <1>1 DEF RecordLifecycle, truth
  <2>2. ASSUME NEW c \in Reconcilers, NEW p \in Payments, Reconcile(c, p) PROVE FactsKept
      BY <2>2, <1>1 DEF Reconcile
  <2> QED
      BY <1>7, <2>1, <2>2
<1>8. CASE Linkage
  <2>1. CASE \E a \in Activations, acc \in Accounts : ClaimActivation(a, acc)
      BY <2>1, <1>1 DEF ClaimActivation, truth
  <2>2. CASE \E p \in Payments, a \in Activations, acc \in Accounts : Link(p, a, acc)
      BY <2>2, <1>1 DEF Link, truth
  <2>3. CASE \E p \in Payments, a \in Activations, acc \in Accounts : Associates(p, a, acc)
      BY <2>3, <1>1, AssociateIs DEF truth
  <2>4. CASE \E l \in linking : Unlink(l)
      BY <2>4, <1>1 DEF Unlink, truth
  <2> QED
      BY <1>8, <2>1, <2>2, <2>3, <2>4 DEF Linkage
<1>9. CASE UNCHANGED vars
    BY <1>9, <1>1 DEF vars
<1> QED
    BY <1>2, <1>3, <1>4, <1>5, <1>6, <1>7, <1>8, <1>9, LinkageIs DEF Next

\* A run stays, ends, goes on or starts.
RunMoves(r) ==
    \/ run'[r] = run[r]
    \/ run'[r] = Idle
    \/ /\ run[r].stage # "idle"
       /\ \E s \in Stages : /\ run'[r] = [run[r] EXCEPT !.stage = s]
                            /\ s \in Claiming => run[r].goal = "claim"
                            /\ Decides(r, s)
    \/ /\ run'[r].payment \in Payments /\ facts[run'[r].payment] # "unpaid"
       /\ run'[r].stage \in {"fulfil", "claim"}
       /\ IF run'[r].goal = "claim"
          THEN /\ run'[r].activation \in Activations /\ run'[r].account \in Accounts
               /\ profile[run'[r].activation] # None
          ELSE run'[r].stage = "fulfil"

LEMMA MovesOn ==
    ASSUME TypeOK, NEW r \in Runs, NEW s \in Stages, Goto(r, s), run[r].stage # "idle",
           s \in Claiming => run[r].goal = "claim", Decides(r, s), NEW q \in Runs
    PROVE  RunMoves(q)
<1>1. CASE q = r
    BY <1>1 DEF Goto, RunMoves, TypeOK
<1>2. CASE q # r
    BY <1>2 DEF Goto, RunMoves, TypeOK
<1> QED
    BY <1>1, <1>2

LEMMA Stops ==
    ASSUME TypeOK, NEW r \in Runs, Stop(r), NEW q \in Runs
    PROVE  RunMoves(q)
    BY DEF Stop, RunMoves, TypeOK

LEMMA RunsStep ==
    ASSUME TypeOK, PaidFirst, Profiled, [Next]_vars, NEW q \in Runs
    PROVE  RunMoves(q)
<1>1. CASE run' = run
    BY <1>1 DEF RunMoves
<1>2. CASE UNCHANGED vars
    BY <1>1, <1>2 DEF vars
<1>3. CASE \/ \E p \in Payments, b \in Accounts : Pay(p, b)
           \/ \E p \in Payments : Turn(p) \/ ExpireReceipt(p) \/ MailDue(p)
    BY <1>1, <1>3 DEF Pay, Turn, ExpireReceipt, MailDue
<1>4. CASE \/ \E a \in Activations, i \in Installs \cup {None} : StartActivation(a, i)
           \/ \E i \in Installs, e \in Activations \cup Accounts \cup {None} : SeeInstall(i, e)
           \/ \E a \in Activations : ExpireActivation(a)
    BY <1>1, <1>4 DEF StartActivation, SeeInstall, ExpireActivation
<1>5. CASE \E c \in Reconcilers : RecordLifecycle(c) \/ \E p \in Payments : Reconcile(c, p)
  <2>1. ASSUME NEW c \in Reconcilers, RecordLifecycle(c) PROVE RunMoves(q)
      BY <2>1, <1>1 DEF RecordLifecycle
  <2>2. ASSUME NEW c \in Reconcilers, NEW p \in Payments, Reconcile(c, p) PROVE RunMoves(q)
      BY <2>2, <1>1 DEF Reconcile
  <2> QED
      BY <1>5, <2>1, <2>2
<1>6. CASE Linkage
  <2>1. CASE \E a \in Activations, acc \in Accounts : ClaimActivation(a, acc)
      BY <2>1, <1>1 DEF ClaimActivation
  <2>2. CASE \E p \in Payments, a \in Activations, acc \in Accounts : Link(p, a, acc)
      BY <2>2, <1>1 DEF Link
  <2>3. CASE \E p \in Payments, a \in Activations, acc \in Accounts : Associates(p, a, acc)
      BY <2>3, <1>1, AssociateIs
  <2>4. CASE \E l \in linking : Unlink(l)
      BY <2>4, <1>1 DEF Unlink
  <2> QED
      BY <1>6, <2>1, <2>2, <2>3, <2>4 DEF Linkage
<1>7. ASSUME NEW r \in Runs, Step(r) PROVE RunMoves(q)
  <2>1. ASSUME NEW p \in Payments, Visit(r, p) PROVE RunMoves(q)
    <3>1. CASE q = r
        BY <2>1, <3>1 DEF Visit, RunMoves, Idle, TypeOK
    <3>2. CASE q # r
        BY <2>1, <3>2 DEF Visit, RunMoves, TypeOK
    <3> QED
        BY <3>1, <3>2
  <2>2. ASSUME NEW p \in Payments, OpenArtifact(r, p) PROVE RunMoves(q)
    <3>1. CASE q = r
        BY <2>2, <3>1 DEF OpenArtifact, ReceiptUsable, RunMoves, Idle, TypeOK, PaidFirst
    <3>2. CASE q # r
        BY <2>2, <3>2 DEF OpenArtifact, RunMoves, TypeOK
    <3> QED
        BY <3>1, <3>2
  <2>3. ASSUME NEW p \in Payments, NEW a \in Activations, NEW acc \in Accounts,
               OpenClaim(r, p, a, acc)
        PROVE  RunMoves(q)
    <3>1. CASE q = r
        BY <2>3, <3>1 DEF OpenClaim, ReceiptUsable, RunMoves, TypeOK, PaidFirst
    <3>2. CASE q # r
        BY <2>3, <3>2 DEF OpenClaim, RunMoves, TypeOK
    <3> QED
        BY <3>1, <3>2
  <2>u. \A s \in Stages \ Claiming : Decides(r, s) /\ s \notin Claiming
      BY DEF Decides, Claiming
  <2>d. \A s \in {"complete", "deliver", "send", "reread", "serve", "accepted", "retryable",
                  "dead_letter"} : s \in Stages \ Claiming
      BY DEF Stages, Sending, Claiming, Outcomes, ClaimStates
  <2>4. CASE FulfilLicence(r)
      BY <2>4, <2>u, <2>d, MovesOn DEF FulfilLicence, At, Stages
  <2>5. CASE Complete(r)
      BY <2>5, <2>u, <2>d, MovesOn DEF Complete, At, Stages
  <2>6. CASE ClaimMail(r)
      BY <2>6, <2>u, <2>d, MovesOn DEF ClaimMail, At, Stages, Sending
  <2>7. CASE SendMail(r)
      BY <2>7, <2>u, <2>d, MovesOn DEF SendMail, At, Stages, Sending
  <2>8. CASE MarkMail(r)
      BY <2>8, <2>u, <2>d, MovesOn DEF MarkMail, Stages, Sending
  <2>9. CASE Reread(r)
    <3>1. CASE Stop(r)
        BY <3>1, Stops
    <3>2. CASE Goto(r, "serve")
        BY <2>9, <3>2, <2>u, <2>d, MovesOn DEF Reread, At, Stages
    <3>3. CASE run[r].goal = "claim" /\ Goto(r, "bind")
      <4>1. "bind" \in Stages /\ Decides(r, "bind")
          BY DEF Stages, Decides, Outcomes, ClaimStates
      <4> QED
          BY <2>9, <3>3, <4>1, MovesOn DEF Reread, At
    <3> QED
        BY <2>9, <3>1, <3>2, <3>3 DEF Reread
  <2>10. CASE BindActivation(r)
    <3>1. CASE Stop(r)
        BY <3>1, Stops
    <3>2. CASE Goto(r, "claim")
      <4>1. "claim" \in Stages /\ Decides(r, "claim")
          BY DEF Stages, Decides, Outcomes, ClaimStates
      <4>2. run[r].goal = "claim" /\ run[r].stage # "idle"
          BY <2>10 DEF BindActivation, At, Profiled, Claiming
      <4> QED
          BY <3>2, <4>1, <4>2, MovesOn
    <3> QED
        BY <2>10, <3>1, <3>2 DEF BindActivation
  <2>11. CASE Serve(r) \/ ClaimPaid(r) \/ Die(r)
      BY <2>11, Stops DEF Serve, ClaimPaid, Die
  <2>12. CASE ReadClaim(r)
    <3>1. CASE Stop(r)
        BY <3>1, Stops
    <3>2. PICK s : s = ClaimOutcome(run[r].payment, run[r].activation, run[r].account)
        OBVIOUS
    <3>3. CASE Goto(r, s) /\ claim[run[r].payment].activation = run[r].activation
      <4>1. s \in Stages /\ (s = "claimed" => run[r].account = buyer[run[r].payment])
          BY <3>2 DEF ClaimOutcome, Outcomes, ClaimStates, Stages
      <4>2. Decides(r, s)
          BY <3>3, <4>1 DEF Decides
      <4>3. run[r].goal = "claim" /\ run[r].stage # "idle"
          BY <2>12 DEF ReadClaim, At, Profiled, Claiming
      <4> QED
          BY <3>3, <4>1, <4>2, <4>3, MovesOn
    <3> QED
        BY <2>12, <3>1, <3>2, <3>3 DEF ReadClaim
  <2> QED
      BY <1>7, <2>1, <2>2, <2>3, <2>4, <2>5, <2>6, <2>7, <2>8, <2>9, <2>10, <2>11, <2>12
         DEF Step
<1> QED
    BY <1>2, <1>3, <1>4, <1>5, <1>6, <1>7, LinkageIs DEF Next
-----------------------------------------------------------------------------
(* The rows of a payment *)

\* What a step may do to the rows of p.
RowsKept(p) ==
    /\ paid'[p].completed = paid[p].completed /\ claim'[p] = claim[p]
    /\ outbox'[p] = outbox[p]

MailMoves(p) ==
    /\ paid'[p].completed = paid[p].completed /\ claim'[p] = claim[p]
    /\ outbox[p].state # "absent" /\ outbox'[p].state # "absent"
    /\ outbox'[p].due => outbox'[p].state \in {"pending", "retryable"}

Completes(p) ==
    /\ \E r \in Runs : At(r, "complete") /\ run[r].payment = p
    /\ paid'[p].completed /\ claim'[p] = CompletedClaim(p)
    /\ outbox'[p] = IF outbox[p].state = "absent" THEN [state |-> "pending", due |-> TRUE]
                    ELSE outbox[p]

\* A run or an association claims, or the payment is refunded or disputed.
Claims(p) ==
    /\ paid[p].completed /\ paid'[p].completed /\ outbox'[p] = outbox[p]
    /\ claim'[p].state \in ClaimStates
    /\ \/ \E r \in Runs :
            /\ run[r].stage \in Outcomes /\ run[r].payment = p
            /\ claim[p].activation = run[r].activation
            /\ claim'[p].activation = claim[p].activation
            /\ \/ /\ claim'[p].state = "claimed"
                  /\ run[r].account = buyer[p] /\ claim[p].account \in {None, buyer[p]}
                  /\ claim'[p].account = run[r].account /\ claim'[p].google = run[r].account
               \/ /\ claim'[p].state \notin {"claimed", "unclaimed"}
                  /\ claim'[p].account = claim[p].account
       \/ \E a \in Activations :
            /\ claim'[p].state = "claimed" /\ claim'[p].account = claim[p].account
            /\ claim'[p].google = claim[p].google /\ claim'[p].activation = a
            /\ claim[p].state \in {"unclaimed", "claimed"}
            /\ paid[p].claim \notin {"refunded", "disputed"}
            /\ claim[p].activation \in {None, a} /\ activation[a].account = buyer[p]
            /\ \E b \in bindings' : b.payment = p /\ b.activation = a
            /\ \A b \in bindings : b.activation = a => b.payment = p
       \/ /\ claim'[p].activation = claim[p].activation
          /\ claim'[p].account = claim[p].account /\ claim'[p].google = claim[p].google
          /\ claim'[p].state \in {claim[p].state, "refunded", "disputed"}

RowMoves(p) == RowsKept(p) \/ MailMoves(p) \/ Completes(p) \/ Claims(p)

\* Only one payment's rows move in a step.
LEMMA WorldMovesRows ==
    ASSUME TypeOK, RowsTogether, NEW q \in Payments,
           \/ \E p \in Payments, b \in Accounts : Pay(p, b)
           \/ \E p \in Payments : Turn(p) \/ ExpireReceipt(p) \/ MailDue(p)
           \/ \E a \in Activations, i \in Installs \cup {None} : StartActivation(a, i)
           \/ \E i \in Installs, e \in Activations \cup Accounts \cup {None} : SeeInstall(i, e)
           \/ \E a \in Activations : ExpireActivation(a)
    PROVE  RowMoves(q)
<1>1. CASE UNCHANGED <<paid, claim, outbox>>
    BY <1>1 DEF RowMoves, RowsKept
<1>2. ASSUME NEW p \in Payments, ExpireReceipt(p) PROVE RowMoves(q)
  <2>1. paid'[q].completed = paid[q].completed
    <3>1. paid[p] \in PaidRows /\ paid \in [Payments -> PaidRows]
        BY DEF TypeOK
    <3> QED
        BY <1>2, <3>1 DEF ExpireReceipt, PaidRows
  <2> QED
      BY <1>2, <2>1 DEF ExpireReceipt, RowMoves, RowsKept
<1>3. ASSUME NEW p \in Payments, MailDue(p) PROVE RowMoves(q)
  <2>1. CASE q = p
    <3>1. outbox[p] \in MailRows /\ outbox \in [Payments -> MailRows]
        BY DEF TypeOK
    <3>2. outbox'[p] = [outbox[p] EXCEPT !.due = TRUE] /\ outbox[p].state = "retryable"
          /\ UNCHANGED rows
        BY <1>3, <3>1 DEF MailDue
    <3>3. outbox'[p].state = "retryable"
        BY <3>1, <3>2 DEF MailRows
    <3> QED
        BY <2>1, <3>2, <3>3 DEF RowMoves, MailMoves, rows
  <2>2. CASE q # p
      BY <1>3, <2>2 DEF MailDue, rows, RowMoves, RowsKept, TypeOK
  <2> QED
      BY <2>1, <2>2
<1>4. CASE \/ \E p \in Payments, b \in Accounts : Pay(p, b)
           \/ \E p \in Payments : Turn(p)
           \/ \E a \in Activations, i \in Installs \cup {None} : StartActivation(a, i)
           \/ \E i \in Installs, e \in Activations \cup Accounts \cup {None} : SeeInstall(i, e)
           \/ \E a \in Activations : ExpireActivation(a)
    BY <1>1, <1>4 DEF Pay, Turn, StartActivation, SeeInstall, ExpireActivation, rows
<1> QED
    BY <1>2, <1>3, <1>4

LEMMA StepMovesRows ==
    ASSUME Separate, TypeOK, PaidFirst, RowsTogether, Profiled, SendersMarked, Decided,
           NEW q \in Payments, NEW r \in Runs, Step(r)
    PROVE  RowMoves(q)
<1>1. CASE UNCHANGED <<paid, claim, outbox>>
    BY <1>1 DEF RowMoves, RowsKept
<1>2. CASE Complete(r)
  <2>1. PICK p \in Payments : p = run[r].payment
      BY <1>2 DEF Complete, At, PaidFirst
  <2>2. /\ paid \in [Payments -> PaidRows] /\ claim \in [Payments -> ClaimRows]
        /\ outbox \in [Payments -> MailRows]
      BY DEF TypeOK
  <2>3. CASE q = p
    <3>1. paid'[p].completed
        BY <1>2, <2>1, <2>2 DEF Complete, PaidRows
    <3>2. claim'[p] = CompletedClaim(p)
        BY <1>2, <2>1, <2>2 DEF Complete
    <3>3. outbox'[p] = IF outbox[p].state = "absent" THEN [state |-> "pending", due |-> TRUE]
                       ELSE outbox[p]
        BY <1>2, <2>1, <2>2 DEF Complete
    <3> QED
        BY <1>2, <2>1, <2>3, <3>1, <3>2, <3>3 DEF RowMoves, Completes, Complete
  <2>4. CASE q # p
      BY <1>2, <2>1, <2>2, <2>4 DEF Complete, RowMoves, RowsKept
  <2> QED
      BY <2>3, <2>4
<1>3. CASE ClaimMail(r)
  <2>1. PICK p \in Payments : p = run[r].payment
      BY <1>3 DEF ClaimMail, At, PaidFirst
  <2>2. /\ paid' = paid /\ claim' = claim /\ outbox \in [Payments -> MailRows]
        /\ Sendable(p) => outbox' = [outbox EXCEPT ![p] = [state |-> "sending", due |-> FALSE]]
        /\ ~Sendable(p) => outbox' = outbox
      BY <1>3, <2>1 DEF ClaimMail, rows, TypeOK
  <2>3. CASE q = p /\ Sendable(p)
    <3>1. outbox'[q] = [state |-> "sending", due |-> FALSE]
        BY <2>2, <2>3
    <3>2. outbox[q].state # "absent"
        BY <2>3 DEF Sendable, RowsTogether
    <3> QED
        BY <2>2, <3>1, <3>2 DEF RowMoves, MailMoves
  <2>4. CASE q # p /\ Sendable(p)
      BY <2>2, <2>4 DEF RowMoves, RowsKept
  <2>5. CASE ~Sendable(p)
      BY <1>1, <2>2, <2>5
  <2> QED
      BY <2>3, <2>4, <2>5
<1>4. CASE MarkMail(r)
  <2>1. PICK p \in Payments : p = run[r].payment
      BY <1>4 DEF MarkMail, PaidFirst
  <2>2. outbox[p].state = "sending"
      BY <1>4, <2>1 DEF MarkMail, SendersMarked, Sending
  <2>3. CASE q = p
      BY <1>4, <2>1, <2>2, <2>3 DEF MarkMail, RowMoves, MailMoves, rows, TypeOK
  <2>4. CASE q # p
      BY <1>4, <2>1, <2>4 DEF MarkMail, RowMoves, RowsKept, rows, TypeOK
  <2> QED
      BY <2>3, <2>4
<1>5. CASE ClaimPaid(r) /\ UNCHANGED claim
    BY <1>1, <1>5 DEF ClaimPaid
<1>6. CASE ClaimPaid(r) /\ ~UNCHANGED claim
  <2>1. PICK p \in Payments, acc \in Accounts, a \in Activations :
            p = run[r].payment /\ acc = run[r].account /\ a = run[r].activation
      BY <1>6 DEF ClaimPaid, PaidFirst, Profiled, Claiming, Outcomes, ClaimStates
  <2>2. PICK o \in Outcomes : o = run[r].stage
      BY <1>6 DEF ClaimPaid
  <2>3. PICK g : g = IF o \in {"email_mismatch", "claimed"} THEN acc ELSE claim[p].google
      OBVIOUS
  <2>4. PICK h : h = IF o = "claimed" THEN acc ELSE claim[p].account
      OBVIOUS
  <2>5. /\ claim' = [claim EXCEPT ![p].state = o, ![p].google = g, ![p].account = h]
        /\ o = "claimed" => claim[p].account \in {None, acc}
        /\ UNCHANGED <<paid, outbox>>
      BY <1>6, <2>1, <2>2, <2>3, <2>4 DEF ClaimPaid
  <2>9. claim[p].activation = a /\ (o = "claimed" => acc = buyer[p])
      BY <2>1, <2>2 DEF Decided, Decides
  <2>6. claim[p] \in ClaimRows /\ claim \in [Payments -> ClaimRows]
      BY DEF TypeOK
  <2>7. CASE q = p
    <3>1. /\ claim'[p].state = o /\ claim'[p].google = g /\ claim'[p].account = h
          /\ claim'[p].activation = a
        BY <2>5, <2>6, <2>9 DEF ClaimRows
    <3>2. /\ o \in ClaimStates /\ o # "unclaimed"
          /\ o = "claimed" => buyer[p] = acc
        BY <2>2, <2>9 DEF Outcomes
    <3>3. paid[p].completed
      <4>1. claim[p].state # "absent"
          BY <2>1, <2>9 DEF RowsTogether, NoClaim, Separate
      <4> QED
          BY <4>1 DEF RowsTogether
    <3>4. /\ run[r].payment = p /\ claim[p].activation = run[r].activation
          /\ claim'[p].activation = claim[p].activation
          /\ \/ /\ claim'[p].state = "claimed"
                /\ run[r].account = buyer[p] /\ claim[p].account \in {None, buyer[p]}
                /\ claim'[p].account = run[r].account /\ claim'[p].google = run[r].account
             \/ /\ claim'[p].state \notin {"claimed", "unclaimed"}
                /\ claim'[p].account = claim[p].account
      <4>1. CASE o = "claimed"
          BY <2>1, <2>3, <2>4, <2>5, <2>9, <3>1, <3>2, <4>1
      <4>2. CASE o # "claimed"
          BY <2>1, <2>4, <2>9, <3>1, <3>2, <4>2
      <4> QED
          BY <4>1, <4>2
    <3>5. /\ paid[p].completed /\ paid'[p].completed /\ outbox'[p] = outbox[p]
          /\ claim'[p].state \in ClaimStates
        BY <2>5, <3>1, <3>2, <3>3
    <3>6. Claims(p)
        BY <2>2, <3>4, <3>5 DEF Claims
    <3> QED
        BY <2>7, <3>6 DEF RowMoves
  <2>8. CASE q # p
      BY <2>5, <2>6, <2>8 DEF RowMoves, RowsKept
  <2> QED
      BY <2>7, <2>8
<1> QED
    BY <1>1, <1>2, <1>3, <1>4, <1>5, <1>6 DEF Step, Visit, OpenArtifact, OpenClaim,
       FulfilLicence, SendMail, Reread, Serve, BindActivation, ReadClaim, Die, rows
LEMMA ReconMovesRows ==
    ASSUME Separate, TypeOK, NEW q \in Payments, NEW c \in Reconcilers,
           RecordLifecycle(c) \/ \E p \in Payments : Reconcile(c, p)
    PROVE  RowMoves(q)
<1>1. CASE UNCHANGED <<paid, claim, outbox>>
    BY <1>1 DEF RowMoves, RowsKept
<1>2. CASE \E p \in Payments : Reconcile(c, p)
    BY <1>1, <1>2 DEF Reconcile, rows
<1>3. CASE RecordLifecycle(c)
  <2>1. PICK p \in Payments : p = recon[c].payment
    <3>1. recon[c] \in ReconRows
        BY RowsAt
    <3> QED
        BY <1>3, <3>1 DEF RecordLifecycle, ReconRows
  <2>2. CASE UNCHANGED rows
      BY <1>1, <1>3, <2>2 DEF RecordLifecycle, rows
  <2>3. CASE ~UNCHANGED rows
    <3>1. PICK s \in {"active", "refunded", "disputed"} : s = PaymentState(c)
        BY StatesTyped
    <3>2. PICK x : x = IF s = "active" THEN paid[p].claim ELSE s
        OBVIOUS
    <3>3. PICK y : y = IF s = "active" THEN claim[p].state ELSE s
        OBVIOUS
    <3>4. /\ paid' = [paid EXCEPT ![p].payment = s, ![p].claim = x]
          /\ claim' = [claim EXCEPT ![p].state = y]
          /\ paid[p].completed /\ outbox' = outbox
        BY <1>3, <2>1, <2>3, <3>1, <3>2, <3>3 DEF RecordLifecycle
    <3>5. /\ paid[p] \in PaidRows /\ paid \in [Payments -> PaidRows]
          /\ claim[p] \in ClaimRows /\ claim \in [Payments -> ClaimRows]
        BY DEF TypeOK
    <3>6. CASE q = p
      <4>1. paid'[p].completed = paid[p].completed
          BY <3>4, <3>5 DEF PaidRows
      <4>2. /\ claim'[p].state = y /\ claim'[p].activation = claim[p].activation
            /\ claim'[p].account = claim[p].account /\ claim'[p].google = claim[p].google
          BY <3>4, <3>5 DEF ClaimRows
      <4>3. y \in {claim[p].state, "refunded", "disputed"}
          BY <3>1, <3>3
      <4>4. CASE y = "absent"
        <5>1. claim'[p] \in ClaimRows
            BY <3>4, <3>5, <4>3, <4>4 DEF ClaimRows
        <5>2. claim'[p].state = claim[p].state
            BY <3>1, <4>2, <4>3, <4>4
        <5>3. claim'[p] = claim[p]
            BY <3>5, <4>2, <5>1, <5>2 DEF ClaimRows
        <5> QED
            BY <3>4, <3>6, <4>1, <5>3 DEF RowMoves, RowsKept
      <4>5. CASE y # "absent"
        <5>1. y \in ClaimStates
            BY <3>5, <4>3, <4>5 DEF ClaimRows, ClaimStates
        <5> QED
            BY <3>4, <3>6, <4>1, <4>2, <4>3, <5>1 DEF RowMoves, Claims
      <4> QED
          BY <4>4, <4>5
    <3>7. CASE q # p
        BY <3>4, <3>5, <3>7 DEF RowMoves, RowsKept
    <3> QED
        BY <3>6, <3>7
  <2> QED
      BY <2>2, <2>3
<1> QED
    BY <1>2, <1>3

LEMMA LinkageMovesRows ==
    ASSUME TypeOK, RowsTogether, Linked, NEW q \in Payments, Linkage
    PROVE  RowMoves(q)
<1>1. CASE \E a \in Activations, acc \in Accounts : ClaimActivation(a, acc)
    BY <1>1 DEF ClaimActivation, rows, RowMoves, RowsKept
<1>3. CASE \E p \in Payments, a \in Activations, acc \in Accounts : Link(p, a, acc)
    BY <1>3 DEF Link, rows, RowMoves, RowsKept
<1>4. CASE \E l \in linking : Unlink(l)
    BY <1>4 DEF Unlink, rows, RowMoves, RowsKept
<1>2. ASSUME NEW p \in Payments, NEW a \in Activations, NEW acc \in Accounts,
             Associates(p, a, acc)
      PROVE  RowMoves(q)
  <2>1. /\ paid[p] \in PaidRows /\ paid \in [Payments -> PaidRows]
        /\ claim[p] \in ClaimRows /\ claim \in [Payments -> ClaimRows]
      BY DEF TypeOK
  <2>2. /\ claim' = [claim EXCEPT ![p].activation = a, ![p].state = "claimed"]
        /\ paid' = [paid EXCEPT ![p].claim = "claimed"] /\ outbox' = outbox
        /\ Binding(p, a, acc, activation[a].install) \in bindings'
        /\ NoOtherBinding(p, a, acc, activation[a].install)
        /\ Claimable(p, a, acc) /\ activation[a].account = acc
    <3>1. activation[a].account = acc
        BY <1>2 DEF Associates, Linked
    <3> QED
        BY <1>2, <3>1, AssociateIs
  <2>3. CASE q = p
    <3>1. paid'[p].completed = paid[p].completed
        BY <2>1, <2>2 DEF PaidRows
    <3>2. /\ claim'[p].state = "claimed" /\ claim'[p].activation = a
          /\ claim'[p].account = claim[p].account /\ claim'[p].google = claim[p].google
        BY <2>1, <2>2 DEF ClaimRows
    <3>3. /\ claim[p].state \in {"unclaimed", "claimed"}
          /\ paid[p].claim \notin {"refunded", "disputed"}
          /\ claim[p].activation \in {None, a} /\ activation[a].account = buyer[p]
        BY <2>2 DEF Claimable
    <3>6. paid[p].completed
        BY <3>3 DEF RowsTogether
    <3>4. \E b \in bindings' : b.payment = p /\ b.activation = a
        BY <2>2 DEF Binding
    <3>5. \A b \in bindings : b.activation = a => b.payment = p
        BY <2>2 DEF NoOtherBinding, Binding
    <3> QED
      <4>1. /\ paid[p].completed /\ paid'[p].completed /\ outbox'[p] = outbox[p]
            /\ claim'[p].state \in ClaimStates
          BY <2>2, <3>1, <3>2, <3>6 DEF ClaimStates
      <4>2. Claims(p)
          BY <3>2, <3>3, <3>4, <3>5, <4>1 DEF Claims
      <4> QED
          BY <2>3, <4>2 DEF RowMoves
  <2>4. CASE q # p
      BY <2>1, <2>2, <2>4 DEF RowMoves, RowsKept
  <2> QED
      BY <2>3, <2>4
<1> QED
    BY <1>1, <1>2, <1>3, <1>4 DEF Linkage

LEMMA RowsMove ==
    ASSUME Separate, ClaimsIInv, [Next]_vars, NEW q \in Payments
    PROVE  RowMoves(q)
<1>1. CASE UNCHANGED vars
    BY <1>1 DEF vars, rows, RowMoves, RowsKept
<1>2. CASE Next
    BY <1>2, WorldMovesRows, StepMovesRows, ReconMovesRows, LinkageIs, LinkageMovesRows
       DEF Next, ClaimsIInv
<1> QED
    BY <1>1, <1>2
LEMMA PaidStep ==
    ASSUME Separate, ClaimsIInv, [Next]_vars
    PROVE  PaidFirst'
<1>1. FactsKept /\ PaidFirst
    BY FactsStep DEF ClaimsIInv
<1>2. ASSUME NEW p \in Payments, facts'[p] # "unpaid" PROVE buyer'[p] \in Accounts
    BY <1>1, <1>2 DEF FactsKept, PaidFirst
<1>3. ASSUME NEW p \in Payments, paid'[p].completed PROVE facts'[p] # "unpaid"
  <2>1. RowMoves(p)
      BY RowsMove
  <2>2. paid[p].completed \/ Completes(p)
      BY <1>3, <2>1 DEF RowMoves, RowsKept, MailMoves, Claims
  <2>3. facts[p] # "unpaid"
    <3>1. CASE paid[p].completed
        BY <1>1, <3>1 DEF PaidFirst
    <3>2. CASE Completes(p)
      <4>1. PICK r \in Runs : run[r].stage = "complete" /\ run[r].payment = p
          BY <3>2 DEF Completes, At
      <4> QED
          BY <1>1, <4>1 DEF PaidFirst
    <3> QED
        BY <2>2, <3>1, <3>2
  <2> QED
      BY <1>1, <2>3 DEF FactsKept
<1>4. ASSUME NEW r \in Runs, run'[r].stage # "idle"
      PROVE  run'[r].payment \in Payments /\ facts'[run'[r].payment] # "unpaid"
  <2>1. RunMoves(r) /\ run[r] \in RunRows
      BY RunsStep, RowsAt DEF ClaimsIInv
  <2>2. run'[r].payment \in Payments /\ facts[run'[r].payment] # "unpaid"
    <3>1. CASE run'[r].stage # "idle" /\ run[r].stage # "idle"
                 /\ run'[r].payment = run[r].payment
        BY <1>1, <3>1 DEF PaidFirst
    <3>2. CASE run'[r] = run[r]
        BY <1>4, <3>1, <3>2
    <3>3. CASE run'[r] = Idle
        BY <1>4, <3>3 DEF Idle
    <3>4. CASE /\ run[r].stage # "idle"
               /\ \E s \in Stages : /\ run'[r] = [run[r] EXCEPT !.stage = s]
                                    /\ s \in Claiming => run[r].goal = "claim"
                                    /\ Decides(r, s)
        BY <1>4, <2>1, <3>1, <3>4 DEF RunRows
    <3> QED
        BY <2>1, <3>2, <3>3, <3>4 DEF RunMoves
  <2> QED
      BY <1>1, <2>2 DEF FactsKept
<1> QED
    BY <1>2, <1>3, <1>4 DEF PaidFirst

LEMMA RowsStep ==
    ASSUME Separate, ClaimsIInv, [Next]_vars
    PROVE  RowsTogether'
<1> DEFINE Ok(p) == /\ claim'[p].state # "absent" <=> paid'[p].completed
                    /\ outbox'[p].state # "absent" <=> paid'[p].completed
                    /\ outbox'[p].due => outbox'[p].state \in {"pending", "retryable"}
                    /\ claim'[p].state = "absent" => claim'[p] = NoClaim
<1>1. SUFFICES ASSUME NEW p \in Payments PROVE Ok(p)
    BY DEF RowsTogether
<1>2. RowMoves(p) /\ RowsTogether /\ claim[p] \in ClaimRows
    BY RowsMove, RowsAt DEF ClaimsIInv
<1>3. CASE RowsKept(p)
    BY <1>2, <1>3 DEF RowsKept, RowsTogether
<1>4. CASE MailMoves(p)
    BY <1>2, <1>4 DEF MailMoves, RowsTogether
<1>5. CASE Completes(p)
  <2>1. claim'[p].state # "absent"
      BY <1>2, <1>5 DEF Completes, CompletedClaim, NoClaim, ClaimRows
  <2>2. /\ outbox'[p].state # "absent"
        /\ outbox'[p].due => outbox'[p].state \in {"pending", "retryable"}
      BY <1>2, <1>5 DEF Completes, RowsTogether
  <2> QED
      BY <1>5, <2>1, <2>2 DEF Completes
<1>6. CASE Claims(p)
    BY <1>2, <1>6 DEF Claims, RowsTogether, ClaimStates
<1> QED
    BY <1>2, <1>3, <1>4, <1>5, <1>6 DEF RowMoves

-----------------------------------------------------------------------------
(* Profiles *)

SameAccounts == \A a \in Activations : activation'[a].account = activation[a].account

\* What a step does to profiles, reviews, bindings and the activations' accounts.
Appears ==
    \E e \in Activations \cup Installs :
        /\ profile[e] = None
        /\ \E v \in Identities \cup {None} : profile' = [profile EXCEPT ![e] = v]
        /\ profile'[e] # None
        /\ UNCHANGED <<review, bindings>> /\ SameAccounts

Attaches ==
    \E a \in Activations, acc \in Accounts :
        /\ profile[a] # None /\ Bindable(a, acc) /\ AttachAccount(a, acc)
        /\ bindings' = bindings

IdentityMoves ==
    \/ UNCHANGED <<profile, review, bindings>> /\ SameAccounts
    \/ Appears
    \/ Attaches
    \/ \E p \in Payments, a \in Activations, acc \in Accounts : Associates(p, a, acc)

LEMMA IdentitiesMove ==
    ASSUME Separate, ClaimsIInv, [Next]_vars
    PROVE  IdentityMoves
<1>u. CASE UNCHANGED <<activation, identity>>
    BY <1>u DEF identity, IdentityMoves, SameAccounts
<1>0. TypeOK /\ PaidFirst /\ Profiled
    BY DEF ClaimsIInv
<1>1. CASE \/ \E p \in Payments, b \in Accounts : Pay(p, b)
           \/ \E p \in Payments : Turn(p) \/ ExpireReceipt(p) \/ MailDue(p)
    BY <1>u, <1>1 DEF Pay, Turn, ExpireReceipt, MailDue
<1>2. ASSUME NEW a \in Activations, NEW i \in Installs \cup {None}, StartActivation(a, i)
      PROVE  IdentityMoves
  <2>1. SameAccounts
    <3>1. activation \in [Activations -> ActivationRows]
        BY <1>0 DEF TypeOK
    <3> QED
        BY <1>2, <3>1 DEF StartActivation, SameAccounts, ActivationRows
  <2>2. profile' = [profile EXCEPT ![a] = a] /\ profile'[a] = a /\ profile[a] = None
      BY <1>0, <1>2 DEF StartActivation, TypeOK, Identities
  <2>3. a \in Identities /\ a # None
      BY DEF Identities, Separate
  <2> QED
      BY <1>2, <2>1, <2>2, <2>3 DEF StartActivation, IdentityMoves, Appears
<1>3. ASSUME NEW i \in Installs, NEW e \in Activations \cup Accounts \cup {None},
             SeeInstall(i, e)
      PROVE  IdentityMoves
  <2>1. PICK v : v = IF e = None THEN i ELSE profile[e]
      OBVIOUS
  <2>2. v \in Identities \cup {None} /\ v # None
      BY <1>0, <1>3, <2>1 DEF SeeInstall, TypeOK, Identities, Separate
  <2>3. profile' = [profile EXCEPT ![i] = v] /\ profile[i] = None
      BY <1>3, <2>1 DEF SeeInstall
  <2>4. profile'[i] = v
      BY <1>0, <2>3 DEF TypeOK, Identities
  <2>5. UNCHANGED <<activation, review, bindings>>
      BY <1>3 DEF SeeInstall
  <2> QED
      BY <2>2, <2>3, <2>4, <2>5 DEF IdentityMoves, Appears, SameAccounts
<1>4. ASSUME NEW a \in Activations, ExpireActivation(a) PROVE IdentityMoves
  <2>1. activation \in [Activations -> ActivationRows]
      BY <1>0 DEF TypeOK
  <2> QED
      BY <1>4, <2>1 DEF ExpireActivation, identity, IdentityMoves, SameAccounts, ActivationRows
<1>5. ASSUME NEW r \in Runs, Step(r) PROVE IdentityMoves
  <2>1. CASE BindActivation(r)
    <3>1. PICK a \in Activations, acc \in Accounts :
              a = run[r].activation /\ acc = run[r].account
        BY <1>0, <2>1 DEF BindActivation, At, Profiled, Claiming
    <3>2. profile[a] # None
        BY <1>0, <2>1, <3>1 DEF BindActivation, At, Profiled, Claiming
    <3>3. CASE Bindable(a, acc)
        BY <2>1, <3>1, <3>2, <3>3 DEF BindActivation, IdentityMoves, Attaches
    <3>4. CASE ~Bindable(a, acc)
        BY <2>1, <3>1, <3>4, <1>u DEF BindActivation, identity
    <3> QED
        BY <3>3, <3>4
  <2>2. CASE ~BindActivation(r)
      BY <1>5, <1>u, <2>2 DEF Step, Visit, OpenArtifact, OpenClaim, FulfilLicence, Complete,
         ClaimMail, SendMail, MarkMail, Reread, Serve, ReadClaim, ClaimPaid, Die
  <2> QED
      BY <2>1, <2>2
<1>6. CASE \E c \in Reconcilers : RecordLifecycle(c) \/ \E p \in Payments : Reconcile(c, p)
    BY <1>u, <1>6 DEF RecordLifecycle, Reconcile
<1>7. ASSUME NEW a \in Activations, NEW acc \in Accounts, ClaimActivation(a, acc)
      PROVE  IdentityMoves
    BY <1>7 DEF ClaimActivation, IdentityMoves, Attaches
<1>8. CASE \E p \in Payments, a \in Activations, acc \in Accounts : Associates(p, a, acc)
    BY <1>8 DEF IdentityMoves
<1>10. CASE \E p \in Payments, a \in Activations, acc \in Accounts : Link(p, a, acc)
    BY <1>10 DEF Link, IdentityMoves, SameAccounts
<1>11. CASE \E l \in linking : Unlink(l)
    BY <1>11 DEF Unlink, IdentityMoves, SameAccounts
<1>12. CASE Linkage
    BY <1>7, <1>8, <1>10, <1>11, <1>12 DEF Linkage
<1>9. CASE UNCHANGED vars
    BY <1>u, <1>9 DEF vars, identity
<1> QED
    BY <1>0, <1>1, <1>2, <1>3, <1>4, <1>5, <1>6, <1>9, <1>12, LinkageIs DEF Next
\* A profile, an account of an activation and a binding, once there, stay.
IdentityKept ==
    /\ \A e \in Identities : profile[e] # None => profile'[e] # None
    /\ \A a \in Activations : activation[a].account # None
         => activation'[a].account = activation[a].account
    /\ bindings \subseteq bindings'

\* An association merges two profiles of its three identities into one.
LEMMA AssociateMerges ==
    ASSUME Separate, TypeOK, Profiled, Linked, NEW p \in Payments, NEW a \in Activations,
           NEW acc \in Accounts, Associates(p, a, acc)
    PROVE  /\ activation[a].install \in Installs
           /\ bindings' = bindings \cup {Binding(p, a, acc, activation[a].install)}
           /\ UNCHANGED <<activation, review>>
           /\ \E g \in Identities :
                /\ profile[g] # None /\ profile[a] # None
                /\ \A e \in Identities : profile'[e] = IF profile[e] = profile[g] THEN profile[a]
                                                       ELSE profile[e]
           /\ \A e \in {a, acc, activation[a].install} : profile'[e] = profile[a]
           /\ \A x \in Accounts : profile'[x] = profile[a] => x = acc
<1> DEFINE i == activation[a].install
<1>1. /\ i \in Installs /\ profile[i] # None
    BY AssociateIs, RowsAt DEF ExactIdentity, ActivationRows
<1>2. profile[a] # None
  <2>1. activation[a].account = acc
      BY DEF Associates, Linked
  <2> QED
      BY <2>1 DEF Profiled, Separate
<1>3. profile[acc] # None
  <2>1. \/ profile[acc] = profile[a]
        \/ \E other \in Activations : <<other, acc>> \in review
      BY AssociateIs DEF ExactIdentity
  <2> QED
      BY <1>2, <2>1 DEF Profiled
<1>4. OwnersAgree(profile, a, acc, i) /\ OwnersAgree(profile', a, acc, i)
    BY AssociateIs
<1>5. PICK g \in Identities : g = IF profile[a] = profile[i] THEN acc ELSE i
    BY <1>1 DEF Identities
<1>6. profile' = [e \in DOMAIN profile |-> IF profile[e] = profile[g] THEN profile[a]
                                           ELSE profile[e]]
  <2>1. profile' = Merged(IF profile[a] = profile[i] THEN profile[acc] ELSE profile[i],
                          profile[a])
      BY AssociateIs
  <2> QED
      BY <1>5, <2>1 DEF Merged
<1>7. \A e \in Identities : profile'[e] = IF profile[e] = profile[g] THEN profile[a]
                                          ELSE profile[e]
    BY <1>6 DEF TypeOK
<1> HIDE DEF i
<1>8. a \in Identities /\ acc \in Identities /\ i \in Identities
    BY <1>1 DEF Identities
<1>9. profile'[a] = profile[a] /\ profile'[i] = profile[a]
  <2>1. CASE profile[a] = profile[i]
      BY <1>7, <1>8, <2>1
  <2>2. CASE profile[a] # profile[i]
      BY <1>5, <1>7, <1>8, <2>2
  <2> QED
      BY <2>1, <2>2
<1>10. profile'[acc] = profile[a]
  <2>1. CASE profile[a] = profile[i]
      BY <1>5, <1>7, <1>8, <2>1
  <2>2. CASE profile[a] # profile[i]
    <3>1. profile[acc] \in {profile[a], profile[i]}
        BY <1>4, <2>2 DEF OwnersAgree
    <3> QED
        BY <1>5, <1>7, <1>8, <2>2, <3>1
  <2> QED
      BY <2>1, <2>2
<1>11. ASSUME NEW x \in Accounts, profile'[x] = profile[a] PROVE x = acc
  <2>1. OwnersOf(profile', i) \subseteq {acc}
      BY <1>4, <1>9, <1>10 DEF OwnersAgree
  <2> QED
      BY <1>9, <1>11, <2>1 DEF OwnersOf
<1>12. /\ bindings' = bindings \cup {Binding(p, a, acc, i)}
       /\ UNCHANGED <<activation, review>>
    BY AssociateIs DEF i
<1>13. profile[g] # None
    BY <1>1, <1>3, <1>5
<1> QED
    BY <1>1, <1>2, <1>7, <1>9, <1>10, <1>11, <1>12, <1>13 DEF i

LEMMA IdentityStays ==
    ASSUME Separate, ClaimsIInv, [Next]_vars
    PROVE  IdentityKept
<1>1. IdentityMoves /\ TypeOK /\ Profiled /\ Linked
    BY IdentitiesMove DEF ClaimsIInv
<1>2. CASE UNCHANGED <<profile, review, bindings>> /\ SameAccounts
    BY <1>2 DEF SameAccounts, IdentityKept
<1>3. CASE Appears
    BY <1>1, <1>3 DEF Appears, SameAccounts, IdentityKept, TypeOK, Identities
<1>4. ASSUME NEW a \in Activations, NEW acc \in Accounts, profile[a] # None,
             Bindable(a, acc), AttachAccount(a, acc), bindings' = bindings
      PROVE  IdentityKept
  <2>1. activation \in [Activations -> ActivationRows]
        /\ profile \in [Identities -> Identities \cup {None}]
      BY <1>1 DEF TypeOK
  <2>2. \A e \in Identities : profile[e] # None => profile'[e] # None
      BY <1>4, <2>1 DEF AttachAccount, Identities
  <2>3. \A b \in Activations : activation[b].account # None
          => activation'[b].account = activation[b].account
      BY <1>4, <2>1 DEF AttachAccount, Bindable, ActivationRows
  <2> QED
      BY <1>4, <2>2, <2>3 DEF IdentityKept
<1>5. ASSUME NEW p \in Payments, NEW a \in Activations, NEW acc \in Accounts,
             Associates(p, a, acc)
      PROVE  IdentityKept
  <2>1. /\ bindings' = bindings \cup {Binding(p, a, acc, activation[a].install)}
        /\ UNCHANGED activation
        /\ \E g \in Identities :
             /\ profile[g] # None /\ profile[a] # None
             /\ \A e \in Identities : profile'[e] = IF profile[e] = profile[g] THEN profile[a]
                                                    ELSE profile[e]
      BY <1>1, <1>5, AssociateMerges
  <2> QED
      BY <2>1 DEF IdentityKept
<1> QED
    BY <1>1, <1>2, <1>3, <1>4, <1>5 DEF IdentityMoves, Attaches

LEMMA ProfiledStep ==
    ASSUME Separate, ClaimsIInv, [Next]_vars
    PROVE  Profiled'
<1>1. IdentityMoves /\ IdentityKept /\ TypeOK /\ Profiled /\ Linked /\ TypeOK' /\ PaidFirst
    BY IdentitiesMove, IdentityStays, TypeStep DEF ClaimsIInv, Separate
<1>2. ASSUME NEW r \in Runs
      PROVE  /\ run'[r].stage \in Claiming => run'[r].goal = "claim"
             /\ run'[r].goal = "claim" =>
                  /\ run'[r].activation \in Activations /\ run'[r].account \in Accounts
                  /\ profile'[run'[r].activation] # None
  <2>1. RunMoves(r) /\ run[r] \in RunRows
      BY <1>1, RunsStep, RowsAt
  <2>2. CASE run'[r] = run[r]
      BY <1>1, <2>2 DEF Profiled, IdentityKept, Identities
  <2>3. CASE run'[r] = Idle
      BY <2>3 DEF Idle, Claiming, Outcomes, ClaimStates
  <2>4. ASSUME NEW s \in Stages, run'[r] = [run[r] EXCEPT !.stage = s],
               s \in Claiming => run[r].goal = "claim"
        PROVE  /\ run'[r].stage \in Claiming => run'[r].goal = "claim"
               /\ run'[r].goal = "claim" =>
                    /\ run'[r].activation \in Activations /\ run'[r].account \in Accounts
                    /\ profile'[run'[r].activation] # None
    <3>1. /\ run'[r].stage = s /\ run'[r].goal = run[r].goal
          /\ run'[r].activation = run[r].activation /\ run'[r].account = run[r].account
        BY <2>1, <2>4 DEF RunRows
    <3> QED
        BY <1>1, <2>4, <3>1 DEF Profiled, IdentityKept, Identities
  <2>5. CASE /\ run'[r].stage \in {"fulfil", "claim"}
             /\ IF run'[r].goal = "claim"
                THEN /\ run'[r].activation \in Activations /\ run'[r].account \in Accounts
                     /\ profile[run'[r].activation] # None
                ELSE run'[r].stage = "fulfil"
      BY <1>1, <2>5 DEF IdentityKept, Identities, Claiming, Outcomes, ClaimStates
  <2> QED
      BY <2>1, <2>2, <2>3, <2>4, <2>5 DEF RunMoves
<1>3. /\ \A a \in Activations : activation'[a].account # None => profile'[a] # None
      /\ \A x \in review' : profile'[x[2]] # None
      /\ \A b \in bindings' : profile'[b.install] # None
  <2>1. \A x \in review : x[2] \in Accounts /\ profile[x[2]] # None
      BY <1>1 DEF TypeOK, Profiled
  <2>2. \A b \in bindings : b.install \in Installs /\ profile[b.install] # None
      BY <1>1 DEF TypeOK, Profiled
  <2>3. CASE UNCHANGED <<profile, review, bindings>> /\ SameAccounts
      BY <1>1, <2>3 DEF SameAccounts, Profiled
  <2>4. CASE Appears
    <3>1. UNCHANGED <<review, bindings>> /\ SameAccounts
        BY <2>4 DEF Appears
    <3> QED
        BY <1>1, <2>1, <2>2, <3>1 DEF SameAccounts, Profiled, IdentityKept, Identities
  <2>5. ASSUME NEW a \in Activations, NEW acc \in Accounts, profile[a] # None,
               Bindable(a, acc), AttachAccount(a, acc), bindings' = bindings
        PROVE  /\ \A b \in Activations : activation'[b].account # None => profile'[b] # None
               /\ \A x \in review' : profile'[x[2]] # None
               /\ \A b \in bindings' : profile'[b.install] # None
    <3>1. \A b \in Activations : activation'[b].account # None => profile[b] # None
        BY <1>1, <2>5 DEF AttachAccount, Profiled, TypeOK
    <3>2. review' = review \/ (review' = review \cup {<<a, acc>>} /\ profile[acc] # None)
        BY <2>5 DEF AttachAccount
    <3> QED
        BY <1>1, <2>1, <2>2, <2>5, <3>1, <3>2 DEF IdentityKept, Identities
  <2>6. ASSUME NEW p \in Payments, NEW a \in Activations, NEW acc \in Accounts,
               Associates(p, a, acc)
        PROVE  /\ \A b \in Activations : activation'[b].account # None => profile'[b] # None
               /\ \A x \in review' : profile'[x[2]] # None
               /\ \A b \in bindings' : profile'[b.install] # None
    <3>1. PICK i \in Installs : i = activation[a].install
        BY <1>1, <2>6, AssociateMerges
    <3>2. /\ bindings' = bindings \cup {Binding(p, a, acc, i)}
          /\ UNCHANGED <<activation, review>> /\ profile'[i] = profile[a] /\ profile[a] # None
        BY <1>1, <2>6, <3>1, AssociateMerges
    <3> QED
        BY <1>1, <2>1, <2>2, <3>2 DEF IdentityKept, Identities, Profiled, Binding
  <2> QED
      BY <1>1, <2>3, <2>4, <2>5, <2>6 DEF IdentityMoves, Attaches
<1> QED
    BY <1>2, <1>3 DEF Profiled
LEMMA ConvergeStep ==
    ASSUME Separate, ClaimsIInv, [Next]_vars
    PROVE  BindingsConverge'
<1>1. IdentityMoves /\ TypeOK /\ Profiled /\ Linked /\ BindingsConverge
    BY IdentitiesMove DEF ClaimsIInv
<1>2. \A b \in bindings : /\ b.activation \in Activations /\ b.install \in Installs
                          /\ b.account \in Accounts /\ profile[b.install] # None
                          /\ profile[b.activation] = profile[b.install]
                          /\ profile[b.account] = profile[b.install]
    BY <1>1 DEF TypeOK, Profiled, BindingsConverge
<1>3. \A x, y \in Accounts : x # y /\ profile[x] # None => profile[x] # profile[y]
    BY <1>1 DEF BindingsConverge
<1>p. profile \in [Identities -> Identities \cup {None}]
    BY <1>1 DEF TypeOK
<1>4. CASE UNCHANGED <<profile, review, bindings>>
    BY <1>1, <1>4 DEF BindingsConverge
<1>5. CASE Appears
  <2>1. PICK e \in Activations \cup Installs, v \in Identities \cup {None} :
            /\ profile[e] = None /\ profile' = [profile EXCEPT ![e] = v]
            /\ bindings' = bindings
      BY <1>5 DEF Appears
  <2>2. \A b \in bindings : /\ profile'[b.activation] = profile'[b.install]
                            /\ profile'[b.account] = profile'[b.install]
      BY <1>2, <1>p, <2>1 DEF Identities
  <2>3. \A x \in Accounts : profile'[x] = profile[x]
      BY <1>p, <2>1 DEF Identities, Separate
  <2> QED
      BY <1>3, <2>1, <2>2, <2>3 DEF BindingsConverge
<1>6. ASSUME NEW a \in Activations, NEW acc \in Accounts, profile[a] # None,
             AttachAccount(a, acc), bindings' = bindings
      PROVE  BindingsConverge'
  <2>1. CASE profile' = profile
      BY <1>1, <1>6, <2>1 DEF BindingsConverge
  <2>2. CASE profile' # profile
    <3>1. /\ profile[acc] = None /\ \A other \in Accounts : profile[other] # profile[a]
          /\ profile' = [profile EXCEPT ![acc] = profile[a]]
        BY <1>6, <2>2 DEF AttachAccount
    <3>2. \A b \in bindings : /\ profile'[b.activation] = profile'[b.install]
                              /\ profile'[b.account] = profile'[b.install]
        BY <1>2, <1>p, <3>1 DEF Identities
    <3>3. \A x \in Accounts : profile'[x] = IF x = acc THEN profile[a] ELSE profile[x]
        BY <1>p, <3>1 DEF Identities
    <3> QED
        BY <1>3, <1>6, <3>1, <3>2, <3>3 DEF BindingsConverge
  <2> QED
      BY <2>1, <2>2
<1>7. ASSUME NEW p \in Payments, NEW a \in Activations, NEW acc \in Accounts,
             Associates(p, a, acc)
      PROVE  BindingsConverge'
  <2>1. PICK i \in Installs : i = activation[a].install
      BY <1>1, <1>7, AssociateMerges
  <2>2. PICK g \in Identities : \A e \in Identities :
            profile'[e] = IF profile[e] = profile[g] THEN profile[a] ELSE profile[e]
      BY <1>1, <1>7, AssociateMerges
  <2>3. /\ bindings' = bindings \cup {Binding(p, a, acc, i)}
        /\ \A e \in {a, acc, i} : profile'[e] = profile[a]
        /\ \A x \in Accounts : profile'[x] = profile[a] => x = acc
      BY <1>1, <1>7, <2>1, AssociateMerges
  <2>4. \A b \in bindings : /\ profile'[b.activation] = profile'[b.install]
                            /\ profile'[b.account] = profile'[b.install]
      BY <1>2, <2>2 DEF Identities
  <2>5. \A b \in bindings' : /\ profile'[b.activation] = profile'[b.install]
                             /\ profile'[b.account] = profile'[b.install]
      BY <2>3, <2>4 DEF Binding
  <2>6. \A x, y \in Accounts : x # y /\ profile'[x] # None => profile'[x] # profile'[y]
      BY <1>3, <2>2, <2>3 DEF Identities
  <2> QED
      BY <2>5, <2>6 DEF BindingsConverge
<1> QED
    BY <1>1, <1>4, <1>5, <1>6, <1>7 DEF IdentityMoves, Attaches

LEMMA OneBindingStep ==
    ASSUME Separate, ClaimsIInv, [Next]_vars
    PROVE  OneBinding'
<1>1. IdentityMoves /\ OneBinding
    BY IdentitiesMove DEF ClaimsIInv
<1>2. CASE bindings' = bindings
    BY <1>1, <1>2 DEF OneBinding
<1>3. ASSUME NEW p \in Payments, NEW a \in Activations, NEW acc \in Accounts,
             Associates(p, a, acc)
      PROVE  OneBinding'
  <2>1. PICK i : i = activation[a].install
      OBVIOUS
  <2>2. bindings' = bindings \cup {Binding(p, a, acc, i)} /\ NoOtherBinding(p, a, acc, i)
      BY <1>3, <2>1, AssociateIs
  <2>3. \A b \in bindings : b.activation = a => b.payment = p
      BY <2>2 DEF NoOtherBinding, Binding
  <2> QED
      BY <1>1, <2>2, <2>3 DEF OneBinding, Binding
<1> QED
    BY <1>1, <1>2, <1>3 DEF IdentityMoves, Appears, Attaches

-----------------------------------------------------------------------------
(* Claims *)

LEMMA ClaimStep ==
    ASSUME Separate, ClaimsIInv, [Next]_vars
    PROVE  ClaimInv'
<1> DEFINE Ok(p) ==
        /\ claim'[p].account \in {None, buyer'[p]}
        /\ claim'[p].state \in {"absent", "unclaimed", "claimed"}
             => claim'[p].google \in {None, buyer'[p]}
        /\ claim'[p].activation # None =>
             /\ activation'[claim'[p].activation].account = buyer'[p]
             /\ \E b \in bindings' : b.payment = p /\ b.activation = claim'[p].activation
<1>1. SUFFICES ASSUME NEW p \in Payments PROVE Ok(p)
    BY DEF ClaimInv
<1>2. RowMoves(p) /\ FactsKept /\ IdentityKept
    BY RowsMove, FactsStep, IdentityStays DEF ClaimsIInv
<1>3. /\ claim[p].account \in {None, buyer[p]}
      /\ claim[p].state \in {"absent", "unclaimed", "claimed"}
           => claim[p].google \in {None, buyer[p]}
      /\ claim[p].activation # None =>
           /\ activation[claim[p].activation].account = buyer[p]
           /\ \E b \in bindings : b.payment = p /\ b.activation = claim[p].activation
    BY DEF ClaimsIInv, ClaimInv
<1>4. /\ claim[p] \in ClaimRows /\ claim[p].activation \in Activations \cup {None}
      /\ claim[p].state = "absent" => claim[p] = NoClaim
      /\ claim[p].state # "absent" <=> paid[p].completed
      /\ paid[p].completed => facts[p] # "unpaid"
      /\ facts[p] # "unpaid" => buyer[p] \in Accounts /\ buyer[p] # None
    BY RowsAt DEF ClaimsIInv, RowsTogether, PaidFirst, ClaimRows, Separate
\* What is there stays right.
<1>5. CASE claim'[p] = claim[p]
  <2>1. CASE claim[p].state = "absent"
    <3>1. claim'[p].account = None /\ claim'[p].google = None /\ claim'[p].activation = None
        BY <1>4, <1>5, <2>1 DEF NoClaim
    <3> QED
        BY <3>1
  <2>2. CASE claim[p].state # "absent"
    <3>1. buyer'[p] = buyer[p] /\ buyer[p] # None
        BY <1>2, <1>4, <2>2 DEF FactsKept
    <3>2. claim[p].activation # None =>
            /\ activation'[claim[p].activation].account = buyer[p]
            /\ \E b \in bindings' : b.payment = p /\ b.activation = claim[p].activation
        BY <1>2, <1>3, <1>4, <3>1 DEF IdentityKept
    <3> QED
        BY <1>3, <1>5, <3>1, <3>2
  <2> QED
      BY <2>1, <2>2
<1>6. CASE Completes(p)
  <2>1. facts[p] # "unpaid"
    <3>1. PICK r \in Runs : run[r].stage = "complete" /\ run[r].payment = p
        BY <1>6 DEF Completes, At
    <3> QED
        BY <3>1 DEF ClaimsIInv, PaidFirst
  <2>2. buyer'[p] = buyer[p] /\ buyer[p] # None
      BY <1>2, <1>4, <2>1 DEF FactsKept
  <2>3. CASE claim[p].state = "absent"
    <3>1. /\ claim'[p].account = buyer[p] /\ claim'[p].google = None
          /\ claim'[p].activation = None
        BY <1>6, <2>3 DEF Completes, CompletedClaim, NoClaim
    <3> QED
        BY <2>2, <3>1
  <2>4. CASE claim[p].state # "absent"
    <3>1. /\ claim'[p].account = IF claim[p].account = None THEN buyer[p] ELSE claim[p].account
          /\ claim'[p].state = claim[p].state /\ claim'[p].google = claim[p].google
          /\ claim'[p].activation = claim[p].activation
        BY <1>4, <1>6, <2>4 DEF Completes, CompletedClaim, ClaimRows
    <3>2. claim[p].activation # None =>
            /\ activation'[claim[p].activation].account = buyer[p]
            /\ \E b \in bindings' : b.payment = p /\ b.activation = claim[p].activation
        BY <1>2, <1>3, <1>4, <2>2 DEF IdentityKept
    <3> QED
        BY <1>3, <2>2, <3>1, <3>2
  <2> QED
      BY <2>3, <2>4
<1>7. CASE Claims(p)
  <2>1. buyer'[p] = buyer[p] /\ buyer[p] # None
      BY <1>2, <1>4, <1>7 DEF FactsKept, Claims
  <2>2. claim[p].activation # None =>
          /\ activation'[claim[p].activation].account = buyer[p]
          /\ \E b \in bindings' : b.payment = p /\ b.activation = claim[p].activation
      BY <1>2, <1>3, <1>4, <2>1 DEF IdentityKept
  <2>3. ASSUME NEW a \in Activations, activation[a].account = buyer[p]
        PROVE  activation'[a].account = buyer[p]
      BY <1>2, <2>1, <2>3 DEF IdentityKept
  <2>4. claim'[p].state \in ClaimStates /\ "absent" \notin ClaimStates
      BY <1>7 DEF Claims, ClaimStates
  <2> QED
      BY <1>3, <1>7, <2>1, <2>2, <2>3, <2>4 DEF Claims
<1> QED
    BY <1>2, <1>5, <1>6, <1>7 DEF RowMoves, RowsKept, MailMoves
-----------------------------------------------------------------------------
(* The mail *)

\* No run starts to send, and a mail being sent stays so.
Quiet ==
    /\ \A r \in Runs : run'[r].stage \in Sending
         => run[r].stage \in Sending /\ run'[r].payment = run[r].payment
    /\ \A p \in Payments : outbox[p].state = "sending" => outbox'[p].state = "sending"

LEMMA QuietKeeps ==
    ASSUME PaidFirst, SendersMarked, OneSender, Quiet
    PROVE  SendersMarked' /\ OneSender'
<1>1. \A r \in Runs : run[r].stage \in Sending => run[r].payment \in Payments
    BY DEF PaidFirst, Sending
<1> QED
    BY <1>1 DEF SendersMarked, OneSender, Quiet

LEMMA QuietRun ==
    ASSUME TypeOK, NEW r \in Runs,
           Stop(r) \/ \E s \in Stages \ Sending : Goto(r, s)
    PROVE  \A q \in Runs : run'[q].stage \in Sending
             => run[q].stage \in Sending /\ run'[q].payment = run[q].payment
<1>1. CASE Stop(r)
    BY <1>1 DEF Stop, Idle, Sending, TypeOK
<1>2. ASSUME NEW s \in Stages \ Sending, Goto(r, s)
      PROVE  \A q \in Runs : run'[q].stage \in Sending
               => run[q].stage \in Sending /\ run'[q].payment = run[q].payment
  <2>1. run \in [Runs -> RunRows] /\ run' = [run EXCEPT ![r].stage = s]
      BY <1>2 DEF Goto, TypeOK
  <2>2. run'[r].stage = s
      BY <2>1 DEF RunRows
  <2>3. \A q \in Runs : q # r => run'[q] = run[q]
      BY <2>1
  <2> QED
      BY <2>2, <2>3
<1> QED
    BY <1>1, <1>2

LEMMA MailStep ==
    ASSUME Separate, ClaimsIInv, [Next]_vars
    PROVE  SendersMarked' /\ OneSender'
<1>0. /\ TypeOK /\ PaidFirst /\ RowsTogether /\ SendersMarked /\ OneSender /\ Profiled
      /\ outbox \in [Payments -> MailRows] /\ run \in [Runs -> RunRows]
    BY DEF ClaimsIInv, TypeOK
<1>q. ASSUME Quiet PROVE SendersMarked' /\ OneSender'
    BY <1>0, <1>q, QuietKeeps
<1>1. CASE UNCHANGED <<run, outbox>>
    BY <1>1, <1>q DEF Quiet
<1>2. CASE \/ UNCHANGED vars
           \/ \E p \in Payments, b \in Accounts : Pay(p, b)
           \/ \E p \in Payments : Turn(p) \/ ExpireReceipt(p)
    BY <1>1, <1>2 DEF Pay, Turn, ExpireReceipt, vars
<1>3. CASE \/ \E a \in Activations, i \in Installs \cup {None} : StartActivation(a, i)
           \/ \E i \in Installs, e \in Activations \cup Accounts \cup {None} : SeeInstall(i, e)
           \/ \E a \in Activations : ExpireActivation(a)
    BY <1>1, <1>3 DEF StartActivation, SeeInstall, ExpireActivation
<1>4. CASE \/ \E c \in Reconcilers : RecordLifecycle(c) \/ \E p \in Payments : Reconcile(c, p)
           \/ Linkage
  <2>1. ASSUME NEW c \in Reconcilers, RecordLifecycle(c) PROVE UNCHANGED <<run, outbox>>
      BY <2>1 DEF RecordLifecycle
  <2>2. ASSUME NEW c \in Reconcilers, NEW p \in Payments, Reconcile(c, p)
        PROVE  UNCHANGED <<run, outbox>>
      BY <2>2 DEF Reconcile
  <2>3. CASE Linkage
    <3>1. ASSUME NEW a \in Activations, NEW acc \in Accounts, ClaimActivation(a, acc)
          PROVE  UNCHANGED <<run, outbox>>
        BY <3>1 DEF ClaimActivation
    <3>2. ASSUME NEW p \in Payments, NEW a \in Activations, NEW acc \in Accounts, Link(p, a, acc)
          PROVE  UNCHANGED <<run, outbox>>
        BY <3>2 DEF Link
    <3>3. ASSUME NEW p \in Payments, NEW a \in Activations, NEW acc \in Accounts,
                 Associates(p, a, acc)
          PROVE  UNCHANGED <<run, outbox>>
        BY <3>3, AssociateIs
    <3>4. ASSUME NEW l \in linking, Unlink(l) PROVE UNCHANGED <<run, outbox>>
        BY <3>4 DEF Unlink
    <3> QED
        BY <1>1, <2>3, <3>1, <3>2, <3>3, <3>4 DEF Linkage
  <2> QED
      BY <1>1, <1>4, <2>1, <2>2, <2>3
<1>5. ASSUME NEW p \in Payments, MailDue(p) PROVE SendersMarked' /\ OneSender'
  <2>1. outbox' = [outbox EXCEPT ![p].due = TRUE] /\ run' = run
      BY <1>5 DEF MailDue
  <2>2. \A q \in Payments : outbox'[q].state = outbox[q].state
      BY <1>0, <2>1 DEF MailRows
  <2> QED
      BY <1>q, <2>1, <2>2 DEF Quiet
<1>6. ASSUME NEW r \in Runs, Step(r) PROVE SendersMarked' /\ OneSender'
  <2>1. CASE \E p \in Payments : Visit(r, p) \/ OpenArtifact(r, p)
    <3>1. outbox' = outbox
        BY <2>1 DEF Visit, OpenArtifact
    <3>2. \A q \in Runs : q # r => run'[q] = run[q]
        BY <1>0, <2>1 DEF Visit, OpenArtifact
    <3>3. run'[r].stage = "fulfil"
        BY <1>0, <2>1 DEF Visit, OpenArtifact, Idle
    <3> QED
        BY <1>q, <3>1, <3>2, <3>3 DEF Quiet, Sending
  <2>2. CASE \E p \in Payments, a \in Activations, acc \in Accounts : OpenClaim(r, p, a, acc)
    <3>1. outbox' = outbox
        BY <2>2 DEF OpenClaim
    <3>2. \A q \in Runs : q # r => run'[q] = run[q]
        BY <1>0, <2>2 DEF OpenClaim
    <3>3. run'[r].stage \in {"fulfil", "claim"}
        BY <1>0, <2>2 DEF OpenClaim
    <3> QED
        BY <1>q, <3>1, <3>2, <3>3 DEF Quiet, Sending
  <2>3. CASE FulfilLicence(r) \/ Reread(r) \/ Serve(r) \/ BindActivation(r)
             \/ ReadClaim(r) \/ ClaimPaid(r) \/ Die(r)
    <3>1. outbox' = outbox
        BY <2>3 DEF FulfilLicence, Reread, Serve, BindActivation, ReadClaim, ClaimPaid,
           Die
    <3>2. Stop(r) \/ \E s \in Stages \ Sending : Goto(r, s)
      <4>1. CASE ReadClaim(r)
        <5>1. ClaimOutcome(run[r].payment, run[r].activation, run[r].account)
                \in Stages \ Sending
            BY DEF ClaimOutcome, Outcomes, ClaimStates, Stages, Sending
        <5> QED
            BY <4>1, <5>1 DEF ReadClaim
      <4>2. CASE FulfilLicence(r) \/ Reread(r) \/ BindActivation(r)
          BY <4>2 DEF FulfilLicence, Reread, BindActivation, Stages, Sending
      <4>3. CASE Serve(r) \/ ClaimPaid(r) \/ Die(r)
          BY <4>3 DEF Serve, ClaimPaid, Die
      <4> QED
          BY <2>3, <4>1, <4>2, <4>3
    <3> QED
        BY <1>0, <1>q, <3>1, <3>2, QuietRun DEF Quiet
  <2>4. CASE Complete(r)
    <3>1. \E s \in Stages \ Sending : Goto(r, s)
        BY <2>4 DEF Complete, Stages, Sending
    <3>2. PICK p \in Payments : p = run[r].payment
        BY <1>0, <2>4 DEF Complete, At, PaidFirst
    <3>3. \A q \in Payments : outbox[q].state = "sending" => outbox'[q] = outbox[q]
        BY <1>0, <2>4, <3>2 DEF Complete
    <3> QED
        BY <1>0, <1>q, <3>1, <3>3, QuietRun DEF Quiet
  <2>5. CASE SendMail(r)
    <3>1. outbox' = outbox /\ run[r].stage = "send" /\ \E s \in Stages : Goto(r, s)
        BY <2>5 DEF SendMail, At, Stages, Sending
    <3>2. \A q \in Runs : q # r => run'[q] = run[q]
        BY <1>0, <3>1 DEF Goto
    <3>3. run'[r].payment = run[r].payment
        BY <1>0, <3>1 DEF Goto, RunRows
    <3> QED
        BY <1>q, <3>1, <3>2, <3>3 DEF Quiet, Sending
  <2>6. CASE ClaimMail(r)
    <3>1. PICK p \in Payments : p = run[r].payment
        BY <1>0, <2>6 DEF ClaimMail, At, PaidFirst
    <3>2. CASE ~Sendable(p)
      <4>1. outbox' = outbox /\ \E s \in Stages \ Sending : Goto(r, s)
          BY <2>6, <3>1, <3>2 DEF ClaimMail, Stages, Sending
      <4> QED
          BY <1>0, <1>q, <4>1, QuietRun DEF Quiet
    <3>3. CASE Sendable(p)
      <4>1. outbox' = [outbox EXCEPT ![p] = [state |-> "sending", due |-> FALSE]]
            /\ Goto(r, "send")
          BY <2>6, <3>1, <3>3 DEF ClaimMail
      <4>2. outbox[p].state # "sending"
          BY <1>0, <3>3 DEF Sendable, RowsTogether
      <4>3. \A q \in Runs : q # r => run'[q] = run[q]
          BY <1>0, <4>1 DEF Goto
      <4>4. run'[r].payment = p
          BY <1>0, <3>1, <4>1 DEF Goto, RunRows
      <4>5. \A q \in Payments : outbox'[q].state = IF q = p THEN "sending" ELSE outbox[q].state
          BY <1>0, <4>1
      <4>6. \A q \in Runs : run[q].stage \in Sending => run[q].payment # p
          BY <1>0, <4>2 DEF SendersMarked
      <4>7. \A q \in Runs : run[q].stage \in Sending => run[q].payment \in Payments
          BY <1>0 DEF PaidFirst, Sending
      <4>8. SendersMarked'
          BY <1>0, <4>3, <4>4, <4>5, <4>7 DEF SendersMarked
      <4>9. OneSender'
          BY <1>0, <4>3, <4>4, <4>6 DEF OneSender
      <4> QED
          BY <4>8, <4>9
    <3> QED
        BY <3>2, <3>3
  <2>7. CASE MarkMail(r)
    <3>1. PICK p \in Payments : p = run[r].payment
        BY <1>0, <2>7 DEF MarkMail, PaidFirst
    <3>2. run[r].stage \in Sending /\ Goto(r, "reread")
        BY <2>7 DEF MarkMail, Sending
    <3>3. run' = [run EXCEPT ![r].stage = "reread"]
        BY <3>2 DEF Goto
    <3>4. \A q \in Runs : q # r => run'[q] = run[q]
        BY <1>0, <3>3
    <3>5. run'[r].stage \notin Sending
        BY <1>0, <3>3 DEF RunRows, Sending
    <3>6. \A q \in Payments : q # p => outbox'[q] = outbox[q]
        BY <1>0, <2>7, <3>1 DEF MarkMail
    <3>7. \A q \in Runs : q # r /\ run[q].stage \in Sending
            => run[q].payment # p /\ run[q].payment \in Payments
        BY <1>0, <3>1, <3>2 DEF OneSender, PaidFirst, Sending
    <3>8. SendersMarked'
        BY <1>0, <3>4, <3>5, <3>6, <3>7 DEF SendersMarked
    <3>9. OneSender'
        BY <1>0, <3>4, <3>5 DEF OneSender
    <3> QED
        BY <3>8, <3>9
  <2> QED
      BY <1>6, <2>1, <2>2, <2>3, <2>4, <2>5, <2>6, <2>7 DEF Step
<1> QED
    BY <1>0, <1>2, <1>3, <1>4, <1>5, <1>6, LinkageIs DEF Next

-----------------------------------------------------------------------------
(* What a claim keeps *)

KeepsClaims ==
    \A p \in Payments :
        /\ claim[p].activation # None => claim'[p].activation = claim[p].activation
        /\ claim[p].account # None => claim'[p].account = claim[p].account

\* The claim of a payment that was refunded or disputed gets no activation.
LostClaims ==
    \A p \in Payments : paid[p].claim \in {"refunded", "disputed"}
        => claim'[p].activation = claim[p].activation

LEMMA ClaimsKept ==
    ASSUME Separate, ClaimsIInv, [Next]_vars
    PROVE  KeepsClaims /\ LostClaims
<1>1. ASSUME NEW p \in Payments
      PROVE  /\ claim[p].activation # None => claim'[p].activation = claim[p].activation
             /\ claim[p].account # None => claim'[p].account = claim[p].account
             /\ paid[p].claim \in {"refunded", "disputed"}
                  => claim'[p].activation = claim[p].activation
  <2>1. RowMoves(p) /\ claim[p] \in ClaimRows
      BY RowsMove, RowsAt DEF ClaimsIInv
  <2>2. CASE claim'[p] = claim[p]
      BY <2>2
  <2>3. CASE Completes(p)
    <3>1. CASE claim[p].state = "absent"
      <4>1. claim[p] = NoClaim
          BY <3>1 DEF ClaimsIInv, RowsTogether
      <4> QED
          BY <2>3, <3>1, <4>1 DEF Completes, CompletedClaim, NoClaim
    <3>2. CASE claim[p].state # "absent"
        BY <2>1, <2>3, <3>2 DEF Completes, CompletedClaim, ClaimRows
    <3> QED
        BY <3>1, <3>2
  <2>4. CASE Claims(p)
    <3>1. claim[p].activation # None => claim'[p].activation = claim[p].activation
        BY <2>4 DEF Claims
    <3>2. claim[p].account # None => claim'[p].account = claim[p].account
        BY <2>4 DEF Claims
    <3>3. paid[p].claim \in {"refunded", "disputed"}
            => claim'[p].activation = claim[p].activation
        BY <2>4 DEF Claims
    <3> QED
        BY <3>1, <3>2, <3>3
  <2> QED
      BY <2>1, <2>2, <2>3, <2>4 DEF RowMoves, RowsKept, MailMoves
<1> QED
    BY <1>1 DEF KeepsClaims, LostClaims

\* What a claim read of its own activation and buyer still holds when it writes.
LEMMA DecidedStep ==
    ASSUME Separate, ClaimsIInv, [Next]_vars
    PROVE  Decided'
<1>1. /\ FactsKept /\ KeepsClaims /\ TypeOK /\ PaidFirst /\ Profiled /\ Decided
      /\ None \notin Activations
    BY FactsStep, ClaimsKept DEF ClaimsIInv, Separate
<1>2. SUFFICES ASSUME NEW r \in Runs, run'[r].stage \in Outcomes
               PROVE  /\ claim'[run'[r].payment].activation = run'[r].activation
                      /\ run'[r].stage = "claimed" => run'[r].account = buyer'[run'[r].payment]
    BY DEF Decided, Decides
<1>3. RunMoves(r) /\ run[r] \in RunRows
    BY <1>1, RunsStep, RowsAt
<1>4. "idle" \notin Outcomes /\ "fulfil" \notin Outcomes /\ "claim" \notin Outcomes
    BY DEF Outcomes, ClaimStates
<1>5. PICK s \in Stages :
          /\ run[r].stage # "idle" /\ Decides(r, s) /\ run'[r].stage = s
          /\ run'[r].payment = run[r].payment /\ run'[r].activation = run[r].activation
          /\ run'[r].account = run[r].account
          /\ s \in Claiming => run[r].goal = "claim"
  <2>1. CASE run'[r] = run[r]
    <3>1. run[r].stage \in Stages /\ run[r].stage # "idle" /\ Decides(r, run[r].stage)
        BY <1>1, <1>2, <1>3, <1>4, <2>1 DEF RunRows, Decided
    <3>2. run[r].stage \in Claiming => run[r].goal = "claim"
        BY <1>1 DEF Profiled
    <3> QED
        BY <2>1, <3>1, <3>2
  <2>2. CASE run'[r] = Idle
      BY <1>2, <1>4, <2>2 DEF Idle
  <2>3. ASSUME NEW s \in Stages, run[r].stage # "idle", run'[r] = [run[r] EXCEPT !.stage = s],
               s \in Claiming => run[r].goal = "claim", Decides(r, s)
        PROVE  /\ run'[r].stage = s
               /\ run'[r].payment = run[r].payment /\ run'[r].activation = run[r].activation
               /\ run'[r].account = run[r].account
      BY <1>3, <2>3 DEF RunRows
  <2>4. CASE run'[r].stage \in {"fulfil", "claim"}
      BY <1>2, <1>4, <2>4
  <2> QED
      BY <1>3, <2>1, <2>2, <2>3, <2>4 DEF RunMoves
<1>6. PICK p \in Payments, a \in Activations : p = run[r].payment /\ a = run[r].activation
    BY <1>1, <1>2, <1>5 DEF PaidFirst, Profiled, Claiming
<1>7. claim[p].activation = a /\ (s = "claimed" => run[r].account = buyer[p])
    BY <1>2, <1>5, <1>6 DEF Decides
<1>8. claim'[p].activation = a
    BY <1>1, <1>7 DEF KeepsClaims
<1>9. buyer'[p] = buyer[p]
    BY <1>1, <1>5, <1>6 DEF FactsKept, PaidFirst
<1> QED
    BY <1>5, <1>6, <1>7, <1>8, <1>9

\* A linkage starts from the activation's account, which stays.
LEMMA LinkedStep ==
    ASSUME Separate, ClaimsIInv, [Next]_vars
    PROVE  Linked'
<1>1. IdentityKept /\ TypeOK /\ Linked
    BY IdentityStays DEF ClaimsIInv
<1>2. CASE linking' \subseteq linking
  <2>1. SUFFICES ASSUME NEW l \in linking'
                 PROVE  activation'[l.activation].account = l.account
      BY DEF Linked
  <2>2. l.activation \in Activations /\ l.account \in Accounts /\ l \in linking
      BY <1>1, <1>2 DEF TypeOK, Linkages
  <2>3. activation[l.activation].account = l.account /\ l.account # None
      BY <1>1, <2>2 DEF Linked, Separate
  <2> QED
      BY <1>1, <2>2, <2>3 DEF IdentityKept
<1>3. ASSUME NEW p \in Payments, NEW a \in Activations, NEW acc \in Accounts, Link(p, a, acc)
      PROVE  Linked'
    BY <1>1, <1>3 DEF Link, Linked
<1>4. CASE Linkage
  <2>1. CASE \E a \in Activations, acc \in Accounts : ClaimActivation(a, acc)
      BY <1>2, <2>1 DEF ClaimActivation
  <2>2. CASE \E p \in Payments, a \in Activations, acc \in Accounts : Associates(p, a, acc)
      BY <1>2, <2>2, AssociateIs
  <2>3. CASE \E l \in linking : Unlink(l)
      BY <1>2, <2>3 DEF Unlink
  <2> QED
      BY <1>3, <1>4, <2>1, <2>2, <2>3 DEF Linkage
<1>5. CASE \/ UNCHANGED vars
           \/ \E p \in Payments, b \in Accounts : Pay(p, b)
           \/ \E p \in Payments : Turn(p) \/ ExpireReceipt(p) \/ MailDue(p)
           \/ \E a \in Activations, i \in Installs \cup {None} : StartActivation(a, i)
           \/ \E i \in Installs, e \in Activations \cup Accounts \cup {None} : SeeInstall(i, e)
           \/ \E a \in Activations : ExpireActivation(a)
  <2>1. CASE UNCHANGED vars \/ \E p \in Payments, b \in Accounts : Pay(p, b)
      BY <1>2, <2>1 DEF vars, Pay, identity
  <2>2. CASE \E p \in Payments : Turn(p) \/ ExpireReceipt(p) \/ MailDue(p)
      BY <1>2, <2>2 DEF Turn, ExpireReceipt, MailDue, identity
  <2>3. CASE \E a \in Activations, i \in Installs \cup {None} : StartActivation(a, i)
      BY <1>2, <2>3 DEF StartActivation
  <2>4. CASE \/ \E i \in Installs, e \in Activations \cup Accounts \cup {None} : SeeInstall(i, e)
             \/ \E a \in Activations : ExpireActivation(a)
      BY <1>2, <2>4 DEF SeeInstall, ExpireActivation, identity
  <2> QED
      BY <1>5, <2>1, <2>2, <2>3, <2>4
<1>6. ASSUME NEW r \in Runs, Step(r) PROVE Linked'
  <2>1. CASE \/ \E p \in Payments : Visit(r, p) \/ OpenArtifact(r, p)
             \/ \E p \in Payments, a \in Activations, acc \in Accounts : OpenClaim(r, p, a, acc)
      BY <1>2, <2>1 DEF Visit, OpenArtifact, OpenClaim, identity
  <2>2. CASE FulfilLicence(r) \/ Complete(r) \/ ClaimMail(r) \/ SendMail(r) \/ MarkMail(r)
      BY <1>2, <2>2 DEF FulfilLicence, Complete, ClaimMail, SendMail, MarkMail, identity
  <2>3. CASE Reread(r) \/ Serve(r) \/ BindActivation(r) \/ ReadClaim(r) \/ ClaimPaid(r) \/ Die(r)
      BY <1>2, <2>3 DEF Reread, Serve, BindActivation, ReadClaim, ClaimPaid, Die, identity
  <2> QED
      BY <1>6, <2>1, <2>2, <2>3 DEF Step
<1>7. CASE \E c \in Reconcilers : RecordLifecycle(c) \/ \E p \in Payments : Reconcile(c, p)
    BY <1>2, <1>7 DEF RecordLifecycle, Reconcile, identity
<1> QED
    BY <1>1, <1>4, <1>5, <1>6, <1>7, LinkageIs DEF Next

\* Only a linkage writes anything but a refund or a dispute to a checkout row's claim.
LEMMA RecordedClaim ==
    ASSUME TypeOK, [Next]_vars, NEW q \in Payments
    PROVE  \/ paid'[q].claim \in {paid[q].claim, "refunded", "disputed"}
           \/ \E p \in Payments, a \in Activations, acc \in Accounts : Associates(p, a, acc)
<1>0. paid \in [Payments -> PaidRows]
    BY DEF TypeOK
<1>1. CASE paid' = paid
    BY <1>1
<1>2. ASSUME NEW p \in Payments, ExpireReceipt(p) PROVE paid'[q].claim = paid[q].claim
    BY <1>0, <1>2 DEF ExpireReceipt, PaidRows
<1>3. ASSUME NEW r \in Runs, Complete(r) PROVE paid'[q].claim = paid[q].claim
  <2>1. paid' = [paid EXCEPT ![run[r].payment].completed = TRUE,
                             ![run[r].payment].payment = "active"]
      BY <1>3 DEF Complete
  <2> QED
      BY <1>0, <2>1 DEF PaidRows
<1>4. ASSUME NEW c \in Reconcilers, RecordLifecycle(c), paid' # paid
      PROVE  paid'[q].claim \in {paid[q].claim, "refunded", "disputed"}
  <2>1. PICK s \in {"active", "refunded", "disputed"} : s = PaymentState(c)
      BY StatesTyped
  <2>4. PICK p : p = recon[c].payment
      OBVIOUS
  <2>2. PICK x : x = IF s = "active" THEN paid[p].claim ELSE s
      OBVIOUS
  <2>3. paid' = [paid EXCEPT ![p].payment = s, ![p].claim = x]
      BY <1>4, <2>1, <2>2, <2>4 DEF RecordLifecycle, rows
  <2> QED
      BY <1>0, <2>1, <2>2, <2>3 DEF PaidRows
<1>5. CASE Linkage
    BY <1>1, <1>5 DEF Linkage, ClaimActivation, Link, Unlink, rows
<1>6. CASE \/ UNCHANGED vars
           \/ \E p \in Payments, b \in Accounts : Pay(p, b)
           \/ \E p \in Payments : Turn(p) \/ MailDue(p)
           \/ \E a \in Activations, i \in Installs \cup {None} : StartActivation(a, i)
           \/ \E i \in Installs, e \in Activations \cup Accounts \cup {None} : SeeInstall(i, e)
           \/ \E a \in Activations : ExpireActivation(a)
           \/ \E c \in Reconcilers, p \in Payments : Reconcile(c, p)
    BY <1>1, <1>6 DEF vars, Pay, Turn, MailDue, StartActivation, SeeInstall, ExpireActivation,
       Reconcile, rows
<1>7. ASSUME NEW r \in Runs, Step(r), ~Complete(r) PROVE paid' = paid
    BY <1>7 DEF Step, Visit, OpenArtifact, OpenClaim, FulfilLicence, ClaimMail, SendMail,
       MarkMail, Reread, Serve, BindActivation, ReadClaim, ClaimPaid, Die, rows
<1> QED
    BY <1>1, <1>2, <1>3, <1>4, <1>5, <1>6, <1>7, LinkageIs DEF Next

LostGains ==
    \A p \in Payments : paid[p].claim \in {"refunded", "disputed"} =>
        /\ paid'[p].claim \in {"refunded", "disputed"}
        /\ claim'[p].activation = claim[p].activation
        /\ \A b \in bindings' : b.payment = p => b \in bindings

\* A linkage wants the claim and the checkout row to agree on a state that can
\* be claimed, and the checkout row of a lost payment keeps what it says.
LEMMA LostStep ==
    ASSUME Separate, ClaimsIInv, [Next]_vars
    PROVE  LostGains
<1>1. SUFFICES ASSUME NEW q \in Payments, paid[q].claim \in {"refunded", "disputed"}
               PROVE  /\ paid'[q].claim \in {"refunded", "disputed"}
                      /\ \A b \in bindings' : b.payment = q => b \in bindings
    BY ClaimsKept DEF LostGains, LostClaims
<1>2. TypeOK /\ IdentityMoves
    BY IdentitiesMove DEF ClaimsIInv
<1>3. ASSUME NEW p \in Payments, NEW a \in Activations, NEW acc \in Accounts,
             Associates(p, a, acc)
      PROVE  /\ paid'[q].claim \in {"refunded", "disputed"}
             /\ \A b \in bindings' : b.payment = q => b \in bindings
  <2>1. p # q
    <3>1. Claimable(p, a, acc)
        BY <1>3, AssociateIs
    <3>2. paid[p].claim \in {"unclaimed", "claimed"}
        BY <3>1 DEF Claimable
    <3> QED
        BY <1>1, <3>2
  <2>2. paid' = [paid EXCEPT ![p].claim = "claimed"]
      BY <1>3, AssociateIs
  <2>3. paid'[q] = paid[q]
      BY <1>2, <2>1, <2>2 DEF TypeOK
  <2>4. bindings' = bindings \cup {Binding(p, a, acc, activation[a].install)}
      BY <1>3, AssociateIs
  <2> QED
      BY <1>1, <2>1, <2>3, <2>4 DEF Binding
<1>4. CASE bindings' = bindings
    BY <1>1, <1>2, <1>3, <1>4, RecordedClaim
<1> QED
    BY <1>2, <1>3, <1>4 DEF IdentityMoves, Appears, Attaches

-----------------------------------------------------------------------------
(* The theorems *)

LEMMA ClaimsInit == ASSUME Init PROVE ClaimsIInv
<1>1. TypeOK
    BY InitType
<1>2. PaidFirst /\ RowsTogether /\ ClaimInv
    BY DEF Init, PaidFirst, RowsTogether, ClaimInv, NoPaid, NoClaim, NoMail, Idle
<1>3. SendersMarked /\ OneSender /\ Profiled /\ BindingsConverge
    BY DEF Init, SendersMarked, OneSender, Profiled, BindingsConverge, Idle, Sending, Identities,
           Claiming, Outcomes, ClaimStates
<1>4. OneBinding /\ Linked /\ Decided
    BY DEF Init, OneBinding, Linked, Decided, Decides, Idle, Outcomes, ClaimStates
<1> QED
    BY <1>1, <1>2, <1>3, <1>4 DEF ClaimsIInv

LEMMA ClaimsStep ==
    ASSUME Separate, ClaimsIInv, [Next]_vars
    PROVE  ClaimsIInv'
<1>1. TypeOK'
    BY TypeStep DEF ClaimsIInv, Separate
<1> QED
    BY <1>1, PaidStep, RowsStep, ClaimStep, MailStep, ProfiledStep, ConvergeStep,
       OneBindingStep, LinkedStep, DecidedStep
       DEF ClaimsIInv

LEMMA ClaimsInvariant == ASSUME Separate PROVE Spec => []ClaimsIInv
<1>1. Init => ClaimsIInv
    BY ClaimsInit
<1>2. ClaimsIInv /\ [Next]_vars => ClaimsIInv'
    BY ClaimsStep
<1> QED
    BY <1>1, <1>2, PTL DEF Spec

\* Rows, runs and profiles keep their types, for any numbers of payments,
\* accounts and concurrent runs.
THEOREM TypeCorrect == ASSUME Separate PROVE Spec => []TypeOK
<1>1. ClaimsIInv => TypeOK
    BY DEF ClaimsIInv
<1> QED
    BY <1>1, ClaimsInvariant, PTL

\* A claim belongs to the buyer of its payment, the rows of a payment are made
\* together and no two payments claim one activation
\* (completePaidAcquisitionCheckout, claimPaidAcquisitionActivation).
THEOREM ClaimsCorrect ==
    ASSUME Separate PROVE Spec => []ClaimIsTheBuyers /\ []RowsAgree
<1>1. ClaimsIInv => ClaimIsTheBuyers
    BY DEF ClaimsIInv, ClaimInv, ClaimIsTheBuyers
<1>2. ASSUME ClaimsIInv PROVE RowsAgree
  <2>1. ASSUME NEW p \in Payments, NEW q \in Payments, p # q, claim[p].activation # None
        PROVE  claim[p].activation # claim[q].activation
    <3>1. SUFFICES ASSUME claim[q].activation = claim[p].activation PROVE FALSE
        OBVIOUS
    <3>2. /\ \E b \in bindings : b.payment = p /\ b.activation = claim[p].activation
          /\ \E b \in bindings : b.payment = q /\ b.activation = claim[p].activation
        BY <1>2, <2>1, <3>1 DEF ClaimsIInv, ClaimInv
    <3> QED
        BY <1>2, <2>1, <3>2 DEF ClaimsIInv, OneBinding
  <2> QED
      BY <1>2, <2>1 DEF ClaimsIInv, RowsTogether, RowsAgree
<1> QED
    BY <1>1, <1>2, ClaimsInvariant, PTL

-----------------------------------------------------------------------------
\* One run at a time sends the mail of a payment (claimPaidInstallerEmail).
THEOREM OneRunSends == ASSUME Separate PROVE Spec => []OneSender
<1>1. ClaimsIInv => OneSender
    BY DEF ClaimsIInv
<1> QED
    BY <1>1, ClaimsInvariant, PTL

\* What a binding tied together is one profile for good, and two accounts never
\* share one (associatePaidAcquisitionActivationWithOutcome).
THEOREM BindingsStayConverged == ASSUME Separate PROVE Spec => []BindingsConverge
<1>1. ClaimsIInv => BindingsConverge
    BY DEF ClaimsIInv
<1> QED
    BY <1>1, ClaimsInvariant, PTL

\* A claim keeps its activation and its account whatever runs, refunds and
\* disputes follow; and once a refund or a dispute is recorded nothing is linked
\* to it any more, although the licence is read without a lock and a claim may
\* write what it made of the payment before
\* (claimPaidAcquisitionActivation, associatePaidAcquisitionActivationWithOutcome,
\* recordPaidAcquisitionLifecycle).
THEOREM ClaimsFinal ==
    ASSUME Separate PROVE Spec => ClaimIsKept /\ LostGainsNothing
<1>1. ClaimsIInv /\ [Next]_vars =>
        [\A p \in Payments :
            /\ claim[p].activation # None => claim'[p].activation = claim[p].activation
            /\ claim[p].account # None => claim'[p].account = claim[p].account]_vars
    BY ClaimsKept DEF KeepsClaims
<1>2. ClaimsIInv /\ [Next]_vars =>
        [\A p \in Payments : paid[p].claim \in {"refunded", "disputed"} =>
            /\ paid'[p].claim \in {"refunded", "disputed"}
            /\ claim'[p].activation = claim[p].activation
            /\ \A b \in bindings' : b.payment = p => b \in bindings]_vars
    BY LostStep DEF LostGains
<1> QED
    BY <1>1, <1>2, ClaimsInvariant, PTL DEF Spec, ClaimIsKept, LostGainsNothing

=============================================================================
