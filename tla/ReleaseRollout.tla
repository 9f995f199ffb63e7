--------------------------- MODULE ReleaseRollout ---------------------------
(* The guarded rollout of a Mac release: scripts/publish-release-manifest.mjs, *)
(* advance-release-rollout.mjs and release-rollout-policy.mjs, run by operators *)
(* in their own checkouts of one repository, beside deployments, downloads and  *)
(* the refreshes of the analytics.                                              *)
(* A percent is the index of a step of the policy; the health figures of a      *)
(* snapshot (users, success, pending, concentration, stages, integrity, origin) *)
(* come down to one verdict. An operator leaves a checkout alone while a tool   *)
(* runs in it.                                                                  *)
EXTENDS Integers, FiniteSets

CONSTANTS
    Releasers,      \* operators, each with a checkout
    FirstRelease,   \* published at the first step
    Releases,       \* what may be published: version, artifact, percent, critical
    Steps,          \* the number of configured steps; the last is 100 percent
    MinClosed, MinAdditional, MinHours, MaxAge,     \* the policy
    Verdicts,       \* of the other health gates
    MaxClock, MaxIntents, MaxCommits,               \* bounds
    None

Versions == {r.version : r \in Releases \cup {FirstRelease}}

VARIABLES
    main,       \* origin/main: its commit number and the two files
    checkout,   \* per operator, HEAD and the files of the working tree
    tool,       \* per operator, the running rollout command
    public,     \* the manifest the site serves
    served,     \* every release and percent the site has served
    intents,    \* closed download intents of a version, as they really are
    kpi,        \* the analytics snapshot
    clock
rolloutVars == <<main, checkout, tool, public, served, intents, kpi, clock>>

Idle == [stage |-> "idle"]
Published(r, now) ==
  [version |-> r.version, artifact |-> r.artifact, percent |-> r.percent,
   critical |-> r.critical, publishedAt |-> now]
Serving(m) == [version |-> m.version, artifact |-> m.artifact, percent |-> m.percent]

Init ==
    LET m == Published(FirstRelease, 0) IN
      /\ main = [rev |-> 0, files |-> [manifest |-> m, note |-> None]]
      /\ checkout = [o \in Releasers |-> [head |-> main, files |-> main.files]]
      /\ tool = [o \in Releasers |-> Idle]
      /\ public = m /\ served = {Serving(m)}
      /\ intents = [v \in Versions |-> 0]
      /\ kpi = None
      /\ clock = 0

\* The recorded state belongs to the manifest, or the release is at its first
\* step; otherwise there is no baseline.
NoteMatches(local, note) ==
    /\ note # None
    /\ note.version = local.version
    /\ note.percent = local.percent
    /\ note.artifact = local.artifact
\* A mutant: without a state of its own a manifest counts from its publication.
BaselineAssumed(local, note) ==
  IF NoteMatches(local, note) THEN [at |-> note.at, closed |-> note.closed]
  ELSE [at |-> local.publishedAt, closed |-> 0]
BaselineOf(local, note) ==
  IF NoteMatches(local, note) THEN [at |-> note.at, closed |-> note.closed]
  ELSE IF local.percent = 1 THEN [at |-> local.publishedAt, closed |-> 0]
  ELSE None

\* A mutant: what the site serves is not compared.
PublicAssumed(local, pub) == pub.version = local.version
PublicAgrees(local, pub) ==
    /\ pub.version = local.version
    /\ pub.percent = local.percent
    /\ pub.artifact = local.artifact

SnapshotAgrees(local, k, now) ==
    /\ k.version = local.version
    /\ k.percent = local.percent
    /\ now - k.at <= MaxAge
    /\ k.healthy

Earned(local, baseline, k, now) ==
    /\ k.closed >= MinClosed
    /\ k.closed - baseline.closed >= MinAdditional
    /\ now - baseline.at >= MinHours

\* The decision: the next step within the cap, when every gate is passed.
Decision(local, note, pub, k, cap, now) ==
  IF local.percent >= cap THEN "complete"
  ELSE IF /\ ~local.critical
          /\ PublicAgrees(local, pub)
          /\ k # None /\ SnapshotAgrees(local, k, now)
          /\ BaselineOf(local, note) # None
          /\ Earned(local, BaselineOf(local, note), k, now)
       THEN "advance" ELSE "hold"

NextNote(local, k, now) ==
  [version |-> local.version, artifact |-> local.artifact, percent |-> local.percent + 1,
   at |-> now, closed |-> k.closed]

(* The rollout command: it reads the files and the public manifest, then  *)
(* the analytics; it decides, checks the checkout against origin/main and renames  *)
(* two files, one after the other.                                             *)
Begin(o, cap) ==
    /\ tool[o] = Idle
    /\ tool' = [tool EXCEPT ![o] = [stage |-> "analytics", cap |-> cap, public |-> public]]
    /\ UNCHANGED <<main, checkout, public, served, intents, kpi, clock>>
Evaluate(o) ==
    /\ tool[o].stage = "analytics"
    /\ LET files == checkout[o].files IN
       tool' = [tool EXCEPT ![o] =
         IF Decision(files.manifest, files.note, tool[o].public, kpi, tool[o].cap, clock) = "advance"
         THEN [stage |-> "apply", note |-> NextNote(files.manifest, kpi, clock)] ELSE Idle]
    /\ UNCHANGED <<main, checkout, public, served, intents, kpi, clock>>
CanonicalSource(o) ==
    /\ checkout[o].files = checkout[o].head.files
    /\ checkout[o].head.rev = main.rev
RenameManifest(o) ==
    /\ tool[o].stage = "apply"
    /\ IF CanonicalSource(o)
       THEN /\ tool' = [tool EXCEPT ![o].stage = "note"]
            /\ checkout' = [checkout EXCEPT ![o].files.manifest.percent = tool[o].note.percent]
       ELSE tool' = [tool EXCEPT ![o] = Idle] /\ UNCHANGED checkout
    /\ UNCHANGED <<main, public, served, intents, kpi, clock>>
RenameState(o) ==
    /\ tool[o].stage = "note"
    /\ checkout' = [checkout EXCEPT ![o].files.note = tool[o].note]
    /\ tool' = [tool EXCEPT ![o] = Idle]
    /\ UNCHANGED <<main, public, served, intents, kpi, clock>>
\* The second rename fails and the manifest is written back.
RenameFails(o) ==
    /\ tool[o].stage = "note"
    /\ checkout' = [checkout EXCEPT ![o].files.manifest.percent = @ - 1]
    /\ tool' = [tool EXCEPT ![o] = Idle]
    /\ UNCHANGED <<main, public, served, intents, kpi, clock>>
Die(o) ==
    /\ tool[o] # Idle
    /\ tool' = [tool EXCEPT ![o] = Idle]
    /\ UNCHANGED <<main, checkout, public, served, intents, kpi, clock>>

(* The operators' other commands.                                              *)
\* Publishing writes the manifest and leaves the rollout state as it is.
Publish(o, r) ==
    /\ tool[o] = Idle /\ checkout[o].files = checkout[o].head.files
    /\ checkout' = [checkout EXCEPT ![o].files.manifest = Published(r, clock)]
    /\ UNCHANGED <<main, tool, public, served, intents, kpi, clock>>
Push(o) ==
    /\ tool[o] = Idle /\ main.rev < MaxCommits
    /\ checkout[o].files # checkout[o].head.files
    /\ checkout[o].head.rev = main.rev
    /\ main' = [rev |-> main.rev + 1, files |-> checkout[o].files]
    /\ checkout' = [checkout EXCEPT ![o].head = main']
    /\ UNCHANGED <<tool, public, served, intents, kpi, clock>>
\* The working tree is thrown away for origin/main.
Checkout(o) ==
    /\ tool[o] = Idle
    /\ checkout' = [checkout EXCEPT ![o] = [head |-> main, files |-> main.files]]
    /\ UNCHANGED <<main, tool, public, served, intents, kpi, clock>>

(* The world around.                                                           *)
Deploy ==
    /\ public' = main.files.manifest
    /\ served' = served \cup {Serving(main.files.manifest)}
    /\ UNCHANGED <<main, checkout, tool, intents, kpi, clock>>
Download ==
    /\ intents[public.version] < MaxIntents
    /\ intents' = [intents EXCEPT ![public.version] = @ + 1]
    /\ UNCHANGED <<main, checkout, tool, public, served, kpi, clock>>
Refresh ==
    /\ \E healthy \in Verdicts :
         kpi' = [version |-> public.version, percent |-> public.percent,
                 closed |-> intents[public.version], healthy |-> healthy, at |-> clock]
    /\ UNCHANGED <<main, checkout, tool, public, served, intents, clock>>
Tick ==
    /\ clock < MaxClock
    /\ clock' = clock + 1
    /\ UNCHANGED <<main, checkout, tool, public, served, intents, kpi>>

Next ==
    \/ \E o \in Releasers :
         \/ \E cap \in {Steps} : Begin(o, cap)
         \/ Evaluate(o) \/ RenameManifest(o) \/ RenameState(o)
         \/ RenameFails(o) \/ Die(o) \/ Push(o) \/ Checkout(o)
         \/ \E r \in Releases : Publish(o, r)
    \/ Deploy \/ Download \/ Refresh \/ Tick

TypeOK ==
    /\ main.rev \in 0..MaxCommits
    /\ \A o \in DOMAIN tool : tool[o].stage \in {"idle", "analytics", "apply", "note"}
    /\ \A o \in DOMAIN checkout : checkout[o].files.manifest.percent \in 1..Steps

AllFiles == {main.files} \cup {checkout[o].files : o \in DOMAIN checkout}
\* Every step recorded for a release was paid for by its own intents and hours,
\* whatever was published again, crashed half-way or done by two at once, and a
\* pair of which only the manifest was written goes no further.
StepsEarned ==
    \A f \in AllFiles :
      /\ f.note # None =>
           /\ f.note.closed >= (f.note.percent - 1) * MinAdditional
           /\ f.note.closed <= intents[f.note.version]
           /\ f.note.at >= (f.note.percent - 1) * MinHours
\* A release reaches a percent by publication or after the site has served the
\* same artifact at the percent before.
ServedBefore ==
    \A f \in AllFiles :
      LET m == f.manifest IN
      \/ \E r \in Releases \cup {FirstRelease} : Serving(r) = Serving(m)
      \/ [Serving(m) EXCEPT !.percent = @ - 1] \in served
\* What origin/main says of one publication rises by single steps; two
\* operators who advance at once advance once.
OneStepAtATime ==
    [][LET old == main.files.manifest
           new == main'.files.manifest
       IN  \/ [new EXCEPT !.percent = old.percent] # old
           \/ new.percent \in {old.percent, old.percent + 1}
           \/ \E r \in Releases \cup {FirstRelease} : Serving(r) = Serving(new)]_main
=============================================================================
