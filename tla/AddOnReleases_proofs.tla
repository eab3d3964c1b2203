---- MODULE AddOnReleases_proofs ----
(* For any add-ons and priorities and any numbers of attempts, commands, failing calls and kills: a deploy never
   uninstalls a release that works, a deploy that succeeds has installed its add-ons, and a teardown that
   succeeds leaves none behind. The decision to uninstall looks at the oldest revision of a release alone, so
   that it has to be shown where in a history a deployed revision may be (IndInv); what a command still has to
   do, has done and knows is in step with its queue and the manifest (Success). *)
EXTENDS AddOnReleases, SequenceTheorems, FiniteSetTheorems, TLAPS

\* A deployed revision is the oldest one, or the newest one after an oldest one that it has superseded.
DeployedPlace(h) == \A i \in 1 .. Len(h) : h[i] = "deployed" => i = 1 \/ (i = Len(h) /\ h[1] = "superseded")

NoneDeployed(h) == \A i \in 1 .. Len(h) : h[i] # "deployed"

\* What a Helm action relies on from its earlier steps, with the release's history.
Relies(h) ==
    /\ step = "upgrade" => h # << >> /\ h[1] = "deployed"
    /\ step = "upgrading" => Len(h) > 1 /\ h[1] = "deployed"
    /\ step = "installing" => h # << >> /\ NoneDeployed(h) /\ (Len(h) = 1 \/ h[1] = "superseded")
    /\ step = "purging" => h # << >> /\ h[Len(h)] = "uninstalling"
    /\ step \in {"uninstall", "purging"} /\ cmd = "deploy" => NoneDeployed(h)

Histories == /\ hist \in [AddOns -> Seq(Statuses)]
             /\ \A a \in AddOns : DeployedPlace(hist[a])

Running == /\ stage = "addons" /\ queue # << >> /\ Head(queue) \in AddOns => Relies(hist[Head(queue)])
           /\ stage \in {"central", "operator", "namespace"} => step = "start"

IndInv == Histories /\ Running

----------------------------------------------------------------------------
(* Histories of a release *)

\* The oldest revision tells whether there is a deployed one, if it is pending or has failed (ReleaseStatus).
LEMMA OldestTells ==
    ASSUME NEW h \in Seq(Statuses), DeployedPlace(h), h # << >>, h[1] \notin {"deployed", "superseded"}
    PROVE  NoneDeployed(h)
<1>1. Len(h) \in Nat
  BY LenProperties
<1> QED BY <1>1 DEF DeployedPlace, NoneDeployed

\* Giving the newest revision another status (WithStatus).
LEMMA NewestChanges ==
    ASSUME NEW h \in Seq(Statuses), h # << >>, NEW s \in Statuses
    PROVE  /\ WithStatus(h, s) \in Seq(Statuses) /\ Len(WithStatus(h, s)) = Len(h)
           /\ WithStatus(h, s)[Len(h)] = s
           /\ \A i \in 1 .. Len(h) : i # Len(h) => WithStatus(h, s)[i] = h[i]
           /\ Len(h) \in Nat \ {0}
<1>1. Len(h) \in Nat \ {0} /\ DOMAIN h = 1 .. Len(h)
  BY LenProperties, EmptySeq
<1>2. \A i \in 1 .. Len(h) : h[i] \in Statuses
  BY ElementOfSeq
<1>3. WithStatus(h, s) \in [1 .. Len(h) -> Statuses]
  BY <1>1, <1>2 DEF WithStatus
<1>4. WithStatus(h, s) \in Seq(Statuses) /\ Len(WithStatus(h, s)) = Len(h)
  BY <1>1, <1>3, IsASeq, LenProperties
<1>5. Len(h) \in 1 .. Len(h)
  BY <1>1
<1>6. WithStatus(h, s)[Len(h)] = s
  BY <1>1, <1>5 DEF WithStatus
<1>7. \A i \in 1 .. Len(h) : i # Len(h) => WithStatus(h, s)[i] = h[i]
  BY <1>1 DEF WithStatus
<1> QED BY <1>1, <1>4, <1>6, <1>7

\* A newest revision that is not deployed leaves at most the oldest one deployed.
LEMMA NotDeployedChanges ==
    ASSUME NEW h \in Seq(Statuses), h # << >>, DeployedPlace(h), NEW s \in Statuses, s # "deployed"
    PROVE  /\ DeployedPlace(WithStatus(h, s))
           /\ NoneDeployed(h) => NoneDeployed(WithStatus(h, s))
<1> DEFINE g == WithStatus(h, s)
<1>1. /\ Len(g) = Len(h) /\ Len(h) \in Nat \ {0} /\ g[Len(h)] = s
      /\ \A i \in 1 .. Len(h) : i # Len(h) => g[i] = h[i]
  BY NewestChanges
<1>2. \A i \in 1 .. Len(h) : g[i] = "deployed" => i # Len(h) /\ h[i] = "deployed"
  BY <1>1
<1> HIDE DEF g
<1>3. DeployedPlace(g)
  BY <1>1, <1>2 DEF DeployedPlace
<1>4. NoneDeployed(h) => NoneDeployed(g)
  BY <1>1, <1>2 DEF NoneDeployed
<1> QED BY <1>3, <1>4 DEF g

\* Appending a revision, as an upgrade does.
LEMMA RevisionAdded ==
    ASSUME NEW h \in Seq(Statuses), h # << >>, DeployedPlace(h), h[1] = "deployed",
           NEW g, g = Append(h, "pending-upgrade")
    PROVE  g \in Seq(Statuses) /\ DeployedPlace(g) /\ Len(g) > 1 /\ g[1] = "deployed"
<1>1. "pending-upgrade" \in Statuses
  BY DEF Statuses, Pending
<1>2. /\ g \in Seq(Statuses) /\ Len(g) = Len(h) + 1 /\ g[Len(h) + 1] = "pending-upgrade"
      /\ \A i \in 1 .. Len(h) : g[i] = h[i]
  BY <1>1, AppendProperties
<1>3. Len(h) \in Nat \ {0}
  BY LenProperties, EmptySeq
<1>4. \A i \in 1 .. Len(h) : h[i] = "deployed" => i = 1
  BY <1>3 DEF DeployedPlace
<1>5. DeployedPlace(g)
  BY <1>2, <1>3, <1>4 DEF DeployedPlace
<1> QED BY <1>2, <1>3, <1>5

\* Superseding the deployed revision, before the new one is given its status.
LEMMA DeployedSuperseded ==
    ASSUME NEW h \in Seq(Statuses), Len(h) > 1, h[1] = "deployed",
           NEW g, g = [i \in DOMAIN h |-> IF h[i] = "deployed" THEN "superseded" ELSE h[i]]
    PROVE  g \in Seq(Statuses) /\ NoneDeployed(g) /\ g # << >> /\ g[1] = "superseded"
<1>1. Len(h) \in Nat /\ DOMAIN h = 1 .. Len(h)
  BY LenProperties
<1>2. \A i \in 1 .. Len(h) : h[i] \in Statuses
  BY ElementOfSeq
<1>3. g \in [1 .. Len(h) -> Statuses]
  BY <1>1, <1>2 DEF Statuses, Pending
<1>4. g \in Seq(Statuses) /\ Len(g) = Len(h)
  BY <1>1, <1>3, IsASeq, LenProperties
<1>5. NoneDeployed(g)
  BY <1>1, <1>4 DEF NoneDeployed
<1>6. g # << >>
  BY <1>4
<1>7. g[1] = "superseded"
  BY <1>1
<1> QED BY <1>4, <1>5, <1>6, <1>7

\* The end of an install or upgrade.
LEMMA NewestDeployed ==
    ASSUME NEW h \in Seq(Statuses), h # << >>, NoneDeployed(h), Len(h) = 1 \/ h[1] = "superseded"
    PROVE  WithStatus(h, "deployed") \in Seq(Statuses) /\ DeployedPlace(WithStatus(h, "deployed"))
<1> DEFINE g == WithStatus(h, "deployed")
<1>1. "deployed" \in Statuses
  BY DEF Statuses
<1>2. /\ g \in Seq(Statuses) /\ Len(g) = Len(h) /\ Len(h) \in Nat \ {0}
      /\ \A i \in 1 .. Len(h) : i # Len(h) => g[i] = h[i]
  BY <1>1, NewestChanges
<1> HIDE DEF g
<1>3. \A i \in 1 .. Len(g) : g[i] = "deployed" => i = Len(g)
  BY <1>2 DEF NoneDeployed
<1>4. Len(g) = 1 \/ g[1] = "superseded"
  BY <1>2
<1>5. DeployedPlace(g)
  BY <1>2, <1>3, <1>4 DEF DeployedPlace
<1> QED BY <1>2, <1>5 DEF g

\* Removing the oldest revision of a release that is being uninstalled.
LEMMA OldestRemoved ==
    ASSUME NEW h \in Seq(Statuses), h # << >>, DeployedPlace(h), h[Len(h)] = "uninstalling"
    PROVE  /\ Tail(h) \in Seq(Statuses) /\ NoneDeployed(Tail(h))
           /\ Len(h) > 1 => Tail(h) # << >> /\ Tail(h)[Len(Tail(h))] = "uninstalling"
<1> DEFINE g == Tail(h)
<1>1. g \in Seq(Statuses) /\ Len(g) = Len(h) - 1 /\ \A i \in 1 .. Len(g) : g[i] = h[i + 1]
  BY HeadTailProperties
<1>2. Len(h) \in Nat \ {0}
  BY LenProperties, EmptySeq
<1> HIDE DEF g
<1>3. \A i \in 1 .. Len(h) : h[i] = "deployed" => i = 1
  BY <1>2 DEF DeployedPlace
<1>4. NoneDeployed(g)
  BY <1>1, <1>2, <1>3 DEF NoneDeployed
<1>5. ASSUME Len(h) > 1 PROVE g # << >> /\ g[Len(g)] = "uninstalling"
  <2>1. Len(g) \in 1 .. Len(g) /\ Len(g) # 0
    BY <1>1, <1>2, <1>5
  <2>2. g[Len(g)] = "uninstalling"
    BY <1>1, <1>2, <2>1
  <2> QED BY <2>1, <2>2
<1> QED BY <1>1, <1>4, <1>5 DEF g

\* A history without a deployed revision is one with its deployed revisions in place.
LEMMA NoneIsInPlace ==
    ASSUME NEW h, NoneDeployed(h)
    PROVE  DeployedPlace(h)
BY DEF NoneDeployed, DeployedPlace

----------------------------------------------------------------------------
(* The steps *)

\* The history of one release changes.
LEMMA HistoryChanges ==
    ASSUME Histories, NEW a, NEW g, hist' = [hist EXCEPT ![a] = g],
           a \in AddOns => g \in Seq(Statuses) /\ DeployedPlace(g)
    PROVE  Histories' /\ (a \in AddOns => hist'[a] = g)
<1>1. hist' \in [AddOns -> Seq(Statuses)]
  BY DEF Histories
<1>2. ASSUME NEW b \in AddOns PROVE DeployedPlace(hist'[b])
  BY DEF Histories
<1> QED BY <1>1, <1>2 DEF Histories

\* Nothing is relied on where the action for an add-on starts, and after the command.
LEMMA NothingReliedOn ==
    ASSUME step' = "start" \/ stage' \in {"failed", "idle", "succeeded", "record", "forget"}
    PROVE  Running'
<1>1. CASE step' = "start"
  BY <1>1 DEF Running, Relies
<1>2. CASE stage' \in {"failed", "idle", "succeeded", "record", "forget"}
  BY <1>2 DEF Running
<1> QED BY <1>1, <1>2

\* The command goes on with the same add-on.
LEMMA SameAddOn ==
    ASSUME NEW a, a = Head(queue), queue' = queue, stage' = "addons",
           a \in AddOns => Relies(hist[a])'
    PROVE  Running'
BY DEF Running, Relies

\* Where a command goes on after an attempt that failed, or after its last one.
LEMMA AfterAttempt ==
    ASSUME NEW a, AttemptFailed(a) \/ GaveUp(a) \/ Succeeded(a)
    PROVE  Running'
<1>1. step' = "start" \/ stage' = "failed"
  BY DEF AttemptFailed, GaveUp, Succeeded, Done, Fail
<1> QED BY <1>1, NothingReliedOn

\* Each step of the Helm action for an add-on.
LEMMA HelmKeeps ==
    ASSUME IndInv, Helm
    PROVE  IndInv'
<1> DEFINE a == Head(queue)
           h == hist[a]
<1>1. stage = "addons" /\ queue # << >> /\ cmd' = cmd
  BY DEF Helm, Same
<1>2. ASSUME a \in AddOns
      PROVE  h \in Seq(Statuses) /\ DeployedPlace(h) /\ Relies(h)
  BY <1>1, <1>2 DEF IndInv, Histories, Running
<1>3. CASE InspectRelease(a)
  <2>1. Histories'
    BY <1>3 DEF InspectRelease, IndInv, Histories
  <2>2. CASE AttemptFailed(a)
    BY <2>1, <2>2, AfterAttempt DEF IndInv
  <2>3. CASE step' = "install" /\ UNCHANGED <<stage, queue>>
    <3>1. a \in AddOns => Relies(hist[a])'
      BY <2>3 DEF Relies
    <3> QED BY <1>1, <2>1, <2>3, <3>1, SameAddOn DEF IndInv
  <2>4. CASE ReleaseStatus(h) \in Pending \cup {"failed"} /\ Goto("uninstall")
    <3>1. ASSUME a \in AddOns PROVE NoneDeployed(h)
      <4>1. h # << >> /\ h[1] \notin {"deployed", "superseded"}
        BY <1>2, <2>4, <3>1 DEF ReleaseStatus, Pending
      <4> QED BY <1>2, <3>1, <4>1, OldestTells
    <3>2. ASSUME a \in AddOns PROVE Relies(hist[a])'
      BY <1>3, <2>4, <3>1, <3>2 DEF InspectRelease, Goto, Relies, NoneDeployed
    <3> QED BY <1>1, <2>1, <2>4, <3>2, SameAddOn DEF IndInv, Goto
  <2>5. CASE ReleaseStatus(h) = "deployed" /\ Goto("upgrade")
    <3>1. ASSUME a \in AddOns PROVE h # << >> /\ h[1] = "deployed"
      BY <1>2, <2>5, <3>1 DEF ReleaseStatus
    <3>2. ASSUME a \in AddOns PROVE Relies(hist[a])'
      BY <1>3, <2>5, <3>1, <3>2 DEF InspectRelease, Goto, Relies
    <3> QED BY <1>1, <2>1, <2>5, <3>2, SameAddOn DEF IndInv, Goto
  <2>6. CASE Goto("install")
    BY <2>3, <2>6 DEF Goto
  <2> QED BY <1>3, <2>2, <2>3, <2>4, <2>5, <2>6 DEF InspectRelease
<1>4. CASE InstallRelease(a)
  <2>1. CASE hist' = [hist EXCEPT ![a] = <<"pending-install">>] /\ Goto("installing")
    <3> DEFINE g == <<"pending-install">>
    <3>1. g \in Seq(Statuses) /\ NoneDeployed(g) /\ Len(g) = 1 /\ g # << >>
      BY DEF Statuses, Pending, NoneDeployed
    <3> HIDE DEF g
    <3>2. Histories' /\ (a \in AddOns => hist'[a] = g)
      BY <2>1, <3>1, HistoryChanges, NoneIsInPlace DEF IndInv, g
    <3>3. ASSUME a \in AddOns PROVE Relies(hist[a])'
      BY <1>1, <2>1, <3>1, <3>2, <3>3 DEF Goto, Relies, NoneDeployed
    <3> QED BY <1>1, <2>1, <3>2, <3>3, SameAddOn DEF IndInv, Goto
  <2>2. CASE UNCHANGED hist /\ (GaveUp(a) \/ AttemptFailed(a))
    BY <2>2, AfterAttempt DEF IndInv, Histories
  <2> QED BY <1>4, <2>1, <2>2 DEF InstallRelease
<1>5. CASE UpgradeRelease(a)
  <2>1. CASE hist' = [hist EXCEPT ![a] = Append(@, "pending-upgrade")] /\ Goto("upgrading")
    <3> DEFINE g == Append(h, "pending-upgrade")
    <3>1. ASSUME a \in AddOns
          PROVE  g \in Seq(Statuses) /\ DeployedPlace(g) /\ Len(g) > 1 /\ g[1] = "deployed"
      <4>1. h # << >> /\ h[1] = "deployed"
        BY <1>2, <1>5, <3>1 DEF UpgradeRelease, Relies
      <4> QED BY <1>2, <3>1, <4>1, RevisionAdded
    <3>2. hist' = [hist EXCEPT ![a] = g]
      BY <2>1
    <3> HIDE DEF g
    <3>3. Histories' /\ (a \in AddOns => hist'[a] = g)
      BY <3>1, <3>2, HistoryChanges DEF IndInv
    <3>4. ASSUME a \in AddOns PROVE Relies(hist[a])'
      BY <2>1, <3>1, <3>3, <3>4 DEF Goto, Relies
    <3> QED BY <1>1, <2>1, <3>3, <3>4, SameAddOn DEF IndInv, Goto
  <2>2. CASE UNCHANGED hist /\ (GaveUp(a) \/ AttemptFailed(a))
    BY <2>2, AfterAttempt DEF IndInv, Histories
  <2> QED BY <1>5, <2>1, <2>2 DEF UpgradeRelease
<1>6. CASE SupersedeRevision(a)
  <2> DEFINE g == [i \in DOMAIN h |-> IF h[i] = "deployed" THEN "superseded" ELSE h[i]]
  <2>1. ASSUME a \in AddOns
        PROVE  g \in Seq(Statuses) /\ NoneDeployed(g) /\ g # << >> /\ g[1] = "superseded"
    <3>1. Len(h) > 1 /\ h[1] = "deployed"
      BY <1>2, <1>6, <2>1 DEF SupersedeRevision, Relies
    <3> QED BY <1>2, <2>1, <3>1, DeployedSuperseded
  <2>2. hist' = [hist EXCEPT ![a] = g] /\ Goto("installing")
    BY <1>6 DEF SupersedeRevision
  <2> HIDE DEF g
  <2>3. Histories' /\ (a \in AddOns => hist'[a] = g)
    BY <2>1, <2>2, HistoryChanges, NoneIsInPlace DEF IndInv
  <2>4. ASSUME a \in AddOns PROVE Relies(hist[a])'
    BY <2>1, <2>2, <2>3, <2>4 DEF Goto, Relies, NoneDeployed
  <2> QED BY <1>1, <2>2, <2>3, <2>4, SameAddOn DEF IndInv, Goto
<1>7. CASE FinishRelease(a)
  <2> DEFINE g == WithStatus(h, "deployed")
  <2>1. ASSUME a \in AddOns PROVE g \in Seq(Statuses) /\ DeployedPlace(g)
    <3>1. h # << >> /\ NoneDeployed(h) /\ (Len(h) = 1 \/ h[1] = "superseded")
      BY <1>2, <1>7, <2>1 DEF FinishRelease, Relies
    <3> QED BY <1>2, <2>1, <3>1, NewestDeployed
  <2>2. hist' = [hist EXCEPT ![a] = g] /\ Succeeded(a)
    BY <1>7 DEF FinishRelease
  <2> HIDE DEF g
  <2>3. Histories'
    BY <2>1, <2>2, HistoryChanges DEF IndInv
  <2> QED BY <2>2, <2>3, AfterAttempt DEF IndInv
<1>8. CASE FailRelease(a)
  <2> DEFINE g == WithStatus(h, "failed")
  <2>1. Running'
    BY <1>8, AfterAttempt DEF FailRelease
  <2>2. CASE hist' = hist
    BY <2>1, <2>2 DEF IndInv, Histories
  <2>3. CASE hist' = [hist EXCEPT ![a] = g]
    <3>1. ASSUME a \in AddOns PROVE g \in Seq(Statuses) /\ DeployedPlace(g)
      <4>1. h # << >>
        BY <1>2, <1>8, <3>1, EmptySeq DEF FailRelease, Relies
      <4>2. "failed" \in Statuses
        BY DEF Statuses
      <4> QED BY <1>2, <3>1, <4>1, <4>2, NewestChanges, NotDeployedChanges
    <3> HIDE DEF g
    <3>2. Histories'
      BY <2>3, <3>1, HistoryChanges DEF IndInv
    <3> QED BY <2>1, <3>2 DEF IndInv
  <2> QED BY <1>8, <2>2, <2>3 DEF FailRelease
<1>9. CASE UninstallRelease(a)
  <2>1. CASE UNCHANGED hist /\ (Succeeded(a) \/ AttemptFailed(a))
    BY <2>1, AfterAttempt DEF IndInv, Histories
  <2>2. CASE UNCHANGED hist /\ Goto("install")
    <3>1. a \in AddOns => Relies(hist[a])'
      BY <2>2 DEF Goto, Relies
    <3> QED BY <1>1, <2>2, <3>1, SameAddOn DEF IndInv, Histories, Goto
  <2>3. CASE h # << >> /\ hist' = [hist EXCEPT ![a] = WithStatus(@, "uninstalling")] /\ Goto("purging")
    <3> DEFINE g == WithStatus(h, "uninstalling")
    <3>1. "uninstalling" \in Statuses
      BY DEF Statuses
    <3>2. ASSUME a \in AddOns
          PROVE  /\ g \in Seq(Statuses) /\ DeployedPlace(g) /\ g # << >> /\ g[Len(g)] = "uninstalling"
                 /\ NoneDeployed(h) => NoneDeployed(g)
      <4>1. /\ g \in Seq(Statuses) /\ Len(g) = Len(h) /\ Len(h) \in Nat \ {0}
            /\ g[Len(h)] = "uninstalling"
        BY <1>2, <2>3, <3>1, <3>2, NewestChanges
      <4>2. DeployedPlace(g) /\ (NoneDeployed(h) => NoneDeployed(g))
        BY <1>2, <2>3, <3>1, <3>2, NotDeployedChanges
      <4> HIDE DEF g
      <4>3. g # << >>
        BY <4>1
      <4> QED BY <4>1, <4>2, <4>3
    <3>3. hist' = [hist EXCEPT ![a] = g]
      BY <2>3
    <3> HIDE DEF g
    <3>4. Histories' /\ (a \in AddOns => hist'[a] = g)
      BY <3>2, <3>3, HistoryChanges DEF IndInv
    <3>5. ASSUME a \in AddOns, cmd = "deploy" PROVE NoneDeployed(h)
      BY <1>2, <1>9, <3>5 DEF UninstallRelease, Relies
    <3>6. ASSUME a \in AddOns PROVE Relies(hist[a])'
      BY <1>1, <2>3, <3>2, <3>4, <3>5, <3>6 DEF Goto, Relies, NoneDeployed
    <3> QED BY <1>1, <2>3, <3>4, <3>6, SameAddOn DEF IndInv, Goto
  <2> QED BY <1>9, <2>1, <2>2, <2>3 DEF UninstallRelease
<1>10. CASE PurgeRevision(a)
  <2>1. CASE UNCHANGED hist /\ AttemptFailed(a)
    BY <2>1, AfterAttempt DEF IndInv, Histories
  <2>2. CASE hist' = [hist EXCEPT ![a] = Tail(@)]
    <3> DEFINE g == Tail(h)
    <3>1. ASSUME a \in AddOns
          PROVE  /\ g \in Seq(Statuses) /\ NoneDeployed(g)
                 /\ Len(h) > 1 => g # << >> /\ g[Len(g)] = "uninstalling"
      <4>1. h # << >> /\ h[Len(h)] = "uninstalling"
        BY <1>2, <1>10, <3>1 DEF PurgeRevision, Relies
      <4> QED BY <1>2, <3>1, <4>1, OldestRemoved
    <3>2. hist' = [hist EXCEPT ![a] = g]
      BY <2>2
    <3> HIDE DEF g
    <3>3. Histories' /\ (a \in AddOns => hist'[a] = g)
      BY <3>1, <3>2, HistoryChanges, NoneIsInPlace DEF IndInv
    <3>4. CASE Len(h) > 1 /\ UNCHANGED <<stage, queue, step>>
      <4>1. ASSUME a \in AddOns PROVE Relies(hist[a])'
        BY <1>1, <1>10, <3>1, <3>3, <3>4, <4>1 DEF PurgeRevision, Relies, NoneDeployed
      <4> QED BY <1>1, <3>3, <3>4, <4>1, SameAddOn DEF IndInv
    <3>5. CASE Goto("install")
      <4>1. a \in AddOns => Relies(hist[a])'
        BY <3>5 DEF Goto, Relies
      <4> QED BY <1>1, <3>3, <3>5, <4>1, SameAddOn DEF IndInv, Goto
    <3>6. CASE Succeeded(a) \/ AttemptFailed(a)
      BY <3>3, <3>6, AfterAttempt DEF IndInv
    <3> QED BY <1>10, <2>2, <3>4, <3>5, <3>6 DEF PurgeRevision
  <2> QED BY <1>10, <2>1, <2>2 DEF PurgeRevision
<1> QED BY <1>3, <1>4, <1>5, <1>6, <1>7, <1>8, <1>9, <1>10 DEF Helm

\* The other steps leave the histories alone and rely on nothing.
LEMMA OthersKeep ==
    ASSUME IndInv, [Next]_vars, ~Helm
    PROVE  IndInv'
<1>1. CASE UNCHANGED vars
  BY <1>1 DEF vars, IndInv, Histories, Running, Relies
<1>2. CASE StartDeploy \/ StartTeardown
  <2>1. UNCHANGED hist /\ step' = "start"
    BY <1>2 DEF StartDeploy, StartTeardown, Start
  <2>2. Running'
    BY <2>1, NothingReliedOn
  <2> QED BY <2>1, <2>2 DEF IndInv, Histories
<1>3. CASE Killed \/ DeploySensor \/ RecordManifest \/ TeardownCentral \/ ForgetManifest
  <2>1. UNCHANGED hist /\ stage' \in {"failed", "idle", "succeeded", "record", "forget"}
    BY <1>3 DEF Killed, DeploySensor, RecordManifest, TeardownCentral, ForgetManifest, Settled, Fail
  <2>2. Running'
    BY <2>1, NothingReliedOn
  <2> QED BY <2>1, <2>2 DEF IndInv, Histories
<1>4. CASE TeardownExistingCentral \/ DeployCentral \/ PrepareNamespace
  <2>1. UNCHANGED <<hist, step>> /\ stage \in {"central", "operator", "namespace"}
    BY <1>4 DEF TeardownExistingCentral, DeployCentral, PrepareNamespace, Settled
  <2>2. step' = "start"
    BY <2>1 DEF IndInv, Running
  <2>3. Running'
    BY <2>2, NothingReliedOn
  <2> QED BY <2>1, <2>3 DEF IndInv, Histories
<1> QED BY <1>1, <1>2, <1>3, <1>4 DEF Next

----------------------------------------------------------------------------
(* The theorems *)

\* In every history a deployed revision is the oldest one, or the newest one after an oldest one that it
\* has superseded, and what a Helm action is about to do fits the history that it works on.
THEOREM HistoriesInOrder == Spec => []IndInv
<1>1. Init => IndInv
  <2>1. << >> \in Seq(Statuses) /\ DeployedPlace(<< >>)
    BY DEF DeployedPlace
  <2> QED BY <2>1 DEF Init, IndInv, Histories, Running, Relies
<1>2. IndInv /\ [Next]_vars => IndInv'
  BY HelmKeeps, OthersKeep
<1> QED BY <1>1, <1>2, PTL DEF Spec

\* A deploy removes no revision of a release that works: a purge is the only step that makes a history
\* shorter, and a deploy purges where there is no deployed revision.
THEOREM AWorkingReleaseIsKept == Spec => WorkingKept
<1> DEFINE Kept == \A a \in AddOns : cmd = "deploy" /\ Contains(hist[a], "deployed") => Len(hist'[a]) >= Len(hist[a])
<1>1. IndInv /\ [Next]_vars => Kept
  <2> SUFFICES ASSUME IndInv, [Next]_vars, NEW b \in AddOns, cmd = "deploy", Contains(hist[b], "deployed")
               PROVE  Len(hist'[b]) >= Len(hist[b])
    OBVIOUS
  <2> DEFINE a == Head(queue)
             h == hist[a]
  <2>1. hist[b] \in Seq(Statuses) /\ Len(hist[b]) \in Nat /\ ~NoneDeployed(hist[b])
    BY LenProperties DEF IndInv, Histories, NoneDeployed, Contains
  <2>2. CASE hist'[b] = hist[b]
    BY <2>1, <2>2
  <2>3. CASE a = b /\ Helm
    <3>1. stage = "addons" /\ queue # << >> /\ Relies(h) /\ h = hist[b]
      BY <2>3 DEF Helm, IndInv, Running
    <3>2. CASE PurgeRevision(a)
      BY <2>1, <3>1, <3>2 DEF PurgeRevision, Relies
    <3>3. CASE InstallRelease(a)
      BY <2>1, <2>3, <3>3 DEF InstallRelease, NoneDeployed
    <3>4. CASE UpgradeRelease(a)
      BY <2>1, <2>3, <3>4 DEF UpgradeRelease, IndInv, Histories
    <3>5. CASE \E s \in Statuses : hist' = [hist EXCEPT ![a] = WithStatus(@, s)]
      <4>1. PICK s \in Statuses : hist' = [hist EXCEPT ![a] = WithStatus(@, s)]
        BY <3>5
      <4>2. hist'[b] = WithStatus(hist[b], s)
        BY <2>3, <4>1 DEF IndInv, Histories
      <4>3. hist[b] # << >>
        BY <2>1 DEF NoneDeployed
      <4> QED BY <2>1, <4>2, <4>3, NewestChanges
    <3>6. CASE SupersedeRevision(a)
      <4> DEFINE g == [i \in DOMAIN h |-> IF h[i] = "deployed" THEN "superseded" ELSE h[i]]
      <4>1. hist'[b] = g
        BY <2>3, <3>6 DEF SupersedeRevision, IndInv, Histories
      <4>2. Len(g) = Len(hist[b])
        BY <2>1, <3>1, LenProperties
      <4> QED BY <2>1, <4>1, <4>2
    <3>7. CASE UNCHANGED hist
      BY <2>1, <3>7
    <3>8. ASSUME FinishRelease(a) \/ FailRelease(a) \/ UninstallRelease(a) \/ InspectRelease(a)
          PROVE  \/ UNCHANGED hist
                 \/ \E s \in Statuses : hist' = [hist EXCEPT ![a] = WithStatus(@, s)]
      <4>1. {"deployed", "failed", "uninstalling"} \subseteq Statuses
        BY DEF Statuses
      <4> QED BY <3>8, <4>1 DEF FinishRelease, FailRelease, UninstallRelease, InspectRelease
    <3> QED BY <2>3, <3>2, <3>3, <3>4, <3>5, <3>6, <3>7, <3>8 DEF Helm
  <2>4. ASSUME hist'[b] # hist[b] PROVE a = b /\ Helm
    <3>1. Helm
      BY <2>4 DEF Next, vars, StartDeploy, StartTeardown, Start, Killed, TeardownExistingCentral, DeployCentral,
                  PrepareNamespace, DeploySensor, RecordManifest, TeardownCentral, ForgetManifest, Settled
    <3>2. hist' = hist \/ \E g : hist' = [hist EXCEPT ![a] = g]
      BY <3>1 DEF Helm, InspectRelease, InstallRelease, UpgradeRelease, SupersedeRevision, FinishRelease,
                  FailRelease, UninstallRelease, PurgeRevision
    <3> QED BY <2>4, <3>1, <3>2 DEF IndInv, Histories
  <2> QED BY <2>2, <2>3, <2>4
<1>2. IndInv /\ [Next]_vars => [Kept]_vars
  BY <1>1
<1> QED BY <1>2, HistoriesInOrder, PTL DEF Spec, WorkingKept
----------------------------------------------------------------------------
(* The order of add-ons *)

\* Before is a strict order of the add-ons, and any two of them are in order.
LEMMA BeforeOrders ==
    ASSUME NEW a \in AddOns, NEW b \in AddOns
    PROVE  /\ ~Before(a, a) /\ (a # b => Before(a, b) \/ Before(b, a))
           /\ \A c \in AddOns : Before(a, b) /\ Before(b, c) => Before(a, c)
<1>1. \A c \in AddOns : c \in Nat /\ Priority[c] \in Nat
  BY AddOnsAssumption
<1> QED BY <1>1 DEF Before

\* A set of add-ons can be sorted: each of them has the place that is the number of those up to it.
LEMMA SortExists ==
    ASSUME NEW S \in SUBSET AddOns
    PROVE  /\ Cardinality(S) \in Nat
           /\ SortAddOns(S) \in [1 .. Cardinality(S) -> S]
           /\ \A x \in S : \E i \in 1 .. Cardinality(S) : SortAddOns(S)[i] = x
           /\ \A i, j \in 1 .. Cardinality(S) : i < j => Before(SortAddOns(S)[i], SortAddOns(S)[j])
<1> DEFINE n == Cardinality(S)
           UpTo(x) == {y \in S : y = x \/ Before(y, x)}
           rank == [x \in S |-> Cardinality(UpTo(x))]
           Sorted(q) == \A i, j \in 1 .. n : i < j => Before(q[i], q[j])
<1>1. IsFiniteSet(S) /\ n \in Nat
  BY AddOnsAssumption, FS_Subset, FS_CardinalityType
<1>2. ASSUME NEW x \in S
      PROVE  IsFiniteSet(UpTo(x)) /\ Cardinality(UpTo(x)) \in 1 .. n
  <2>1. UpTo(x) \in SUBSET S /\ x \in UpTo(x)
    OBVIOUS
  <2>2. IsFiniteSet(UpTo(x)) /\ Cardinality(UpTo(x)) <= n
    BY <1>1, <2>1, FS_Subset
  <2>3. Cardinality(UpTo(x)) \in Nat /\ Cardinality(UpTo(x)) # 0
    BY <2>1, <2>2, FS_CardinalityType, FS_EmptySet
  <2> HIDE DEF UpTo
  <2> QED BY <1>1, <2>2, <2>3
<1>3. ASSUME NEW x \in S, NEW y \in S, Before(x, y)
      PROVE  rank[x] < rank[y]
  <2>1. UpTo(x) \in SUBSET UpTo(y)
    <3>1. ASSUME NEW z \in S, z = x \/ Before(z, x) PROVE Before(z, y)
      BY <1>3, <3>1, BeforeOrders
    <3> QED BY <3>1
  <2>2. y \notin UpTo(x) /\ y \in UpTo(y)
    BY <1>3, BeforeOrders
  <2> HIDE DEF UpTo
  <2>3. Cardinality(UpTo(x)) <= Cardinality(UpTo(y)) /\ Cardinality(UpTo(x)) # Cardinality(UpTo(y))
    BY <1>2, <2>1, <2>2, FS_Subset
  <2>4. Cardinality(UpTo(x)) \in Int /\ Cardinality(UpTo(y)) \in Int
    BY <1>2
  <2> QED BY <2>3, <2>4
<1>4. rank \in [S -> 1 .. n]
  BY <1>2
<1> HIDE DEF rank, UpTo
<1>5. ASSUME NEW x \in S, NEW y \in S, x # y
      PROVE  rank[x] # rank[y]
  BY <1>3, <1>4, <1>5, BeforeOrders
<1>6. rank \in Injection(S, 1 .. n)
  BY <1>4, <1>5 DEF Injection, IsInjective
<1>7. IsFiniteSet(1 .. n) /\ Cardinality(1 .. n) = n
  BY <1>1, FS_Interval
<1>8. \A i \in 1 .. n : \E x \in S : rank[x] = i
  <2>1. rank \in Surjection(S, 1 .. n)
    BY <1>6, <1>7, FS_Injection
  <2> QED BY <2>1 DEF Surjection
<1> DEFINE q == [i \in 1 .. n |-> CHOOSE x \in S : rank[x] = i]
<1>9. \A i \in 1 .. n : q[i] \in S /\ rank[q[i]] = i
  BY <1>8
<1>10. q \in [1 .. n -> S]
  BY <1>9
<1> HIDE DEF q
<1>11. Sorted(q)
  <2> SUFFICES ASSUME NEW i \in 1 .. n, NEW j \in 1 .. n, i < j
               PROVE  Before(q[i], q[j])
    OBVIOUS
  <2>1. q[i] \in S /\ q[j] \in S /\ rank[q[i]] = i /\ rank[q[j]] = j
    BY <1>9
  <2>2. q[i] # q[j]
    BY <2>1
  <2>3. Before(q[j], q[i]) => j < i
    BY <1>3, <2>1
  <2> QED BY <2>1, <2>2, <2>3, BeforeOrders
<1> DEFINE s == SortAddOns(S)
<1>12. s \in [1 .. n -> S] /\ Sorted(s)
  BY <1>10, <1>11 DEF SortAddOns
<1> HIDE DEF s
<1>13. ASSUME NEW i \in 1 .. n, NEW j \in 1 .. n, i # j
       PROVE  s[i] # s[j]
  <2>1. i < j \/ j < i
    <3>1. i \in Int /\ j \in Int
      BY <1>1
    <3> QED BY <1>13, <3>1
  <2>2. Before(s[i], s[j]) \/ Before(s[j], s[i])
    BY <1>12, <2>1
  <2> QED BY <1>12, <2>2, BeforeOrders
<1>14. s \in Injection(1 .. n, S)
  BY <1>12, <1>13 DEF Injection, IsInjective
<1>15. s \in Surjection(1 .. n, S)
  BY <1>1, <1>7, <1>14, FS_Injection
<1>16. \A x \in S : \E i \in 1 .. n : s[i] = x
  BY <1>15 DEF Surjection
<1> QED BY <1>1, <1>12, <1>16 DEF s

\* Sorting add-ons, in either direction, keeps just them.
LEMMA SortKeeps ==
    ASSUME NEW S \in SUBSET AddOns, NEW q, q = SortAddOns(S) \/ q = Reverse(SortAddOns(S))
    PROVE  q \in Seq(AddOns) /\ ToSet(q) = S
<1> DEFINE n == Cardinality(S)
           s == SortAddOns(S)
<1>1. n \in Nat /\ s \in [1 .. n -> S] /\ \A x \in S : \E i \in 1 .. n : s[i] = x
  BY SortExists
<1> HIDE DEF s
<1>2. s \in Seq(S) /\ Len(s) = n
  BY <1>1, IsASeq, LenProperties
<1>3. q \in [1 .. n -> S] /\ \A x \in S : \E i \in 1 .. n : q[i] = x
  <2>1. CASE q = s
    BY <1>1, <2>1
  <2>2. CASE q = [i \in 1 .. n |-> s[(n - i) + 1]]
    <3>1. \A i \in 1 .. n : (n - i) + 1 \in 1 .. n /\ (n - ((n - i) + 1)) + 1 = i
      BY <1>1
    <3>2. q \in [1 .. n -> S]
      BY <1>1, <2>2, <3>1
    <3>3. ASSUME NEW x \in S PROVE \E i \in 1 .. n : q[i] = x
      <4>1. PICK i \in 1 .. n : s[i] = x
        BY <1>1
      <4> DEFINE j == (n - i) + 1
      <4>2. j \in 1 .. n /\ (n - j) + 1 = i
        BY <3>1
      <4>3. q[j] = x
        BY <2>2, <4>1, <4>2
      <4> QED BY <4>2, <4>3
    <3> QED BY <3>2, <3>3
  <2> QED BY <1>2, <2>1, <2>2 DEF Reverse, s
<1>4. q \in Seq(S) /\ DOMAIN q = 1 .. n
  BY <1>1, <1>3, IsASeq
<1>5. q \in [1 .. n -> AddOns]
  BY <1>3
<1>6. q \in Seq(AddOns)
  BY <1>1, <1>5, IsASeq
<1>7. ToSet(q) = S
  BY <1>3, <1>4 DEF ToSet
<1> QED BY <1>6, <1>7

----------------------------------------------------------------------------
(* Types *)

\* What a queue of add-ons loses when its first one is done with.
LEMMA FirstDone ==
    ASSUME NEW q \in Seq(AddOns), q # << >>
    PROVE  /\ Head(q) \in AddOns /\ Head(q) \in ToSet(q) /\ Tail(q) \in Seq(AddOns)
           /\ ToSet(Tail(q)) \subseteq ToSet(q)
           /\ \A b \in ToSet(q) : b = Head(q) \/ b \in ToSet(Tail(q))
<1>1. Len(q) \in Nat \ {0} /\ DOMAIN q = 1 .. Len(q) /\ \A i \in 1 .. Len(q) : q[i] \in AddOns
  BY LenProperties, EmptySeq, ElementOfSeq
<1>2. /\ Tail(q) \in Seq(AddOns) /\ Len(Tail(q)) = Len(q) - 1 /\ Head(q) = q[1]
      /\ \A i \in 1 .. Len(Tail(q)) : Tail(q)[i] = q[i + 1]
  BY HeadTailProperties
<1>3. DOMAIN Tail(q) = 1 .. Len(q) - 1
  BY <1>2, LenProperties
<1> DEFINE t == Tail(q)
<1> HIDE DEF t
<1>4. 1 \in DOMAIN q
  BY <1>1
<1>5. ToSet(t) \subseteq ToSet(q)
  <2> SUFFICES ASSUME NEW i \in 1 .. Len(q) - 1 PROVE t[i] \in ToSet(q)
    BY <1>3 DEF ToSet, t
  <2>1. i + 1 \in DOMAIN q /\ t[i] = q[i + 1]
    BY <1>1, <1>2 DEF t
  <2> QED BY <2>1 DEF ToSet
<1>6. ASSUME NEW b \in ToSet(q) PROVE b = Head(q) \/ b \in ToSet(t)
  <2>1. PICK i \in 1 .. Len(q) : b = q[i]
    BY <1>1 DEF ToSet
  <2>2. CASE i = 1
    BY <1>2, <2>1, <2>2
  <2>3. CASE i # 1
    <3>1. i - 1 \in 1 .. Len(q) - 1 /\ i - 1 \in DOMAIN t
      BY <1>1, <1>3, <2>3 DEF t
    <3>2. t[i - 1] = q[(i - 1) + 1]
      BY <1>2, <3>1 DEF t
    <3>3. t[i - 1] = b
      BY <2>1, <3>2
    <3> QED BY <3>1, <3>3 DEF ToSet
  <2> QED BY <2>2, <2>3
<1> QED BY <1>1, <1>2, <1>4, <1>5, <1>6 DEF ToSet, t

\* The first add-on of a command that is at work on one.
LEMMA First ==
    ASSUME TypeOK, Helm
    PROVE  Head(queue) \in AddOns /\ Head(queue) \in enabled /\ queue # << >> /\ queue \in Seq(AddOns)
BY FirstDone DEF TypeOK, Helm

\* How a command goes on after an attempt for an add-on.
LEMMA AttemptTyped ==
    ASSUME TypeOK, NEW a \in AddOns, queue # << >>, Same,
           (AttemptFailed(a) \/ ((GaveUp(a) \/ Succeeded(a)) /\ UNCHANGED faults)), Histories'
    PROVE  TypeOK'
<1>1. Tail(queue) \in Seq(AddOns) /\ ToSet(Tail(queue)) \subseteq enabled
  BY FirstDone DEF TypeOK
<1>2. MaxAttempts \in Nat \ {0} /\ MaxFaults \in Nat
  BY BoundsAssumption
<1>3. faults' \in 0 .. MaxFaults
  BY <1>2 DEF TypeOK, AttemptFailed, Fault
<1>4. attempt' \in 1 .. MaxAttempts
  BY <1>2 DEF TypeOK, AttemptFailed, GaveUp, Succeeded, Done
<1>5. queue' \in Seq(AddOns) /\ ToSet(queue') \subseteq enabled
  BY <1>1 DEF TypeOK, AttemptFailed, GaveUp, Succeeded, Done
<1>6. outcome' \in [AddOns -> {"none", "ok", "failed"}]
  BY DEF TypeOK, AttemptFailed, GaveUp, Succeeded, Done
<1>7. /\ stage' = stage \/ stage' = "failed"
      /\ step' = step \/ step' = "start"
  BY DEF AttemptFailed, GaveUp, Succeeded, Done, Fail
<1>8. spotless' \in BOOLEAN
  BY DEF TypeOK, AttemptFailed, GaveUp, Succeeded, Done, Unrecorded
<1> QED BY <1>3, <1>4, <1>5, <1>6, <1>7, <1>8 DEF TypeOK, Same, Histories

\* Every step keeps the types, given those of the histories.
LEMMA TypesKept ==
    ASSUME TypeOK, Histories', [Next]_vars
    PROVE  TypeOK'
<1>0. MaxAttempts \in Nat \ {0} /\ MaxFaults \in Nat /\ MaxCommands \in Nat /\ MaxKills \in Nat
  BY BoundsAssumption
<1>1. ASSUME Fault \/ UNCHANGED faults PROVE faults' \in 0 .. MaxFaults
  BY <1>0, <1>1 DEF Fault, TypeOK
<1>2. hist' \in [AddOns -> Seq(Statuses)]
  BY DEF Histories
<1>3. CASE UNCHANGED vars
  BY <1>3 DEF vars, TypeOK
<1>4. ASSUME NEW c \in {"deploy", "teardown"}, NEW components \in Components, NEW own \in SUBSET AddOns,
             NEW inCheckout \in BOOLEAN, Start(c, components, own, inCheckout)
      PROVE  TypeOK'
  <2> DEFINE addOns == IF IncludesAddOns(components) THEN enabled' ELSE {}
  <2>1. enabled' \in SUBSET AddOns
    BY <1>4 DEF Start, ConfigForCommand, TypeOK
  <2>2. addOns \in SUBSET AddOns /\ addOns \subseteq enabled'
    BY <2>1
  <2>3. queue' = SortAddOns(addOns) \/ queue' = Reverse(SortAddOns(addOns))
    BY <1>4 DEF Start
  <2>4. queue' \in Seq(AddOns) /\ ToSet(queue') \subseteq enabled'
    BY <2>2, <2>3, SortKeeps
  <2> HIDE DEF addOns
  <2>5. commands' \in 0 .. MaxCommands
    BY <1>0, <1>4 DEF Start, TypeOK
  <2>6. faults' \in 0 .. MaxFaults /\ spotless' \in BOOLEAN
    BY <1>1, <1>4 DEF Start, TypeOK
  <2>7. stage' \in {"failed", "addons", "central", "namespace"}
    BY <1>4 DEF Start
  <2>8. /\ cmd' = c /\ comps' = components /\ step' = "start" /\ attempt' = 1
        /\ outcome' = [b \in AddOns |-> "none"]
        /\ UNCHANGED <<central, manifest, recent, kills>>
    BY <1>4 DEF Start
  <2> QED BY <1>0, <1>2, <2>1, <2>4, <2>5, <2>6, <2>7, <2>8 DEF TypeOK
<1>5. CASE Killed
  <2>1. kills' \in 0 .. MaxKills /\ spotless' \in BOOLEAN
    BY <1>0, <1>5 DEF Killed, TypeOK
  <2> QED BY <1>5, <2>1 DEF Killed, TypeOK
<1>6. CASE PrepareNamespace
  <2>1. Fault \/ UNCHANGED faults
    BY <1>6 DEF PrepareNamespace
  <2> QED BY <1>1, <1>6, <2>1 DEF PrepareNamespace, Fail, TypeOK
<1>7. CASE TeardownExistingCentral \/ DeployCentral \/ DeploySensor \/ RecordManifest \/ TeardownCentral
             \/ ForgetManifest
  <2>1. Fault \/ UNCHANGED faults
    BY <1>7 DEF TeardownExistingCentral, DeployCentral, DeploySensor, RecordManifest, TeardownCentral, ForgetManifest
  <2>2. Settled
    BY <1>7 DEF TeardownExistingCentral, DeployCentral, DeploySensor, RecordManifest, TeardownCentral, ForgetManifest
  <2>3. stage' \in {"operator", "namespace", "record", "forget", "failed", "succeeded"}
    BY <1>7 DEF TeardownExistingCentral, DeployCentral, DeploySensor, RecordManifest, TeardownCentral,
                ForgetManifest, Fail
  <2>4. central' \in {"absent", "ready"} /\ spotless' \in BOOLEAN
    BY <1>7 DEF TeardownExistingCentral, DeployCentral, DeploySensor, RecordManifest, TeardownCentral,
                ForgetManifest, Unrecorded, TypeOK
  <2>5. manifest' = NoManifest \/ manifest' \subseteq AddOns
    BY <1>7 DEF TeardownExistingCentral, DeployCentral, DeploySensor, RecordManifest, TeardownCentral,
                ForgetManifest, TypeOK
  <2> QED BY <1>1, <1>2, <2>1, <2>2, <2>3, <2>4, <2>5 DEF Settled, TypeOK
<1>8. CASE Helm
  <2> DEFINE a == Head(queue)
  <2>1. a \in AddOns /\ queue # << >> /\ Same
    BY <1>8, First DEF Helm
  <2>2. CASE AttemptFailed(a) \/ ((GaveUp(a) \/ Succeeded(a)) /\ UNCHANGED faults)
    BY <2>1, <2>2, AttemptTyped
  <2>3. CASE /\ UNCHANGED <<stage, queue, attempt, outcome, spotless>> /\ (Fault \/ UNCHANGED faults)
             /\ step' \in {"uninstall", "purging", "install", "installing", "upgrade", "upgrading"}
    BY <1>1, <1>2, <2>1, <2>3 DEF Same, TypeOK
  <2>4. CASE InspectRelease(a) \/ InstallRelease(a) \/ UpgradeRelease(a)
    BY <2>2, <2>3, <2>4 DEF InspectRelease, InstallRelease, UpgradeRelease, Goto
  <2>5. CASE SupersedeRevision(a) \/ FinishRelease(a) \/ FailRelease(a) \/ UninstallRelease(a) \/ PurgeRevision(a)
    BY <2>2, <2>3, <2>5 DEF SupersedeRevision, FinishRelease, FailRelease, UninstallRelease, PurgeRevision, Goto
  <2> QED BY <1>8, <2>4, <2>5 DEF Helm
<1> QED BY <1>3, <1>4, <1>5, <1>6, <1>7, <1>8 DEF Next, StartDeploy, StartTeardown, Components

----------------------------------------------------------------------------
(* What a successful command has done *)

Installed == {a \in AddOns : hist[a] # << >>}
Waiting(a) == a \in ToSet(queue)
Finished(a) == \/ outcome[a] = "ok" /\ hist[a] # << >> /\ Last(hist[a]) = "deployed"
               \/ outcome[a] = "failed" /\ a \in Optional

\* Which command is where, and when it has no add-on left to do.
Order ==
    /\ stage \in {"record", "forget", "succeeded"} => queue = << >>
    /\ stage \in {"central", "operator", "namespace", "record"} => cmd = "deploy"
    /\ stage = "forget" => cmd = "teardown" /\ IncludesCentral
    /\ cmd = "teardown" /\ stage = "addons" => step \in {"start", "purging"}

\* A deploy still has to do an add-on or is done with it.
Installs == cmd = "deploy" /\ IncludesAddOns(comps) /\ stage \notin {"idle", "failed"} =>
                \A a \in enabled : Waiting(a) \/ Finished(a)

\* A teardown still has to do an add-on or has left nothing of it. What it fails to uninstall counts as
\* something that the manifest does not have, unless nothing but add-ons is torn down: that keeps the manifest.
Removes == cmd = "teardown" /\ spotless /\ stage \notin {"idle", "failed"} =>
               \A a \in enabled : Waiting(a) \/ hist[a] = << >> \/ (outcome[a] = "failed" /\ comps = "AddOns")

\* What is installed is in the manifest, except between a deploy's first installation and its recording of
\* the configuration; and a command knows it from there.
Known == spotless =>
    /\ \/ stage \in {"central", "operator", "namespace", "addons", "record", "forget"}
       \/ stage = "succeeded" /\ cmd = "teardown"
       => Installed \subseteq enabled
    /\ ~(cmd = "deploy" /\ stage \in {"addons", "record"}) => Installed \subseteq manifest

Success == Order /\ Installs /\ Removes /\ Known

\* The command goes on with the same add-on.
Stays == UNCHANGED <<stage, queue, outcome, spotless>>

\* What a step of the Helm action for an add-on does, seen from the command.
LEMMA HelmEffect ==
    ASSUME IndInv, TypeOK, Order, Helm, NEW a, a = Head(queue)
    PROVE  /\ \A b \in AddOns : b # a => hist'[b] = hist[b]
           /\ cmd = "teardown" /\ hist[a] = << >> => hist'[a] = << >>
           /\ cmd = "teardown" => step' \in {"start", "purging"}
           /\ \/ Stays
              \/ /\ Succeeded(a)
                 /\ IF cmd = "deploy" THEN hist'[a] # << >> /\ Last(hist'[a]) = "deployed" ELSE hist'[a] = << >>
              \/ GaveUp(a)
<1> DEFINE h == hist[a]
<1>1. a \in AddOns /\ stage = "addons" /\ queue # << >>
  BY First DEF Helm
<1>2. h \in Seq(Statuses) /\ Relies(h) /\ hist \in [AddOns -> Seq(Statuses)]
  BY <1>1 DEF IndInv, Histories, Running
<1>3. cmd = "teardown" => step \in {"start", "purging"}
  BY <1>1 DEF Order
<1>4. \E g : hist' = hist \/ hist' = [hist EXCEPT ![a] = g]
  BY DEF Helm, InspectRelease, InstallRelease, UpgradeRelease, SupersedeRevision, FinishRelease,
         FailRelease, UninstallRelease, PurgeRevision
<1>5. \A b \in AddOns : b # a => hist'[b] = hist[b]
  BY <1>2, <1>4
<1>6. ASSUME AttemptFailed(a) PROVE (cmd = "teardown" => step' = "start") /\ (Stays \/ GaveUp(a))
  <2>1. Stays \/ GaveUp(a)
    BY <1>6 DEF AttemptFailed, Stays
  <2>2. cmd = "teardown" => step' = "start"
    BY <1>6 DEF AttemptFailed, GaveUp, Done
  <2> QED BY <2>1, <2>2
<1>7. Goto("uninstall") \/ Goto("upgrade") \/ Goto("install") \/ Goto("installing") \/ Goto("upgrading")
        \/ Goto("purging") => Stays
  BY DEF Goto, Stays
<1>8. CASE InspectRelease(a)
  <2>1. cmd = "deploy" /\ UNCHANGED hist
    BY <1>8 DEF InspectRelease
  <2>2. Stays \/ GaveUp(a)
    <3>1. CASE AttemptFailed(a)
      BY <1>6, <3>1
    <3>2. CASE UNCHANGED <<stage, queue, outcome, spotless>>
      BY <3>2 DEF Stays
    <3> QED BY <1>8, <3>1, <3>2 DEF InspectRelease, Goto
  <2> QED BY <1>5, <2>1, <2>2
<1>9. CASE InstallRelease(a) \/ UpgradeRelease(a) \/ SupersedeRevision(a) \/ FinishRelease(a) \/ FailRelease(a)
  <2>1. cmd = "deploy"
    BY <1>3, <1>9 DEF TypeOK, InstallRelease, UpgradeRelease, SupersedeRevision, FinishRelease, FailRelease
  <2>2. CASE InstallRelease(a) \/ UpgradeRelease(a) \/ SupersedeRevision(a) \/ FailRelease(a)
    <3>1. Stays \/ GaveUp(a)
      BY <1>6, <1>7, <2>2 DEF InstallRelease, UpgradeRelease, SupersedeRevision, FailRelease
    <3> QED BY <1>5, <2>1, <3>1
  <2>3. CASE FinishRelease(a)
    <3> DEFINE g == WithStatus(h, "deployed")
    <3>1. h # << >> /\ hist' = [hist EXCEPT ![a] = g] /\ Succeeded(a)
      BY <1>2, <2>3 DEF FinishRelease, Relies
    <3>2. "deployed" \in Statuses
      BY DEF Statuses
    <3>3. g \in Seq(Statuses) /\ Len(g) = Len(h) /\ g[Len(h)] = "deployed" /\ Len(h) \in Nat \ {0}
      BY <1>2, <3>1, <3>2, NewestChanges
    <3>4. hist'[a] = g
      BY <1>1, <1>2, <3>1
    <3> HIDE DEF g
    <3>5. g # << >> /\ Last(g) = "deployed"
      BY <3>3 DEF Last
    <3> QED BY <1>5, <2>1, <3>1, <3>4, <3>5
  <2> QED BY <1>9, <2>2, <2>3
<1>10. CASE UninstallRelease(a)
  <2>1. CASE h = << >> /\ UNCHANGED hist /\ cmd = "deploy" /\ Goto("install")
    BY <1>5, <1>7, <2>1
  <2>2. CASE h = << >> /\ UNCHANGED hist /\ cmd # "deploy" /\ Succeeded(a)
    <3>1. step' = "start"
      BY <2>2 DEF Succeeded, Done
    <3> QED BY <1>5, <2>2, <3>1
  <2>3. CASE h # << >> /\ Goto("purging")
    <3>1. step' = "purging"
      BY <2>3 DEF Goto
    <3> QED BY <1>5, <1>7, <2>3, <3>1
  <2>4. CASE AttemptFailed(a) /\ UNCHANGED hist
    BY <1>5, <1>6, <2>4
  <2> QED BY <1>10, <2>1, <2>2, <2>3, <2>4 DEF UninstallRelease
<1>11. CASE PurgeRevision(a)
  <2>1. CASE AttemptFailed(a) /\ UNCHANGED hist
    BY <1>5, <1>6, <2>1
  <2>2. CASE hist' = [hist EXCEPT ![a] = Tail(@)]
    <3>1. h # << >> /\ step = "purging" /\ hist'[a] = Tail(h)
      BY <1>1, <1>2, <1>11, <2>2 DEF PurgeRevision, Relies
    <3>2. CASE Len(h) > 1 /\ UNCHANGED <<stage, queue, step, attempt, outcome, spotless, faults>>
      <4>1. Stays
        BY <3>2 DEF Stays
      <4> QED BY <1>5, <3>1, <3>2, <4>1
    <3>3. CASE cmd = "deploy" /\ Goto("install")
      BY <1>5, <1>7, <3>1, <3>3
    <3>4. CASE ~(Len(h) > 1) /\ cmd # "deploy" /\ Succeeded(a)
      <4>1. Len(h) \in Nat \ {0} /\ Tail(h) \in Seq(Statuses) /\ Len(Tail(h)) = Len(h) - 1
        BY <1>2, <3>1, LenProperties, EmptySeq, HeadTailProperties
      <4>2. Tail(h) = << >>
        BY <3>4, <4>1, EmptySeq
      <4>3. step' = "start"
        BY <3>4 DEF Succeeded, Done
      <4> QED BY <1>5, <3>1, <3>4, <4>2, <4>3
    <3>5. CASE AttemptFailed(a)
      BY <1>5, <1>6, <3>1, <3>5
    <3> QED BY <1>11, <2>2, <3>2, <3>3, <3>4, <3>5 DEF PurgeRevision
  <2> QED BY <1>11, <2>1, <2>2 DEF PurgeRevision
<1> QED BY <1>8, <1>9, <1>10, <1>11 DEF Helm

\* A Helm action keeps what a command has done and still has to do.
LEMMA HelmSucceeds ==
    ASSUME IndInv, TypeOK, TypeOK', Success, Helm
    PROVE  Success'
<1> DEFINE a == Head(queue)
<1>1. /\ a \in AddOns /\ a \in enabled /\ stage = "addons" /\ enabled \subseteq AddOns
      /\ UNCHANGED <<manifest, cmd, comps, enabled>>
  BY First DEF Helm, Same, TypeOK
<1>2. /\ Tail(queue) \in Seq(AddOns) /\ ToSet(Tail(queue)) \subseteq ToSet(queue) /\ a \in ToSet(queue)
      /\ \A b \in ToSet(queue) : b = a \/ b \in ToSet(Tail(queue))
  BY FirstDone, First DEF TypeOK
<1>3. /\ \A b \in AddOns : b # a => hist'[b] = hist[b]
      /\ cmd = "teardown" /\ hist[a] = << >> => hist'[a] = << >>
      /\ cmd = "teardown" => step' \in {"start", "purging"}
      /\ \/ Stays
         \/ /\ Succeeded(a)
            /\ IF cmd = "deploy" THEN hist'[a] # << >> /\ Last(hist'[a]) = "deployed" ELSE hist'[a] = << >>
         \/ GaveUp(a)
  BY HelmEffect DEF Success
<1> HIDE DEF a
<1>4. /\ stage' = "addons" \/ (stage' = "failed" /\ cmd = "deploy" /\ spotless' = (spotless /\ enabled \subseteq manifest))
      /\ spotless' => spotless
      /\ \A b \in AddOns : b # a => outcome'[b] = outcome[b]
  <2>1. CASE Stays
    BY <1>1, <2>1 DEF Stays
  <2>2. CASE Succeeded(a)
    BY <1>1, <2>2 DEF Succeeded, Done, TypeOK
  <2>3. CASE GaveUp(a)
    BY <1>1, <2>3 DEF GaveUp, Done, Fail, Unrecorded, TypeOK
  <2> QED BY <1>3, <2>1, <2>2, <2>3
<1>5. Order'
  BY <1>1, <1>3, <1>4 DEF Order
<1>6. Installs'
  <2> SUFFICES ASSUME cmd = "deploy", IncludesAddOns(comps), stage' = "addons", NEW b \in enabled
               PROVE  Waiting(b)' \/ Finished(b)'
    BY <1>1, <1>4 DEF Installs
  <2>1. Waiting(b) \/ Finished(b)
    BY <1>1 DEF Success, Installs
  <2>2. Finished(b) /\ b # a => Finished(b)'
    BY <1>1, <1>3, <1>4 DEF Finished
  <2>3. CASE Stays
    BY <1>1, <1>2, <2>1, <2>2, <2>3 DEF Stays, Waiting
  <2>4. CASE Succeeded(a) /\ hist'[a] # << >> /\ Last(hist'[a]) = "deployed"
    <3>1. queue' = Tail(queue) /\ outcome'[a] = "ok"
      BY <1>1, <2>4 DEF Succeeded, Done, TypeOK
    <3>2. b = a => Finished(b)'
      BY <2>4, <3>1 DEF Finished
    <3> QED BY <1>2, <2>1, <2>2, <3>1, <3>2 DEF Waiting
  <2>5. CASE GaveUp(a)
    <3>1. a \in Optional /\ queue' = Tail(queue) /\ outcome'[a] = "failed"
      BY <1>1, <2>5 DEF GaveUp, Done, Fail, TypeOK
    <3>2. b = a => Finished(b)'
      BY <3>1 DEF Finished
    <3> QED BY <1>2, <2>1, <2>2, <3>1, <3>2 DEF Waiting
  <2> QED BY <1>3, <2>3, <2>4, <2>5
<1>7. Removes'
  <2> DEFINE Gone(b) == hist[b] = << >> \/ (outcome[b] = "failed" /\ comps = "AddOns")
  <2> SUFFICES ASSUME cmd = "teardown", spotless', stage' = "addons", NEW b \in enabled
               PROVE  Waiting(b)' \/ Gone(b)'
    BY <1>1, <1>4 DEF Removes
  <2>1. Waiting(b) \/ Gone(b)
    BY <1>1, <1>4 DEF Success, Removes
  <2>2. Gone(b) /\ b # a => Gone(b)'
    BY <1>1, <1>3, <1>4
  <2>3. CASE Stays
    BY <1>1, <1>2, <2>1, <2>2, <2>3 DEF Stays, Waiting
  <2>4. CASE Succeeded(a) /\ hist'[a] = << >>
    BY <1>2, <2>1, <2>2, <2>4 DEF Succeeded, Done, Waiting
  <2>5. CASE GaveUp(a)
    <3>1. queue' = Tail(queue) /\ outcome'[a] = "failed" /\ comps = "AddOns"
      BY <1>1, <2>5 DEF GaveUp, Done, TypeOK
    <3>2. b = a => Gone(b)'
      BY <1>1, <3>1
    <3> QED BY <1>2, <2>1, <2>2, <3>1, <3>2 DEF Waiting
  <2> QED BY <1>3, <2>3, <2>4, <2>5
<1>8. Known'
  <2> SUFFICES ASSUME spotless'
               PROVE  /\ stage' = "addons" => Installed' \subseteq enabled
                      /\ ~(cmd = "deploy" /\ stage' = "addons") => Installed' \subseteq manifest
    BY <1>1, <1>4 DEF Known
  <2>1. Installed \subseteq enabled /\ (cmd # "deploy" => Installed \subseteq manifest)
    BY <1>1, <1>4 DEF Success, Known
  <2>2. Installed' \subseteq Installed \cup {a} /\ (cmd = "teardown" => Installed' \subseteq Installed)
    BY <1>3 DEF Installed
  <2>3. cmd # "deploy" => cmd = "teardown"
    BY DEF TypeOK
  <2> QED BY <1>1, <1>4, <2>1, <2>2, <2>3
<1> QED BY <1>5, <1>6, <1>7, <1>8 DEF Success

\* A command starts with every add-on of its configuration still to do, and knows what is installed if the
\* manifest does.
LEMMA StartSucceeds ==
    ASSUME TypeOK, Success, NEW c \in {"deploy", "teardown"}, NEW components \in Components,
           c = "teardown" => components # "SecuredCluster",
           NEW own \in SUBSET AddOns, NEW inCheckout \in BOOLEAN, Start(c, components, own, inCheckout)
    PROVE  Success'
<1> DEFINE addOns == IF IncludesAddOns(components) THEN enabled' ELSE {}
<1>1. /\ stage \in {"idle", "failed", "succeeded"} /\ cmd' = c /\ comps' = components /\ step' = "start"
      /\ UNCHANGED <<hist, manifest>>
      /\ stage' \in {"failed", "addons", "central", "namespace"}
      /\ c = "teardown" => stage' \in {"failed", "addons"}
  BY DEF Start
<1>2. enabled' \in SUBSET AddOns /\ (spotless' => spotless /\ enabled' = ConfigForCommand(manifest, own))
  BY DEF Start, ConfigForCommand, TypeOK
<1>3. IncludesAddOns(components) => ToSet(queue') = enabled'
  <2>1. addOns \in SUBSET AddOns
    BY <1>2
  <2>2. queue' = SortAddOns(addOns) \/ queue' = Reverse(SortAddOns(addOns))
    BY DEF Start
  <2>3. ToSet(queue') = addOns
    BY <2>1, <2>2, SortKeeps
  <2> QED BY <2>3
<1> HIDE DEF addOns
<1>4. Order'
  BY <1>1 DEF Order
<1>5. Installs'
  BY <1>1, <1>3 DEF Installs, Waiting
<1>6. Removes'
  BY <1>1, <1>3 DEF Removes, Waiting, IncludesAddOns
<1>7. Known'
  <2> SUFFICES ASSUME spotless'
               PROVE  Installed \subseteq enabled' /\ Installed \subseteq manifest
    BY <1>1 DEF Known, Installed
  <2>1. Installed \subseteq manifest
    BY <1>1, <1>2 DEF Success, Known
  <2>2. manifest = NoManifest => Installed = {}
    BY <2>1, AddOnsAssumption DEF NoManifest, Installed
  <2> QED BY <1>2, <2>1, <2>2 DEF ConfigForCommand
<1> QED BY <1>4, <1>5, <1>6, <1>7 DEF Success

\* The other steps keep what a command has done and still has to do.
LEMMA OthersSucceed ==
    ASSUME TypeOK, TypeOK', Success, [Next]_vars, ~Helm
    PROVE  Success'
<1>1. CASE UNCHANGED vars
  <2>1. /\ UNCHANGED <<hist, stage, cmd, comps, enabled, queue>>
        /\ UNCHANGED <<step, outcome, spotless, manifest>>
    BY <1>1 DEF vars
  <2>2. Order'
    BY <2>1 DEF Success, Order, IncludesCentral
  <2>3. Installs' /\ Removes'
    BY <2>1 DEF Success, Installs, Removes, Waiting, Finished
  <2>4. Known'
    BY <2>1 DEF Success, Known, Installed
  <2> QED BY <2>2, <2>3, <2>4 DEF Success
<1>2. CASE StartDeploy
  BY <1>2, StartSucceeds DEF StartDeploy
<1>3. CASE StartTeardown
  BY <1>3, StartSucceeds DEF StartTeardown
<1>4. CASE Killed
  <2>1. /\ stage' = "idle" /\ UNCHANGED <<hist, cmd, manifest>>
        /\ spotless' => spotless /\ (cmd = "teardown" \/ enabled \subseteq manifest)
    BY <1>4 DEF Killed, TypeOK
  <2>2. Known'
    BY <2>1 DEF Success, Known, Installed
  <2> QED BY <2>1, <2>2 DEF Success, Order, Installs, Removes
<1>5. CASE TeardownExistingCentral \/ DeployCentral \/ PrepareNamespace
  <2>1. /\ stage \in {"central", "operator", "namespace"} /\ cmd = "deploy"
        /\ stage' \in {"operator", "namespace", "addons", "failed"}
        /\ UNCHANGED <<hist, cmd, comps, enabled, queue, outcome, manifest, spotless>>
    BY <1>5 DEF TeardownExistingCentral, DeployCentral, PrepareNamespace, Settled, Fail, Success, Order
  <2>2. Order' /\ Removes'
    BY <2>1 DEF Order, Removes
  <2>3. Installs'
    BY <2>1 DEF Success, Installs, Waiting, Finished
  <2>4. Known'
    BY <2>1 DEF Success, Known, Installed
  <2> QED BY <2>2, <2>3, <2>4 DEF Success
<1>6. CASE DeploySensor \/ RecordManifest
  <2>1. /\ stage \in {"addons", "record"} /\ cmd = "deploy" /\ queue = << >>
        /\ UNCHANGED <<hist, cmd, comps, enabled, queue, outcome>>
    BY <1>6 DEF DeploySensor, RecordManifest, Settled, Success, Order
  <2>2. stage' \in {"record", "failed", "succeeded"}
    BY <1>6 DEF DeploySensor, RecordManifest, Fail
  <2>3. Order' /\ Removes'
    BY <2>1, <2>2 DEF Order, Removes
  <2>4. Installs'
    BY <2>1, <2>2 DEF Success, Installs, Waiting, Finished
  <2>5. Known'
    <3> SUFFICES ASSUME spotless'
                 PROVE  /\ stage' = "record" => Installed \subseteq enabled
                        /\ stage' # "record" => Installed \subseteq manifest'
      BY <2>1, <2>2 DEF Known, Installed
    <3>1. spotless /\ (stage' = "record" \/ manifest' = enabled \/ (manifest' = manifest /\ enabled \subseteq manifest))
      BY <1>6 DEF DeploySensor, RecordManifest, Unrecorded, TypeOK, Fail
    <3>2. Installed \subseteq enabled
      BY <2>1, <3>1 DEF Success, Known
    <3> QED BY <3>1, <3>2
  <2> QED BY <2>3, <2>4, <2>5 DEF Success
<1>7. CASE TeardownCentral \/ ForgetManifest
  <2>1. /\ cmd = "teardown" /\ stage \in {"addons", "forget"} /\ queue = << >>
        /\ UNCHANGED <<hist, cmd, comps, enabled, queue, outcome, spotless>>
    BY <1>7 DEF TeardownCentral, ForgetManifest, Settled, Success, Order
  <2>2. stage' \in {"forget", "failed", "succeeded"} /\ (stage' = "forget" => IncludesCentral)
    BY <1>7 DEF TeardownCentral, ForgetManifest
  <2>3. Order' /\ Installs'
    BY <2>1, <2>2 DEF Order, Installs, IncludesCentral
  <2>4. Removes'
    BY <2>1, <2>2 DEF Success, Removes, Waiting
  <2>5. Known'
    <3> SUFFICES ASSUME spotless PROVE Installed \subseteq enabled /\ Installed \subseteq manifest'
      BY <2>1 DEF Known, Installed
    <3>1. Installed \subseteq enabled /\ Installed \subseteq manifest
      BY <2>1 DEF Success, Known
    <3>2. CASE manifest' = manifest
      BY <3>1, <3>2
    <3>3. CASE stage = "forget"
      <4>1. comps # "AddOns"
        BY <3>3 DEF Success, Order, IncludesCentral
      <4>2. \A b \in enabled : hist[b] = << >>
        BY <2>1, <4>1 DEF Success, Removes, Waiting, ToSet
      <4>3. Installed = {}
        BY <3>1, <4>2 DEF Installed
      <4> QED BY <4>3
    <3> QED BY <1>7, <3>2, <3>3 DEF TeardownCentral, ForgetManifest
  <2> QED BY <2>3, <2>4, <2>5 DEF Success
<1> QED BY <1>1, <1>2, <1>3, <1>4, <1>5, <1>6, <1>7 DEF Next

----------------------------------------------------------------------------
(* The theorems about successful commands *)

\* What is left to do, what is done and what is known are in step with one another in every state.
THEOREM SuccessInvariance == Spec => [](IndInv /\ TypeOK /\ Success)
<1>1. Init => TypeOK /\ Success
  <2>1. Init => TypeOK
    <3>1. << >> \in Seq(Statuses) /\ << >> \in Seq(AddOns) /\ ToSet(<< >>) = {}
      BY DEF ToSet
    <3> QED BY <3>1, BoundsAssumption DEF Init, TypeOK, Components
  <2>2. Init => Success
    BY DEF Init, Success, Order, Installs, Removes, Known, Installed
  <2> QED BY <2>1, <2>2
<1>2. IndInv /\ IndInv' /\ TypeOK /\ Success /\ [Next]_vars => (TypeOK /\ Success)'
  <2> SUFFICES ASSUME IndInv, IndInv', TypeOK, Success, [Next]_vars
               PROVE  (TypeOK /\ Success)'
    OBVIOUS
  <2>1. TypeOK'
    BY TypesKept DEF IndInv
  <2>2. Success'
    BY <2>1, HelmSucceeds, OthersSucceed
  <2> QED BY <2>1, <2>2
<1> QED BY <1>1, <1>2, HistoriesInOrder, PTL DEF Spec

\* Every variable has its type, and the queue holds nothing but enabled add-ons.
THEOREM TypeCorrectness == Spec => []TypeOK
BY SuccessInvariance, PTL

\* A deploy that succeeds has installed every add-on of its configuration but optional ones that failed,
\* with its newest revision deployed.
THEOREM DeployInstallsCorrect == Spec => []DeployInstalls
<1>1. Success => DeployInstalls
  BY DEF Success, Order, Installs, DeployInstalls, Waiting, Finished, ToSet
<1> QED BY <1>1, SuccessInvariance, PTL

\* A teardown that uninstalls everything that its configuration enables leaves no release of any add-on, as
\* long as the manifest knew what was installed.
THEOREM NoLeftoversCorrect == Spec => []NoLeftovers
<1>1. TypeOK /\ Success => NoLeftovers
  <2> SUFFICES ASSUME TypeOK, Success, stage = "succeeded", cmd = "teardown", spotless,
                      \A a \in enabled : outcome[a] = "ok", NEW a \in AddOns
               PROVE  hist[a] = << >>
    BY DEF NoLeftovers
  <2>1. queue = << >>
    BY DEF Success, Order
  <2>2. \A b \in enabled : hist[b] = << >>
    BY <2>1 DEF Success, Removes, Waiting, ToSet
  <2>3. Installed \subseteq enabled
    BY DEF Success, Known
  <2> QED BY <2>2, <2>3 DEF Installed
<1> QED BY <1>1, SuccessInvariance, PTL
----------------------------------------------------------------------------
(* The order of a command *)

\* A deploy goes through the add-ons by priority, a teardown the other way round.
Precedes(a, b) == IF cmd = "deploy" THEN Before(a, b) ELSE Before(b, a)

\* The queue is in order, what has an outcome comes before what waits, and an add-on of a command that
\* is about add-ons waits or has an outcome.
QueueInOrder == \A i, j \in 1 .. Len(queue) : i < j => Precedes(queue[i], queue[j])
DoneFirst == \A a \in AddOns : outcome[a] # "none" => \A b \in ToSet(queue) : a # b => Precedes(a, b)
AllAccounted ==
  IF IncludesAddOns(comps) THEN \A a \in enabled : outcome[a] = "none" => a \in ToSet(queue)
                           ELSE queue = << >> /\ \A a \in AddOns : outcome[a] = "none"
InOrder == QueueInOrder /\ DoneFirst /\ AllAccounted

\* What is left of a queue in order when its first add-on is done with: those that come after it.
LEMMA TailInOrder ==
    ASSUME TypeOK, QueueInOrder, queue # << >>
    PROVE  /\ \A i, j \in 1 .. Len(Tail(queue)) : i < j => Precedes(Tail(queue)[i], Tail(queue)[j])
           /\ \A b \in ToSet(queue) : b # Head(queue) => Precedes(Head(queue), b)
<1>1. Len(queue) \in Nat \ {0} /\ DOMAIN queue = 1 .. Len(queue)
  BY LenProperties, EmptySeq DEF TypeOK
<1>2. /\ Head(queue) = queue[1] /\ Len(Tail(queue)) = Len(queue) - 1
      /\ \A i \in 1 .. Len(Tail(queue)) : Tail(queue)[i] = queue[i + 1]
  BY HeadTailProperties DEF TypeOK
<1>3. ASSUME NEW i \in 1 .. Len(Tail(queue)), NEW j \in 1 .. Len(Tail(queue)), i < j
      PROVE  Precedes(Tail(queue)[i], Tail(queue)[j])
  <2>1. i + 1 \in 1 .. Len(queue) /\ j + 1 \in 1 .. Len(queue) /\ i + 1 < j + 1
    BY <1>1, <1>2, <1>3
  <2>2. Precedes(queue[i + 1], queue[j + 1])
    BY <2>1 DEF QueueInOrder
  <2> QED BY <1>2, <2>2
<1>4. ASSUME NEW b \in ToSet(queue), b # Head(queue) PROVE Precedes(Head(queue), b)
  <2>1. PICK i \in 1 .. Len(queue) : b = queue[i]
    BY <1>1 DEF ToSet
  <2>2. 1 < i /\ 1 \in 1 .. Len(queue)
    BY <1>1, <1>2, <1>4, <2>1
  <2> QED BY <1>2, <2>1, <2>2 DEF QueueInOrder
<1> QED BY <1>3, <1>4

\* Sorting puts add-ons in order, and reversing puts them in the reverse order.
LEMMA SortOrders ==
    ASSUME NEW S \in SUBSET AddOns
    PROVE  LET s == SortAddOns(S)
               r == Reverse(SortAddOns(S))
           IN  /\ \A i, j \in 1 .. Len(s) : i < j => Before(s[i], s[j])
               /\ \A i, j \in 1 .. Len(r) : i < j => Before(r[j], r[i])
<1> DEFINE n == Cardinality(S)
           s == SortAddOns(S)
           r == Reverse(s)
<1>1. n \in Nat /\ s \in [1 .. n -> S] /\ \A i, j \in 1 .. n : i < j => Before(s[i], s[j])
  BY SortExists
<1> HIDE DEF s, n
<1>2. Len(s) = n
  BY <1>1, IsASeq, LenProperties
<1>3. r = [i \in 1 .. n |-> s[(n - i) + 1]]
  BY <1>2 DEF Reverse
<1>4. Len(r) = n
  <2>1. r \in [1 .. n -> S]
    BY <1>1, <1>3
  <2> QED BY <1>1, <2>1, IsASeq, LenProperties
<1>5. ASSUME NEW i \in 1 .. n, NEW j \in 1 .. n, i < j
      PROVE  Before(r[j], r[i])
  <2>1. (n - i) + 1 \in 1 .. n /\ (n - j) + 1 \in 1 .. n /\ (n - j) + 1 < (n - i) + 1
    BY <1>1, <1>5
  <2>2. Before(s[(n - j) + 1], s[(n - i) + 1])
    BY <1>1, <2>1
  <2> QED BY <1>3, <2>2
<1> QED BY <1>1, <1>2, <1>4, <1>5 DEF s

\* A command starts with its queue in order and no outcome.
LEMMA StartInOrder ==
    ASSUME TypeOK, NEW c \in {"deploy", "teardown"}, NEW components \in Components,
           NEW own \in SUBSET AddOns, NEW inCheckout \in BOOLEAN, Start(c, components, own, inCheckout)
    PROVE  InOrder'
<1> DEFINE addOns == IF IncludesAddOns(components) THEN enabled' ELSE {}
<1>1. /\ cmd' = c /\ comps' = components /\ outcome' = [a \in AddOns |-> "none"]
      /\ queue' = IF c = "deploy" THEN SortAddOns(addOns) ELSE Reverse(SortAddOns(addOns))
  BY DEF Start
<1>2. enabled' \in SUBSET AddOns
  BY DEF Start, ConfigForCommand, TypeOK
<1>3. addOns \in SUBSET AddOns /\ (IncludesAddOns(components) => addOns = enabled')
      /\ (~IncludesAddOns(components) => addOns = {})
  BY <1>2
<1> HIDE DEF addOns
<1>4. queue' \in Seq(AddOns) /\ ToSet(queue') = addOns
  BY <1>1, <1>3, SortKeeps
<1>5. QueueInOrder'
  BY <1>1, <1>3, SortOrders DEF QueueInOrder, Precedes
<1>6. DoneFirst'
  BY <1>1 DEF DoneFirst
<1>7. AllAccounted'
  <2>1. CASE IncludesAddOns(components)
    BY <1>1, <1>3, <1>4, <2>1 DEF AllAccounted
  <2>2. CASE ~IncludesAddOns(components)
    <3>1. ASSUME NEW q \in Seq(AddOns), ToSet(q) = {} PROVE q = << >>
      <4>1. DOMAIN q = 1 .. Len(q) /\ Len(q) \in Nat /\ DOMAIN q = {}
        BY <3>1, LenProperties DEF ToSet
      <4>2. Len(q) = 0
        BY <4>1
      <4> QED BY <4>2, EmptySeq
    <3>2. queue' = << >>
      BY <1>3, <1>4, <2>2, <3>1
    <3> QED BY <1>1, <2>2, <3>2 DEF AllAccounted
  <2> QED BY <2>1, <2>2
<1> QED BY <1>5, <1>6, <1>7 DEF InOrder

\* A Helm action gives the first add-on of the queue its outcome, or leaves both.
LEMMA HelmInOrder ==
    ASSUME TypeOK, TypeOK', InOrder, Helm
    PROVE  InOrder'
<1> DEFINE a == Head(queue)
<1>1. a \in AddOns /\ a \in enabled /\ queue # << >> /\ UNCHANGED <<cmd, comps, enabled>>
  BY First DEF Helm, Same
<1>2. /\ \A b \in ToSet(queue) : b # a => Precedes(a, b)
      /\ \A i, j \in 1 .. Len(Tail(queue)) : i < j => Precedes(Tail(queue)[i], Tail(queue)[j])
  BY <1>1, TailInOrder DEF InOrder
<1>3. /\ ToSet(Tail(queue)) \subseteq ToSet(queue)
      /\ \A b \in ToSet(queue) : b = a \/ b \in ToSet(Tail(queue))
  BY <1>1, FirstDone DEF TypeOK
<1>4. IncludesAddOns(comps) /\ \A b \in enabled : outcome[b] = "none" => b \in ToSet(queue)
  BY <1>1 DEF InOrder, AllAccounted
<1>5. \/ UNCHANGED <<queue, outcome>>
      \/ \E how \in {"ok", "failed"} :
           outcome' = [outcome EXCEPT ![a] = how] /\ (queue' = queue \/ queue' = Tail(queue))
  BY DEF Helm, InspectRelease, InstallRelease, UpgradeRelease, SupersedeRevision, FinishRelease, FailRelease,
         UninstallRelease, PurgeRevision, AttemptFailed, GaveUp, Succeeded, Done, Goto
<1> HIDE DEF a
<1>6. CASE UNCHANGED <<queue, outcome>>
  BY <1>1, <1>6 DEF InOrder, QueueInOrder, DoneFirst, AllAccounted, Precedes
<1>7. ASSUME NEW how \in {"ok", "failed"}, outcome' = [outcome EXCEPT ![a] = how],
             queue' = queue \/ queue' = Tail(queue)
      PROVE  InOrder'
  <2>1. outcome'[a] # "none" /\ \A b \in AddOns : b # a => outcome'[b] = outcome[b]
    BY <1>1, <1>7 DEF TypeOK
  <2>2. \A b, c : Precedes(b, c)' = Precedes(b, c)
    BY <1>1 DEF Precedes, Before
  <2>3. ToSet(queue') \subseteq ToSet(queue) /\ \A b \in ToSet(queue) : b = a \/ b \in ToSet(queue')
    BY <1>3, <1>7
  <2>4. QueueInOrder'
    BY <1>2, <1>7, <2>2 DEF InOrder, QueueInOrder
  <2>5. DoneFirst'
    BY <1>1, <1>2, <2>1, <2>2, <2>3 DEF InOrder, DoneFirst
  <2>6. AllAccounted'
    BY <1>1, <1>4, <2>1, <2>3 DEF AllAccounted, TypeOK
  <2> QED BY <2>4, <2>5, <2>6 DEF InOrder
<1> QED BY <1>5, <1>6, <1>7

\* Add-ons are installed by priority and removed in the reverse order, for all priorities, with any retries,
\* failures and kills (SortAddOns in addons.go, and teardownAddOns).
THEOREM OrderKeptCorrect == Spec => []OrderKept
<1>1. Init => InOrder
  <2>1. ToSet(<< >>) = {} /\ Len(<< >>) = 0
    BY DEF ToSet
  <2> QED BY <2>1 DEF Init, InOrder, QueueInOrder, DoneFirst, AllAccounted, IncludesAddOns
<1>2. TypeOK /\ TypeOK' /\ InOrder /\ [Next]_vars => InOrder'
  <2> SUFFICES ASSUME TypeOK, TypeOK', InOrder, [Next]_vars PROVE InOrder'
    OBVIOUS
  <2>1. CASE Helm
    BY <2>1, HelmInOrder
  <2>2. CASE StartDeploy \/ StartTeardown
    BY <2>2, StartInOrder DEF StartDeploy, StartTeardown
  <2>3. CASE UNCHANGED <<queue, outcome, cmd, comps, enabled>>
    BY <2>3 DEF InOrder, QueueInOrder, DoneFirst, AllAccounted, Precedes
  <2> QED BY <2>1, <2>2, <2>3 DEF Next, vars, Killed, TeardownExistingCentral, DeployCentral, PrepareNamespace,
                                  DeploySensor, RecordManifest, TeardownCentral, ForgetManifest, Settled
<1>3. TypeOK /\ InOrder => OrderKept
  <2> SUFFICES ASSUME TypeOK, InOrder, NEW a \in enabled, NEW b \in enabled, Precedes(a, b), outcome[b] # "none"
               PROVE  outcome[a] # "none"
    BY DEF OrderKept, Precedes
  <2>1. a \in AddOns /\ b \in AddOns
    BY DEF TypeOK
  <2>2. ~Precedes(b, a)
    BY <2>1, BeforeOrders DEF Precedes
  <2>3. ASSUME outcome[a] = "none" PROVE FALSE
    <3>1. a \in ToSet(queue)
      BY <2>1, <2>3 DEF InOrder, AllAccounted
    <3> QED BY <2>1, <2>2, <2>3, <3>1 DEF InOrder, DoneFirst
  <2> QED BY <2>3
<1> QED BY <1>1, <1>2, <1>3, TypeCorrectness, PTL DEF Spec
====
