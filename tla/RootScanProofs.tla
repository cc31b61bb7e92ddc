--------------------------- MODULE RootScanProofs ---------------------------
(***************************************************************************)
(* The tables of a scan, for any set of folders, files and refreshes, any    *)
(* nesting of the folders and any number of commands.                       *)
(***************************************************************************)
EXTENDS RootScan, TLAPS

\* A command that returns leaves well-typed variables behind.
LEMMA IdleType ==
  ASSUME TypeOK, NEW p \in Refreshes, Idle(p)
  PROVE  /\ step' \in [Refreshes -> Steps]
         /\ listed' \in [Refreshes -> SUBSET Roots]
         /\ generation' \in [Refreshes -> [Roots -> Nat]]
         /\ todo' \in [Refreshes -> SUBSET Roots]
         /\ unseen' \in [Refreshes -> SUBSET Sounds]
         /\ batch' \in [Refreshes -> SUBSET (Sounds \X Roots)]
         /\ found' \in [Refreshes -> SUBSET (Sounds \X Roots)]
<1>1. NoGeneration \in [Roots -> Nat]
  BY DEF NoGeneration
<1> QED BY <1>1 DEF Idle, TypeOK, Steps

\* So does one that gives up.
LEMMA GiveUpType ==
  ASSUME TypeOK, NEW p \in Refreshes, GiveUp(p)
  PROVE  /\ step' \in [Refreshes -> Steps]
         /\ listed' \in [Refreshes -> SUBSET Roots]
         /\ generation' \in [Refreshes -> [Roots -> Nat]]
         /\ todo' \in [Refreshes -> SUBSET Roots]
         /\ unseen' \in [Refreshes -> SUBSET Sounds]
         /\ batch' \in [Refreshes -> SUBSET (Sounds \X Roots)]
         /\ found' \in [Refreshes -> SUBSET (Sounds \X Roots)]
<1>1. Begun(p) \in SUBSET Roots
  BY DEF Begun
<1> QED BY <1>1 DEF GiveUp, TypeOK, Steps

\* A new generation is above every generation of the root.
LEMMA NextGenerationAbove ==
  ASSUME TypeOK, NEW r \in Roots, NEW g \in NextGeneration(r)
  PROVE  /\ g \in Nat
         /\ g > active[r]
         /\ \A l \in located : l[2] = r => l[3] < g
<1>1. active[r] \in Generations(r)
  BY DEF Generations
<1>2. \A l \in located : l[2] = r => l[3] \in Generations(r)
  BY DEF Generations
<1>3. Generations(r) \in SUBSET Nat
  BY DEF Generations, TypeOK
<1> QED BY <1>1, <1>2, <1>3 DEF NextGeneration

\* Only configured roots are scanned, so only they own a file.
LEMMA OwnerIsListed ==
  ASSUME NEW s \in Sounds, NEW rs, NEW r \in Owner(s, rs)
  PROVE  r \in rs
BY DEF Owner

\* An open generation belongs to a configured root and is not 0.
LEMMA VerifiedRoot ==
  ASSUME TypeOK, NEW r \in Roots, NEW g, Verified(r, g)
  PROVE  /\ r \in roots
         /\ g = scanning[r]
         /\ g \in Nat
         /\ g > active[r]
BY DEF Verified, TypeOK, TablesOK

\* Type correctness, with the constraints of the tables: rows of configured
\* roots only, and an open scan always fills a generation above the listed one.
THEOREM TypeInvariant == Spec => []TypeOK
<1> USE RootScanAssumption
<1>1. ASSUME Init PROVE TypeOK
  <2>1. NoGeneration \in [Roots -> Nat] /\ \A r \in Roots : NoGeneration[r] = 0
    BY DEF NoGeneration
  <2> QED BY <1>1, <2>1 DEF Init, TypeOK, TablesOK, Steps
<1>2. TypeOK /\ [Next]_vars => TypeOK'
  <2> SUFFICES ASSUME TypeOK, [Next]_vars PROVE TypeOK'
    OBVIOUS
  <2> USE DEF store, command
  <2>1. ASSUME NEW p \in Refreshes, Start(p) PROVE TypeOK'
    BY <2>1 DEF Start, TypeOK, TablesOK, Steps
  <2>2. ASSUME NEW p \in Refreshes, BeginRoot(p) PROVE TypeOK'
    <3>1. PICK r \in todo[p] : \E g \in NextGeneration(r) :
            /\ roots' = roots \cup {r}
            /\ scanning' = [scanning EXCEPT ![r] = g]
            /\ generation' = [generation EXCEPT ![p][r] = g]
            /\ todo' = [todo EXCEPT ![p] = @ \ {r}]
      BY <2>2 DEF BeginRoot
    <3>2. PICK g \in NextGeneration(r) :
            /\ roots' = roots \cup {r}
            /\ scanning' = [scanning EXCEPT ![r] = g]
            /\ generation' = [generation EXCEPT ![p][r] = g]
            /\ todo' = [todo EXCEPT ![p] = @ \ {r}]
      BY <3>1
    <3>3. r \in Roots
      BY DEF TypeOK
    <3>4. g \in Nat /\ g > active[r]
      BY <3>3, NextGenerationAbove
    <3>5. generation' \in [Refreshes -> [Roots -> Nat]]
      <4>1. [generation[p] EXCEPT ![r] = g] \in [Roots -> Nat]
        BY <3>3, <3>4 DEF TypeOK
      <4> QED BY <3>2, <4>1 DEF TypeOK
    <3>6. step' \in [Refreshes -> Steps] /\ unseen' \in [Refreshes -> SUBSET Sounds]
      <4>1. \/ /\ step' = [step EXCEPT ![p] = "walk"]
               /\ unseen' = [unseen EXCEPT ![p] = Sounds]
            \/ UNCHANGED <<step, unseen>>
        BY <2>2 DEF BeginRoot
      <4>2. CASE UNCHANGED <<step, unseen>>
        BY <4>2 DEF TypeOK
      <4>3. CASE /\ step' = [step EXCEPT ![p] = "walk"]
                 /\ unseen' = [unseen EXCEPT ![p] = Sounds]
        <5>1. "walk" \in Steps /\ Sounds \in SUBSET Sounds
          BY DEF Steps
        <5> QED BY <4>3, <5>1 DEF TypeOK
      <4> QED BY <4>1, <4>2, <4>3
    <3>7. TablesOK'
      BY <2>2, <3>2, <3>3, <3>4 DEF BeginRoot, TypeOK, TablesOK
    <3> QED BY <2>2, <3>2, <3>3, <3>4, <3>5, <3>6, <3>7 DEF BeginRoot, TypeOK
  <2>3. ASSUME NEW p \in Refreshes, Visit(p) PROVE TypeOK'
    <3>1. PICK s \in unseen[p] :
            /\ unseen' = [unseen EXCEPT ![p] = @ \ {s}]
            /\ \/ \E r \in Owner(s, listed[p]) :
                    /\ batch' = [batch EXCEPT ![p] = @ \cup {<<s, r>>}]
                    /\ found' = [found EXCEPT ![p] = @ \cup {<<s, r>>}]
               \/ UNCHANGED <<batch, found>>
      BY <2>3 DEF Visit
    <3>2. s \in Sounds
      BY DEF TypeOK
    <3>3. /\ batch' \in [Refreshes -> SUBSET (Sounds \X Roots)]
          /\ found' \in [Refreshes -> SUBSET (Sounds \X Roots)]
      <4>1. CASE UNCHANGED <<batch, found>>
        BY <4>1 DEF TypeOK
      <4>2. ASSUME NEW r \in Owner(s, listed[p]),
                   batch' = [batch EXCEPT ![p] = @ \cup {<<s, r>>}],
                   found' = [found EXCEPT ![p] = @ \cup {<<s, r>>}]
            PROVE  /\ batch' \in [Refreshes -> SUBSET (Sounds \X Roots)]
                   /\ found' \in [Refreshes -> SUBSET (Sounds \X Roots)]
        <5>1. r \in Roots
          BY <3>2, OwnerIsListed DEF TypeOK
        <5>2. /\ batch[p] \cup {<<s, r>>} \in SUBSET (Sounds \X Roots)
              /\ found[p] \cup {<<s, r>>} \in SUBSET (Sounds \X Roots)
          BY <3>2, <5>1 DEF TypeOK
        <5> QED BY <4>2, <5>2 DEF TypeOK
      <4> QED BY <3>1, <4>1, <4>2
    <3> QED BY <2>3, <3>1, <3>3 DEF Visit, TypeOK, TablesOK
  <2>4. ASSUME NEW p \in Refreshes, Flush(p) PROVE TypeOK'
    <3>1. PICK r \in {b[2] : b \in batch[p]} :
            IF Verified(r, generation[p][r])
            THEN /\ located' = located \cup {<<b[1], r, generation[p][r]>> : b \in batch[p]}
                 /\ batch' = [batch EXCEPT ![p] = {}]
                 /\ UNCHANGED <<step, listed, generation, todo, unseen, found>>
            ELSE GiveUp(p) /\ UNCHANGED located
      BY <2>4 DEF Flush
    <3>2. r \in Roots
      BY DEF TypeOK
    <3>3. CASE Verified(r, generation[p][r])
      <4>1. r \in roots /\ generation[p][r] \in Nat
        BY <3>2, <3>3, VerifiedRoot
      <4>2. {<<b[1], r, generation[p][r]>> : b \in batch[p]} \in SUBSET (Sounds \X Roots \X Nat)
        BY <3>2, <4>1 DEF TypeOK
      <4>3. located' \in SUBSET (Sounds \X Roots \X Nat)
        BY <3>1, <3>3, <4>2 DEF TypeOK
      <4>4. TablesOK'
        <5>1. \A l \in located' : l[2] \in roots
          BY <3>1, <3>3, <4>1 DEF TypeOK, TablesOK
        <5>2. UNCHANGED <<roots, active, scanning>>
          BY <2>4 DEF Flush
        <5> QED BY <5>1, <5>2 DEF TypeOK, TablesOK
      <4>5. batch' \in [Refreshes -> SUBSET (Sounds \X Roots)]
        BY <3>1, <3>3 DEF TypeOK
      <4> QED BY <2>4, <3>1, <3>3, <4>3, <4>4, <4>5 DEF Flush, TypeOK
    <3>4. CASE ~Verified(r, generation[p][r])
      BY <2>4, <3>1, <3>4, GiveUpType DEF Flush, TypeOK, TablesOK
    <3> QED BY <3>3, <3>4
  <2>5. ASSUME NEW p \in Refreshes, WalkEnds(p) PROVE TypeOK'
    <3>1. Begun(p) \in SUBSET Roots
      BY DEF Begun
    <3> QED BY <2>5, <3>1 DEF WalkEnds, TypeOK, TablesOK, Steps
  <2>6. ASSUME NEW p \in Refreshes, Abandon(p) PROVE TypeOK'
    BY <2>6, GiveUpType DEF Abandon, TypeOK, TablesOK
  <2>7. ASSUME NEW p \in Refreshes, CancelRoot(p) PROVE TypeOK'
    <3>1. PICK r \in todo[p] :
            /\ todo' = [todo EXCEPT ![p] = @ \ {r}]
            /\ CancelStaged(r, generation[p][r]) \/ UNCHANGED <<located, scanning>>
      BY <2>7 DEF CancelRoot
    <3>2. r \in Roots
      BY DEF TypeOK
    <3>3. \/ UNCHANGED <<located, scanning>>
          \/ located' \subseteq located /\ scanning' = [scanning EXCEPT ![r] = 0]
      BY <3>1 DEF CancelStaged
    <3>4. located' \in SUBSET (Sounds \X Roots \X Nat) /\ scanning' \in [Roots -> Nat]
      <4>1. located' \subseteq located
        BY <3>3
      <4>2. scanning' = scanning \/ scanning' = [scanning EXCEPT ![r] = 0]
        BY <3>3
      <4>3. scanning \in [Roots -> Nat] /\ 0 \in Nat
        BY DEF TypeOK
      <4>4. scanning' \in [Roots -> Nat]
        BY <4>2, <4>3
      <4> QED BY <4>1, <4>4 DEF TypeOK
    <3>5. TablesOK'
      BY <2>7, <3>2, <3>3 DEF CancelRoot, TypeOK, TablesOK
    <3> QED BY <2>7, <3>1, <3>4, <3>5 DEF CancelRoot, TypeOK
  <2>8. ASSUME NEW p \in Refreshes, FinishRoot(p) PROVE TypeOK'
    <3>1. PICK r \in todo[p] :
            \/ /\ Verified(r, generation[p][r])
               /\ Publish(p, r)
               /\ todo' = [todo EXCEPT ![p] = @ \ {r}]
               /\ UNCHANGED <<roots, step, listed, generation, unseen, batch, found>>
            \/ Idle(p) /\ UNCHANGED <<store, published>>
      BY <2>8 DEF FinishRoot
    <3>2. r \in Roots
      BY DEF TypeOK
    <3>3. CASE Idle(p) /\ UNCHANGED <<store, published>>
      BY <2>8, <3>3, IdleType DEF FinishRoot, TypeOK, TablesOK
    <3>4. CASE /\ Verified(r, generation[p][r])
               /\ Publish(p, r)
               /\ todo' = [todo EXCEPT ![p] = @ \ {r}]
               /\ UNCHANGED <<roots, step, listed, generation, unseen, batch, found>>
      <4>1. r \in roots /\ generation[p][r] \in Nat
        BY <3>2, <3>4, VerifiedRoot
      <4>2. located' \in SUBSET located
        BY <3>4 DEF Publish, Kept
      <4>3. binding' \in [Sounds -> {"none", "active", "needs_attention"}]
        BY <3>4 DEF Publish, FlagLost, TypeOK
      <4>4. {f[1] : f \in {h \in found[p] : h[2] = r}} \in SUBSET Sounds
        BY DEF TypeOK
      <4>5. published' \in [Roots -> SUBSET Sounds]
        BY <3>4, <4>4 DEF Publish, TypeOK
      <4>6. active' \in [Roots -> Nat] /\ scanning' \in [Roots -> Nat]
        BY <3>4, <4>1 DEF Publish, TypeOK
      <4>7. TablesOK'
        BY <3>2, <3>4, <4>1, <4>2 DEF Publish, TypeOK, TablesOK
      <4> QED BY <2>8, <3>4, <4>2, <4>3, <4>5, <4>6, <4>7 DEF FinishRoot, TypeOK
    <3> QED BY <3>1, <3>3, <3>4
  <2>9. ASSUME NEW p \in Refreshes, Return(p) PROVE TypeOK'
    BY <2>9, IdleType DEF Return, TypeOK, TablesOK
  <2>10. ASSUME NEW r \in Roots, AddFolder(r) PROVE TypeOK'
    BY <2>10 DEF AddFolder, TypeOK, TablesOK
  <2>11. ASSUME NEW r \in Roots, RemoveFolder(r) PROVE TypeOK'
    <3>1. located' = {l \in located : l[2] # r}
      BY <2>11 DEF RemoveFolder
    <3>2. located' \in SUBSET (Sounds \X Roots \X Nat)
      BY <3>1 DEF TypeOK
    <3>3. binding' \in [Sounds -> {"none", "active", "needs_attention"}]
      BY <2>11 DEF RemoveFolder, TypeOK
    <3>4. TablesOK'
      BY <2>11, <3>1 DEF RemoveFolder, TypeOK, TablesOK
    <3> QED BY <2>11, <3>2, <3>3, <3>4 DEF RemoveFolder, TypeOK
  <2>12. ASSUME NEW s \in Sounds, Bind(s) PROVE TypeOK'
    BY <2>12 DEF Bind, TypeOK, TablesOK
  <2>13. ASSUME DiskChanges PROVE TypeOK'
    BY <2>13 DEF DiskChanges, TypeOK, TablesOK
  <2>14. ASSUME Crash PROVE TypeOK'
    <3>1. NoGeneration \in [Roots -> Nat]
      BY DEF NoGeneration
    <3> QED BY <2>14, <3>1 DEF Crash, TypeOK, TablesOK, Steps
  <2>15. CASE UNCHANGED vars
    BY <2>15 DEF vars, TypeOK, TablesOK
  <2> QED
    BY <2>1, <2>2, <2>3, <2>4, <2>5, <2>6, <2>7, <2>8, <2>9, <2>10, <2>11,
       <2>12, <2>13, <2>14, <2>15 DEF Next, Command
<1> QED BY <1>1, <1>2, PTL DEF Spec

\* A step that leaves the rows and the active generations alone, and removes
\* no root, leaves the lists alone: a root that is written again has no rows.
LEMMA SameRowsSameList ==
  ASSUME TypeOK, UNCHANGED <<active, located>>, roots \subseteq roots', NEW q \in Roots
  PROVE  Live(q)' = Live(q)
<1>1. CASE q \in roots
  BY <1>1 DEF Live
<1>2. CASE q \notin roots
  <2>1. \A s \in Sounds : <<s, q, active[q]>> \notin located
    BY <1>2 DEF TypeOK, TablesOK
  <2> QED BY <1>2, <2>1 DEF Live
<1> QED BY <1>1, <1>2

\* Rows of an open generation are not listed, whoever adds or deletes them.
LEMMA OpenRowsAreUnlisted ==
  ASSUME TypeOK, NEW r \in Roots, NEW g, Verified(r, g),
         UNCHANGED <<roots, active>>,
         \A s \in Sounds, q \in Roots, h \in Nat :
            q # r \/ h # g => (<<s, q, h>> \in located' <=> <<s, q, h>> \in located),
         NEW q \in Roots
  PROVE  Live(q)' = Live(q)
<1>1. q # r \/ active[q] # g
  BY VerifiedRoot DEF TypeOK
<1>2. active[q] \in Nat
  BY DEF TypeOK
<1>3. \A s \in Sounds : <<s, q, active[q]>> \in located' <=> <<s, q, active[q]>> \in located
  BY <1>1, <1>2
<1> QED BY <1>3 DEF Live

\* What the requests of a refresh do to the list of a root: only closing the
\* root's own scan changes it.
LEMMA FlushIsInvisible ==
  ASSUME TypeOK, NEW p \in Refreshes, Flush(p), NEW q \in Roots
  PROVE  Live(q)' = Live(q)
<1>1. PICK r \in {b[2] : b \in batch[p]} :
        IF Verified(r, generation[p][r])
        THEN located' = located \cup {<<b[1], r, generation[p][r]>> : b \in batch[p]}
        ELSE UNCHANGED located
  BY DEF Flush
<1>2. r \in Roots
  BY DEF TypeOK
<1>3. UNCHANGED <<roots, active>>
  BY DEF Flush
<1>4. CASE Verified(r, generation[p][r])
  <2>1. \A s \in Sounds, k \in Roots, h \in Nat :
          k # r \/ h # generation[p][r] =>
            (<<s, k, h>> \in located' <=> <<s, k, h>> \in located)
    BY <1>1, <1>4
  <2> QED BY <1>2, <1>3, <1>4, <2>1, OpenRowsAreUnlisted
<1>5. CASE ~Verified(r, generation[p][r])
  BY <1>1, <1>3, <1>5 DEF Live
<1> QED BY <1>4, <1>5

LEMMA CancelIsInvisible ==
  ASSUME TypeOK, NEW p \in Refreshes, CancelRoot(p), NEW q \in Roots
  PROVE  Live(q)' = Live(q)
<1>1. PICK r \in todo[p] :
        CancelStaged(r, generation[p][r]) \/ UNCHANGED <<located, scanning>>
  BY DEF CancelRoot
<1>2. r \in Roots
  BY DEF TypeOK
<1>3. UNCHANGED <<roots, active>>
  BY DEF CancelRoot
<1>4. CASE CancelStaged(r, generation[p][r]) /\ Verified(r, generation[p][r])
  <2>1. \A s \in Sounds, k \in Roots, h \in Nat :
          k # r \/ h # generation[p][r] =>
            (<<s, k, h>> \in located' <=> <<s, k, h>> \in located)
    BY <1>4 DEF CancelStaged
  <2> QED BY <1>2, <1>3, <1>4, <2>1, OpenRowsAreUnlisted
<1>5. CASE UNCHANGED <<located, scanning>>
  BY <1>3, <1>5 DEF Live
<1> QED BY <1>1, <1>4, <1>5 DEF CancelStaged

\* Publishing root r does not touch the list of another root.
LEMMA PublishIsLocal ==
  ASSUME TypeOK, NEW p \in Refreshes, NEW r \in Roots, Publish(p, r), UNCHANGED roots,
         NEW q \in Roots, q # r
  PROVE  Live(q)' = Live(q)
<1>1. active'[q] = active[q]
  BY DEF Publish, TypeOK
<1>2. \A s \in Sounds : <<s, q, active[q]>> \in located' <=> <<s, q, active[q]>> \in located
  BY DEF Publish, Kept
<1> QED BY <1>1, <1>2 DEF Live

\* The list of a root changes only when its own scan is closed or the folder is
\* removed, whatever number of refreshes is running.
THEOREM StagingStaysInvisible == Spec => StagingIsInvisible
<1> DEFINE Closed(q) == \/ q \notin roots'
                        \/ /\ scanning[q] # 0
                           /\ active'[q] = scanning[q]
                           /\ scanning'[q] = 0
<1>1. TypeOK /\ [Next]_vars =>
        [\A r \in Roots :
            Live(r)' # Live(r) =>
                \/ r \notin roots'
                \/ /\ scanning[r] # 0
                   /\ active'[r] = scanning[r]
                   /\ scanning'[r] = 0]_vars
  <2> SUFFICES ASSUME TypeOK, Next, NEW q \in Roots, Live(q)' # Live(q)
               PROVE  Closed(q)
    OBVIOUS
  <2> USE DEF store, command
  <2>1. ASSUME NEW p \in Refreshes, Start(p) \/ Visit(p) \/ WalkEnds(p) \/ Abandon(p) \/ Return(p)
        PROVE  Closed(q)
    <3>1. UNCHANGED <<roots, active, located>>
      BY <2>1 DEF Start, Visit, WalkEnds, Abandon, Return
    <3> QED BY <3>1, SameRowsSameList
  <2>2. ASSUME NEW p \in Refreshes, BeginRoot(p) PROVE Closed(q)
    BY <2>2, SameRowsSameList DEF BeginRoot
  <2>3. ASSUME NEW p \in Refreshes, Flush(p) \/ CancelRoot(p) PROVE Closed(q)
    BY <2>3, FlushIsInvisible, CancelIsInvisible
  <2>4. ASSUME NEW p \in Refreshes, FinishRoot(p) PROVE Closed(q)
    <3>1. PICK r \in todo[p] :
            \/ Verified(r, generation[p][r]) /\ Publish(p, r) /\ UNCHANGED roots
            \/ UNCHANGED <<store, published>>
      BY <2>4 DEF FinishRoot
    <3>2. r \in Roots
      BY DEF TypeOK
    <3>3. CASE UNCHANGED <<store, published>>
      BY <3>3, SameRowsSameList
    <3>4. CASE Verified(r, generation[p][r]) /\ Publish(p, r) /\ UNCHANGED roots
      <4>1. q = r
        BY <3>2, <3>4, PublishIsLocal
      <4>2. scanning[r] # 0 /\ scanning[r] = generation[p][r]
        BY <3>4 DEF Verified
      <4>3. active'[r] = generation[p][r] /\ scanning'[r] = 0
        BY <3>2, <3>4 DEF Publish, TypeOK
      <4> QED BY <4>1, <4>2, <4>3
    <3> QED BY <3>1, <3>3, <3>4
  <2>5. ASSUME NEW r \in Roots, AddFolder(r) PROVE Closed(q)
    BY <2>5, SameRowsSameList DEF AddFolder
  <2>6. ASSUME NEW r \in Roots, RemoveFolder(r) PROVE Closed(q)
    <3>1. CASE q = r
      BY <2>6, <3>1 DEF RemoveFolder
    <3>2. CASE q # r
      <4>1. active'[q] = active[q] /\ (q \in roots' <=> q \in roots)
        BY <2>6, <3>2 DEF RemoveFolder, TypeOK
      <4>2. \A s \in Sounds :
              <<s, q, active[q]>> \in located' <=> <<s, q, active[q]>> \in located
        BY <2>6, <3>2 DEF RemoveFolder
      <4> QED BY <4>1, <4>2 DEF Live
    <3> QED BY <3>1, <3>2
  <2>7. ASSUME NEW s \in Sounds, Bind(s) PROVE Closed(q)
    BY <2>7, SameRowsSameList DEF Bind
  <2>8. ASSUME DiskChanges \/ Crash PROVE Closed(q)
    BY <2>8, SameRowsSameList DEF DiskChanges, Crash
  <2> QED BY <2>1, <2>2, <2>3, <2>4, <2>5, <2>6, <2>7, <2>8 DEF Next, Command
<1> QED BY <1>1, TypeInvariant, PTL DEF Spec, StagingIsInvisible

\* The step of each request that keeps the open generations filled with what
\* the walk has sent.
LEMMA WalkStep ==
  ASSUME TypeOK, NEW p \in Refreshes, WalkOK(p), Command(p)
  PROVE  WalkOK(p)'
<1> USE DEF WalkOK
<1>1. ASSUME Start(p) PROVE WalkOK(p)'
  BY <1>1 DEF Start, TypeOK
<1>2. ASSUME BeginRoot(p) PROVE WalkOK(p)'
  BY <1>2 DEF BeginRoot, TypeOK
<1>3. ASSUME Visit(p) PROVE WalkOK(p)'
  <2>1. PICK s \in unseen[p] :
          /\ unseen' = [unseen EXCEPT ![p] = @ \ {s}]
          /\ \/ \E r \in Owner(s, listed[p]) :
                  /\ \A b \in batch[p] : b[2] = r
                  /\ batch' = [batch EXCEPT ![p] = @ \cup {<<s, r>>}]
                  /\ found' = [found EXCEPT ![p] = @ \cup {<<s, r>>}]
             \/ UNCHANGED <<batch, found>>
    BY <1>3 DEF Visit
  <2>2. unseen'[p] = unseen[p] \ {s} /\ step[p] = "walk" /\ step' = step
    BY <1>3, <2>1 DEF Visit, TypeOK
  <2>3. CASE UNCHANGED <<batch, found>>
    BY <2>2, <2>3
  <2>4. ASSUME NEW r \in Owner(s, listed[p]),
               \A b \in batch[p] : b[2] = r,
               batch' = [batch EXCEPT ![p] = @ \cup {<<s, r>>}],
               found' = [found EXCEPT ![p] = @ \cup {<<s, r>>}]
        PROVE  WalkOK(p)'
    <3>1. batch'[p] = batch[p] \cup {<<s, r>>} /\ found'[p] = found[p] \cup {<<s, r>>}
      BY <2>4 DEF TypeOK
    <3> QED BY <2>2, <2>4, <3>1
  <2> QED BY <2>1, <2>3, <2>4
<1>4. ASSUME Flush(p) PROVE WalkOK(p)'
  BY <1>4 DEF Flush, GiveUp, TypeOK
<1>5. ASSUME WalkEnds(p) PROVE WalkOK(p)'
  BY <1>5 DEF WalkEnds, TypeOK
<1>6. ASSUME Abandon(p) PROVE WalkOK(p)'
  BY <1>6 DEF Abandon, GiveUp, TypeOK
<1>7. ASSUME CancelRoot(p) PROVE WalkOK(p)'
  BY <1>7 DEF CancelRoot, TypeOK
<1>8. ASSUME FinishRoot(p) PROVE WalkOK(p)'
  BY <1>8 DEF FinishRoot, Idle, TypeOK
<1>9. ASSUME Return(p) PROVE WalkOK(p)'
  BY <1>9 DEF Return, Idle, TypeOK
<1> QED BY <1>1, <1>2, <1>3, <1>4, <1>5, <1>6, <1>7, <1>8, <1>9 DEF Command

\* What an open generation holds follows what was sent.
LEMMA StagedStep ==
  ASSUME TypeOK, NEW p \in Refreshes, WalkOK(p), Command(p), NEW q \in Roots,
         step[p] # "cancel" /\ Verified(q, generation[p][q]) => Staged(p, q) = Sent(p, q),
         (step[p] # "cancel" /\ Verified(q, generation[p][q]))'
  PROVE  (Staged(p, q) = Sent(p, q))'
<1> DEFINE Same == /\ UNCHANGED <<located, scanning, generation>>
                   /\ step[p] # "cancel"
                   /\ \A s \in Sounds :
                        <<s, q>> \in found'[p] \ batch'[p] <=> <<s, q>> \in found[p] \ batch[p]
<1>0. Same => (Staged(p, q) = Sent(p, q))'
  BY DEF Verified, Staged, Sent
<1> USE DEF store, command
<1>1. ASSUME Start(p) PROVE Same
  BY <1>1 DEF Start
<1>2. ASSUME BeginRoot(p) PROVE (Staged(p, q) = Sent(p, q))'
  <2>1. PICK r \in todo[p] : \E g \in NextGeneration(r) :
          /\ scanning' = [scanning EXCEPT ![r] = g]
          /\ generation' = [generation EXCEPT ![p][r] = g]
    BY <1>2 DEF BeginRoot
  <2>2. PICK g \in NextGeneration(r) :
          /\ scanning' = [scanning EXCEPT ![r] = g]
          /\ generation' = [generation EXCEPT ![p][r] = g]
    BY <2>1
  <2>3. r \in Roots /\ step[p] = "begin" /\ UNCHANGED <<located, batch, found>>
    BY <1>2 DEF BeginRoot, TypeOK
  <2>4. found[p] = {} /\ batch[p] = {}
    BY <2>3 DEF WalkOK
  <2>5. CASE q = r
    <3>1. generation'[p][q] = g
      BY <2>2, <2>3, <2>5 DEF TypeOK
    <3>2. \A s \in Sounds : <<s, q, g>> \notin located
      BY <2>3, <2>5, NextGenerationAbove
    <3> QED BY <2>3, <2>4, <3>1, <3>2 DEF Staged, Sent
  <2>6. CASE q # r
    <3>1. generation'[p][q] = generation[p][q] /\ scanning'[q] = scanning[q]
      BY <2>2, <2>3, <2>6 DEF TypeOK
    <3> QED BY <2>3, <3>1 DEF Verified, Staged, Sent
  <2> QED BY <2>5, <2>6
<1>3. ASSUME Visit(p) PROVE Same
  <2>1. PICK s \in unseen[p] :
          \/ \E r \in Owner(s, listed[p]) :
                /\ batch' = [batch EXCEPT ![p] = @ \cup {<<s, r>>}]
                /\ found' = [found EXCEPT ![p] = @ \cup {<<s, r>>}]
          \/ UNCHANGED <<batch, found>>
    BY <1>3 DEF Visit
  <2>2. \A r : <<s, r>> \notin found[p]
    BY DEF WalkOK
  <2>3. UNCHANGED <<located, scanning, generation>> /\ step[p] # "cancel"
    BY <1>3 DEF Visit
  <2>4. CASE UNCHANGED <<batch, found>>
    BY <2>3, <2>4
  <2>5. ASSUME NEW r \in Owner(s, listed[p]),
               batch' = [batch EXCEPT ![p] = @ \cup {<<s, r>>}],
               found' = [found EXCEPT ![p] = @ \cup {<<s, r>>}]
        PROVE  Same
    <3>1. batch'[p] = batch[p] \cup {<<s, r>>} /\ found'[p] = found[p] \cup {<<s, r>>}
      BY <2>5 DEF TypeOK
    <3> QED BY <2>2, <2>3, <3>1
  <2> QED BY <2>1, <2>4, <2>5
<1>4. ASSUME Flush(p) PROVE (Staged(p, q) = Sent(p, q))'
  <2>1. PICK b \in batch[p] :
          IF Verified(b[2], generation[p][b[2]])
          THEN /\ located' = located \cup {<<c[1], b[2], generation[p][b[2]]>> : c \in batch[p]}
               /\ batch' = [batch EXCEPT ![p] = {}]
               /\ UNCHANGED <<generation, found>>
          ELSE GiveUp(p)
    BY <1>4 DEF Flush
  <2>2. Verified(b[2], generation[p][b[2]])
    BY <2>1 DEF GiveUp, TypeOK
  <2>3. /\ located' = located \cup {<<c[1], b[2], generation[p][b[2]]>> : c \in batch[p]}
        /\ batch'[p] = {}
        /\ UNCHANGED <<generation, found>>
    BY <2>1, <2>2 DEF TypeOK
  <2>4. step[p] # "cancel" /\ UNCHANGED scanning
    BY <1>4 DEF Flush
  <2>5. Staged(p, q) = Sent(p, q)
    BY <2>3, <2>4 DEF Verified
  <2>6. \A c \in batch[p] : c[2] = b[2] /\ c = <<c[1], c[2]>> /\ c[1] \in Sounds
    BY DEF WalkOK, TypeOK
  <2>7. ASSUME NEW s \in Sounds
        PROVE  <<s, q, generation[p][q]>> \in located' <=> <<s, q>> \in found[p]
    <3>1. <<s, q>> \in batch[p] => q = b[2] /\ <<s, q>> \in found[p]
      BY <2>6 DEF WalkOK
    <3>2. <<s, q, generation[p][q]>> \in located <=> <<s, q>> \in found[p] \ batch[p]
      BY <2>5 DEF Staged, Sent
    <3>3. <<s, q, generation[p][q]>> \in located'
            <=> \/ <<s, q, generation[p][q]>> \in located
                \/ q = b[2] /\ <<s, q>> \in batch[p]
      BY <2>3, <2>6
    <3> QED BY <3>1, <3>2, <3>3
  <2> QED BY <2>3, <2>7 DEF Staged, Sent
<1>5. ASSUME WalkEnds(p) PROVE Same
  BY <1>5 DEF WalkEnds
<1>6. ASSUME Abandon(p) PROVE FALSE
  BY <1>6 DEF Abandon, GiveUp, TypeOK
<1>7. ASSUME CancelRoot(p) PROVE FALSE
  BY <1>7 DEF CancelRoot
<1>8. ASSUME FinishRoot(p) PROVE (Staged(p, q) = Sent(p, q))'
  <2>1. PICK r \in todo[p] :
          \/ Publish(p, r) /\ UNCHANGED <<generation, batch, found>>
          \/ Idle(p)
    BY <1>8 DEF FinishRoot
  <2>2. r \in Roots /\ step[p] = "finish"
    BY <1>8 DEF FinishRoot, TypeOK
  <2>3. CASE Idle(p)
    <3>1. generation'[p][q] = 0
      BY <2>3 DEF Idle, NoGeneration, TypeOK
    <3> QED BY <3>1 DEF Verified
  <2>4. CASE Publish(p, r) /\ UNCHANGED <<generation, batch, found>>
    <3>1. q # r
      BY <2>2, <2>4 DEF Publish, Verified, TypeOK
    <3>2. scanning'[q] = scanning[q]
      BY <2>4, <3>1 DEF Publish, TypeOK
    <3>3. \A s \in Sounds :
            <<s, q, generation[p][q]>> \in located' <=> <<s, q, generation[p][q]>> \in located
      BY <2>4, <3>1 DEF Publish, Kept
    <3> QED BY <2>2, <2>4, <3>2, <3>3 DEF Verified, Staged, Sent
  <2> QED BY <2>1, <2>3, <2>4
<1>9. ASSUME Return(p) PROVE (Staged(p, q) = Sent(p, q))'
  <2>1. generation'[p][q] = 0
    BY <1>9 DEF Return, Idle, NoGeneration, TypeOK
  <2> QED BY <2>1 DEF Verified
<1> HIDE DEF Same
<1> QED BY <1>0, <1>1, <1>2, <1>3, <1>4, <1>5, <1>6, <1>7, <1>8, <1>9 DEF Command

\* Steps of the user, the disk and a crash keep it too.
LEMMA OutsideStep ==
  ASSUME TypeOK, StagedIsSent,
         \/ \E r \in Roots : AddFolder(r) \/ RemoveFolder(r)
         \/ \E s \in Sounds : Bind(s)
         \/ DiskChanges
         \/ Crash
         \/ UNCHANGED vars
  PROVE  StagedIsSent'
<1> USE DEF store, command
<1>1. CASE \/ \E r \in Roots : AddFolder(r)
           \/ \E s \in Sounds : Bind(s)
           \/ DiskChanges
           \/ UNCHANGED vars
  <2>1. UNCHANGED <<located, scanning, command>>
    BY <1>1 DEF AddFolder, Bind, DiskChanges, vars
  <2> QED BY <2>1 DEF StagedIsSent, WalkOK, Verified, Staged, Sent
<1>2. ASSUME NEW r \in Roots, RemoveFolder(r) PROVE StagedIsSent'
  <2>1. UNCHANGED command
    BY <1>2 DEF RemoveFolder
  <2>2. ASSUME NEW p \in Refreshes, NEW q \in Roots,
               step[p] # "cancel", Verified(q, generation[p][q])'
        PROVE  (Staged(p, q) = Sent(p, q))'
    <3>1. q # r /\ scanning'[q] = scanning[q]
      BY <1>2, <2>1, <2>2 DEF RemoveFolder, Verified, TypeOK
    <3>2. Staged(p, q) = Sent(p, q)
      BY <2>1, <2>2, <3>1 DEF StagedIsSent, Verified
    <3>3. \A s \in Sounds :
            <<s, q, generation[p][q]>> \in located' <=> <<s, q, generation[p][q]>> \in located
      BY <1>2, <3>1 DEF RemoveFolder
    <3> QED BY <2>1, <3>2, <3>3 DEF Staged, Sent
  <2> QED BY <2>1, <2>2 DEF StagedIsSent, WalkOK
<1>3. CASE Crash
  <2>1. ASSUME NEW p \in Refreshes
        PROVE  /\ generation'[p] = NoGeneration
               /\ found'[p] = {} /\ batch'[p] = {} /\ step'[p] = "idle"
    BY <1>3 DEF Crash
  <2>2. \A q \in Roots : NoGeneration[q] = 0
    BY DEF NoGeneration
  <2> QED BY <2>1, <2>2 DEF StagedIsSent, WalkOK, Verified
<1> QED BY <1>1, <1>2, <1>3

\* The lists and what was published for them change together.
LEMMA PublishedStep ==
  ASSUME TypeOK, StagedIsSent, RefreshIsAtomic, [Next]_vars
  PROVE  RefreshIsAtomic'
<1> USE DEF store, command
<1>1. ASSUME NEW p \in Refreshes, Start(p) \/ Visit(p) \/ WalkEnds(p) \/ Abandon(p) \/ Return(p)
      PROVE  RefreshIsAtomic'
  <2>1. UNCHANGED <<roots, active, located, published>>
    BY <1>1 DEF Start, Visit, WalkEnds, Abandon, Return
  <2> QED BY <2>1 DEF RefreshIsAtomic, Live
<1>2. ASSUME NEW p \in Refreshes, BeginRoot(p) PROVE RefreshIsAtomic'
  BY <1>2, SameRowsSameList DEF BeginRoot, RefreshIsAtomic
<1>3. ASSUME NEW p \in Refreshes, Flush(p) \/ CancelRoot(p) PROVE RefreshIsAtomic'
  <2>1. UNCHANGED published
    BY <1>3 DEF Flush, CancelRoot
  <2> QED BY <1>3, <2>1, FlushIsInvisible, CancelIsInvisible DEF RefreshIsAtomic
<1>4. ASSUME NEW p \in Refreshes, FinishRoot(p) PROVE RefreshIsAtomic'
  <2>1. PICK r \in todo[p] :
          \/ Verified(r, generation[p][r]) /\ Publish(p, r) /\ UNCHANGED roots
          \/ UNCHANGED <<store, published>>
    BY <1>4 DEF FinishRoot
  <2>2. r \in Roots /\ step[p] = "finish"
    BY <1>4 DEF FinishRoot, TypeOK
  <2>3. CASE UNCHANGED <<store, published>>
    BY <2>3 DEF RefreshIsAtomic, Live
  <2>4. CASE Verified(r, generation[p][r]) /\ Publish(p, r) /\ UNCHANGED roots
    <3>1. ASSUME NEW q \in Roots, q # r PROVE Live(q)' = published'[q]
      <4>1. published'[q] = published[q]
        BY <2>4, <3>1 DEF Publish, TypeOK
      <4> QED BY <2>2, <2>4, <3>1, <4>1, PublishIsLocal DEF RefreshIsAtomic
    <3>2. Live(r)' = published'[r]
      <4>1. r \in roots'
        BY <2>2, <2>4, VerifiedRoot
      <4>2. active'[r] = generation[p][r]
        BY <2>2, <2>4 DEF Publish, TypeOK
      <4>3. \A s \in Sounds :
              <<s, r, generation[p][r]>> \in located' <=> <<s, r, generation[p][r]>> \in located
        BY <2>4 DEF Publish, Kept
      <4>4. Live(r)' = Staged(p, r)
        BY <4>1, <4>2, <4>3 DEF Live, Staged
      <4>5. Staged(p, r) = Sent(p, r) /\ batch[p] = {}
        BY <2>2, <2>4 DEF StagedIsSent, WalkOK
      <4>6. published'[r] = {f[1] : f \in {h \in found[p] : h[2] = r}}
        BY <2>2, <2>4 DEF Publish, TypeOK
      <4>7. Sent(p, r) = {f[1] : f \in {h \in found[p] : h[2] = r}}
        <5>1. \A h \in found[p] : h = <<h[1], h[2]>> /\ h[1] \in Sounds
          BY DEF TypeOK
        <5> QED BY <4>5, <5>1 DEF Sent
      <4> QED BY <4>4, <4>5, <4>6, <4>7
    <3> QED BY <3>1, <3>2 DEF RefreshIsAtomic
  <2> QED BY <2>1, <2>3, <2>4
<1>5. ASSUME NEW r \in Roots, AddFolder(r) PROVE RefreshIsAtomic'
  BY <1>5, SameRowsSameList DEF AddFolder, RefreshIsAtomic
<1>6. ASSUME NEW r \in Roots, RemoveFolder(r) PROVE RefreshIsAtomic'
  <2>1. ASSUME NEW q \in Roots, q # r PROVE Live(q)' = published'[q]
    <3>1. /\ active'[q] = active[q] /\ published'[q] = published[q]
          /\ q \in roots' <=> q \in roots
      BY <1>6, <2>1 DEF RemoveFolder, TypeOK
    <3>2. \A s \in Sounds :
            <<s, q, active[q]>> \in located' <=> <<s, q, active[q]>> \in located
      BY <1>6, <2>1 DEF RemoveFolder
    <3>3. Live(q)' = Live(q)
      BY <3>1, <3>2 DEF Live
    <3> QED BY <3>1, <3>3 DEF RefreshIsAtomic
  <2>2. Live(r)' = {} /\ published'[r] = {}
    BY <1>6 DEF RemoveFolder, Live, TypeOK
  <2> QED BY <2>1, <2>2 DEF RefreshIsAtomic
<1>7. CASE \/ \E s \in Sounds : Bind(s)
           \/ DiskChanges
           \/ Crash
           \/ UNCHANGED vars
  <2>1. UNCHANGED <<roots, active, located, published>>
    BY <1>7 DEF Bind, DiskChanges, Crash, vars
  <2> QED BY <2>1 DEF RefreshIsAtomic, Live
<1> QED BY <1>1, <1>2, <1>3, <1>4, <1>5, <1>6, <1>7 DEF Next, Command

\* What a command has to know of the rows it did not write, step by step: they
\* are all of roots that it has begun or is about to begin, and, once it
\* publishes, of roots still to be published or published by it. After its first
\* publication every active hotkey is one of a sound that has a row.
FinishOK(p) ==
    /\ step[p] = "begin" => todo[p] # {}
    /\ step[p] = "walk" => todo[p] = {} /\ Begun(p) # {}
    /\ step[p] \in {"begin", "walk"} => \A l \in located : l[2] \in Begun(p) \cup todo[p]
    /\ step[p] = "finish" =>
        /\ Begun(p) # {} /\ todo[p] \subseteq Begun(p)
        /\ \A l \in located : l[2] \in todo[p] \/ l[3] = active[l[2]]
        /\ todo[p] # Begun(p) =>
            \A s \in Sounds : binding[s] = "active" => \E l \in located : l[1] = s

\* A generation of the command that is listed was published by it.
PublishedIsFound(p) ==
    \A r \in Roots :
        generation[p][r] # 0 /\ generation[p][r] = active[r] =>
            /\ step[p] = "finish"
            /\ \A s \in Sounds : <<s, r>> \in found[p] => s \in published[r]

RefreshInv ==
    /\ StagedIsSent /\ RefreshIsAtomic
    /\ \A p \in Refreshes : FinishOK(p) /\ PublishedIsFound(p)

\* What publishing a root does to the rows and the hotkeys.
LEMMA PublishedRows ==
  ASSUME TypeOK, NEW p \in Refreshes, NEW r \in Roots, Publish(p, r)
  PROVE  /\ active'[r] = generation[p][r]
         /\ \A q \in Roots : q # r => active'[q] = active[q] /\ published'[q] = published[q]
         /\ \A l \in located' : l \in located /\ (l[2] = r => l[3] = generation[p][r])
         /\ \A l \in located : l[2] # r \/ l[3] = generation[p][r] => l \in located'
         /\ \A s \in Sounds : <<s, r>> \in found[p] => s \in published'[r]
         /\ \A s \in Sounds : binding'[s] = "active" =>
              binding[s] = "active" /\ \E l \in located' : l[1] = s
         /\ \A s \in Sounds : binding[s] = "active" /\ binding'[s] # "active" =>
              ~ \E l \in located' : l[1] = s
<1>1. located' = Kept(r, generation[p][r])
  BY DEF Publish
<1>2. \A s \in Sounds :
        binding'[s] = IF binding[s] = "active" /\ ~(\E l \in located' : l[1] = s)
                      THEN "needs_attention" ELSE binding[s]
  BY <1>1 DEF Publish, FlagLost
<1>3. /\ active'[r] = generation[p][r]
      /\ \A q \in Roots : q # r => active'[q] = active[q] /\ published'[q] = published[q]
  BY DEF Publish, TypeOK
<1>4. published'[r] = {f[1] : f \in {h \in found[p] : h[2] = r}}
  BY DEF Publish, TypeOK
<1>5. \A s \in Sounds : <<s, r>> \in found[p] => s \in published'[r]
  BY <1>4
<1>6. /\ \A s \in Sounds : binding'[s] = "active" =>
           binding[s] = "active" /\ \E l \in located' : l[1] = s
      /\ \A s \in Sounds : binding[s] = "active" /\ binding'[s] # "active" =>
           ~ \E l \in located' : l[1] = s
  BY <1>2
<1> QED BY <1>1, <1>3, <1>5, <1>6 DEF Kept

\* Each request of the command.
LEMMA FinishStep ==
  ASSUME TypeOK, NEW p \in Refreshes, FinishOK(p), Command(p)
  PROVE  FinishOK(p)'
<1> USE DEF FinishOK, store
<1>1. ASSUME Start(p) PROVE FinishOK(p)'
  <2>1. step'[p] = "begin" /\ todo'[p] = roots /\ roots # {} /\ located' = located
    BY <1>1 DEF Start, TypeOK
  <2> QED BY <2>1 DEF TypeOK, TablesOK
<1>2. ASSUME BeginRoot(p) PROVE FinishOK(p)'
  <2>0. PICK r \in todo[p] : \E g \in NextGeneration(r) :
          /\ generation' = [generation EXCEPT ![p][r] = g]
          /\ todo' = [todo EXCEPT ![p] = @ \ {r}]
          /\ IF todo[p] = {r} THEN step' = [step EXCEPT ![p] = "walk"] ELSE UNCHANGED step
    BY <1>2 DEF BeginRoot
  <2>1. PICK g \in NextGeneration(r) :
          /\ generation' = [generation EXCEPT ![p][r] = g]
          /\ todo' = [todo EXCEPT ![p] = @ \ {r}]
          /\ IF todo[p] = {r} THEN step' = [step EXCEPT ![p] = "walk"] ELSE UNCHANGED step
    BY <2>0
  <2>2. r \in Roots
    BY DEF TypeOK
  <2>3. g # 0
    BY <2>2, NextGenerationAbove DEF TypeOK
  <2>4. step[p] = "begin" /\ located' = located
    BY <1>2 DEF BeginRoot
  <2>5. todo'[p] = todo[p] \ {r}
    BY <2>1 DEF TypeOK
  <2>6. generation'[p][r] = g /\ \A q \in Roots : q # r => generation'[p][q] = generation[p][q]
    BY <2>1, <2>2 DEF TypeOK
  <2>7. Begun(p)' = Begun(p) \cup {r}
    BY <2>2, <2>3, <2>6 DEF Begun
  <2>8. step'[p] = IF todo[p] = {r} THEN "walk" ELSE "begin"
    BY <2>1, <2>4 DEF TypeOK
  <2> QED BY <2>4, <2>5, <2>7, <2>8
<1>3. ASSUME Visit(p) PROVE FinishOK(p)'
  BY <1>3 DEF Visit, Begun
<1>4. ASSUME Flush(p) PROVE FinishOK(p)'
  <2>1. PICK r \in {b[2] : b \in batch[p]} :
          IF Verified(r, generation[p][r])
          THEN /\ located' = located \cup {<<b[1], r, generation[p][r]>> : b \in batch[p]}
               /\ UNCHANGED <<step, generation, todo>>
          ELSE GiveUp(p)
    BY <1>4 DEF Flush
  <2>2. r \in Roots /\ step[p] = "walk"
    BY <1>4 DEF Flush, TypeOK
  <2>3. CASE GiveUp(p)
    <3>1. step'[p] = "cancel"
      BY <2>3 DEF GiveUp, TypeOK
    <3> QED BY <3>1
  <2>4. CASE /\ Verified(r, generation[p][r])
             /\ located' = located \cup {<<b[1], r, generation[p][r]>> : b \in batch[p]}
             /\ UNCHANGED <<step, generation, todo>>
    <3>1. r \in Begun(p) /\ Begun(p)' = Begun(p)
      BY <2>2, <2>4 DEF Begun, Verified
    <3>2. \A l \in located' : l \in located \/ l[2] = r
      BY <2>4
    <3> QED BY <2>2, <2>4, <3>1, <3>2
  <2> QED BY <2>1, <2>3, <2>4
<1>5. ASSUME WalkEnds(p) PROVE FinishOK(p)'
  <2>1. /\ step[p] = "walk" /\ step'[p] = "finish" /\ todo'[p] = Begun(p)
        /\ UNCHANGED <<located, generation>>
    BY <1>5 DEF WalkEnds, TypeOK
  <2> QED BY <2>1 DEF Begun
<1>6. ASSUME Abandon(p) PROVE FinishOK(p)'
  <2>1. step'[p] = "cancel"
    BY <1>6 DEF Abandon, GiveUp, TypeOK
  <2> QED BY <2>1
<1>7. ASSUME CancelRoot(p) PROVE FinishOK(p)'
  <2>1. step'[p] = "cancel"
    BY <1>7 DEF CancelRoot
  <2> QED BY <2>1
<1>8. ASSUME FinishRoot(p) PROVE FinishOK(p)'
  <2>1. CASE Idle(p)
    <3>1. step'[p] = "idle"
      BY <2>1 DEF Idle, TypeOK
    <3> QED BY <3>1
  <2>2. ASSUME NEW r \in todo[p], Publish(p, r), todo' = [todo EXCEPT ![p] = @ \ {r}],
               UNCHANGED <<step, generation>>, step[p] = "finish"
        PROVE  FinishOK(p)'
    <3>1. r \in Roots /\ todo'[p] = todo[p] \ {r} /\ Begun(p)' = Begun(p)
      BY <2>2 DEF TypeOK, Begun
    <3>2. \A l \in located' : l[2] \in todo'[p] \/ l[3] = active'[l[2]]
      <4> SUFFICES ASSUME NEW l \in located' PROVE l[2] \in todo'[p] \/ l[3] = active'[l[2]]
        OBVIOUS
      <4>1. l \in located /\ l[2] \in Roots
        BY <2>2, <3>1, PublishedRows DEF TypeOK
      <4>2. CASE l[2] = r
        BY <2>2, <3>1, <4>2, PublishedRows
      <4>3. CASE l[2] # r
        <5>1. active'[l[2]] = active[l[2]]
          BY <2>2, <3>1, <4>1, <4>3, PublishedRows
        <5> QED BY <2>2, <3>1, <4>1, <4>3, <5>1
      <4> QED BY <4>2, <4>3
    <3>3. \A s \in Sounds : binding'[s] = "active" => \E l \in located' : l[1] = s
      BY <2>2, <3>1, PublishedRows
    <3> QED BY <2>2, <3>1, <3>2, <3>3
  <2> QED BY <1>8, <2>1, <2>2 DEF FinishRoot
<1>9. ASSUME Return(p) PROVE FinishOK(p)'
  <2>1. step'[p] = "idle"
    BY <1>9 DEF Return, Idle, TypeOK
  <2> QED BY <2>1
<1> QED BY <1>1, <1>2, <1>3, <1>4, <1>5, <1>6, <1>7, <1>8, <1>9 DEF Command

LEMMA FoundStep ==
  ASSUME TypeOK, NEW p \in Refreshes, WalkOK(p), PublishedIsFound(p), Command(p)
  PROVE  PublishedIsFound(p)'
<1> USE DEF PublishedIsFound, store
<1>1. ASSUME Start(p) PROVE PublishedIsFound(p)'
  <2>1. generation'[p] = generation[p] /\ step[p] = "idle"
    BY <1>1 DEF Start
  <2>2. \A r \in Roots : generation[p][r] = 0
    BY <2>1 DEF WalkOK, NoGeneration
  <2> QED BY <2>1, <2>2
<1>2. ASSUME BeginRoot(p) PROVE PublishedIsFound(p)'
  <2>0. PICK r \in todo[p] : \E g \in NextGeneration(r) :
          generation' = [generation EXCEPT ![p][r] = g]
    BY <1>2 DEF BeginRoot
  <2>1. PICK g \in NextGeneration(r) : generation' = [generation EXCEPT ![p][r] = g]
    BY <2>0
  <2>2. r \in Roots
    BY DEF TypeOK
  <2>3. g > active[r] /\ g \in Nat /\ active[r] \in Nat
    BY <2>2, NextGenerationAbove DEF TypeOK
  <2>4. generation'[p][r] = g /\ \A q \in Roots : q # r => generation'[p][q] = generation[p][q]
    BY <2>1, <2>2 DEF TypeOK
  <2>5. step[p] = "begin" /\ active' = active
    BY <1>2 DEF BeginRoot
  <2> QED BY <2>3, <2>4, <2>5
<1>3. ASSUME Visit(p) \/ Flush(p) PROVE PublishedIsFound(p)'
  <2>1. step[p] = "walk" /\ UNCHANGED <<generation, active>>
    BY <1>3 DEF Visit, Flush, GiveUp
  <2> QED BY <2>1
<1>4. ASSUME WalkEnds(p) \/ Abandon(p) PROVE PublishedIsFound(p)'
  <2>1. step[p] # "finish" /\ UNCHANGED <<generation, active>>
    BY <1>4 DEF WalkEnds, Abandon, GiveUp
  <2> QED BY <2>1
<1>5. ASSUME CancelRoot(p) PROVE PublishedIsFound(p)'
  BY <1>5 DEF CancelRoot
<1>6. CASE Idle(p)
  <2>1. generation'[p] = NoGeneration
    BY <1>6 DEF Idle, TypeOK
  <2> QED BY <2>1 DEF NoGeneration
<1>7. ASSUME NEW r \in todo[p], Publish(p, r), UNCHANGED <<step, generation, found>>, step[p] = "finish"
      PROVE  PublishedIsFound(p)'
  <2>1. r \in Roots
    BY DEF TypeOK
  <2> QED BY <1>7, <2>1, PublishedRows
<1> QED BY <1>1, <1>2, <1>3, <1>4, <1>5, <1>6, <1>7 DEF Command, FinishRoot, Return

\* Everything else.
LEMMA OthersStep ==
  ASSUME TypeOK, RefreshInv, NEW p \in Refreshes,
         \/ \E r \in Roots : AddFolder(r) \/ RemoveFolder(r)
         \/ \E s \in Sounds : Bind(s)
         \/ DiskChanges
         \/ Crash
         \/ UNCHANGED vars
  PROVE  FinishOK(p)' /\ PublishedIsFound(p)'
<1> USE DEF store, command
<1>0. FinishOK(p) /\ PublishedIsFound(p)
  BY DEF RefreshInv
<1>1. CASE (\E r \in Roots : AddFolder(r)) \/ DiskChanges \/ UNCHANGED vars
  <2>1. UNCHANGED <<active, located, binding, published, command>>
    BY <1>1 DEF AddFolder, DiskChanges, vars
  <2> QED BY <1>0, <2>1 DEF FinishOK, PublishedIsFound, Begun
<1>2. ASSUME NEW r \in Roots, RemoveFolder(r) PROVE FinishOK(p)' /\ PublishedIsFound(p)'
  <2>1. /\ UNCHANGED command
        /\ \A l \in located' : l \in located /\ l[2] # r
        /\ active'[r] = 0 /\ \A q \in Roots : q # r => active'[q] = active[q] /\ published'[q] = published[q]
    BY <1>2 DEF RemoveFolder, TypeOK
  <2>2. \A s \in Sounds : binding'[s] = "active" => \E l \in located' : l[1] = s
    <3>1. \A s \in Sounds :
            binding'[s] = IF \E l \in located' : l[1] = s THEN binding[s] ELSE "none"
      BY <1>2 DEF RemoveFolder
    <3> QED BY <3>1
  <2>3. PublishedIsFound(p)'
    BY <1>0, <2>1 DEF PublishedIsFound
  <2>4. Begun(p)' = Begun(p)
    BY <2>1 DEF Begun
  <2>5. \A l \in located' : l[2] \in Roots /\ active'[l[2]] = active[l[2]]
    BY <2>1 DEF TypeOK
  <2> QED BY <1>0, <2>1, <2>2, <2>3, <2>4, <2>5 DEF FinishOK
<1>3. ASSUME NEW s \in Sounds, Bind(s) PROVE FinishOK(p)' /\ PublishedIsFound(p)'
  <2>1. UNCHANGED <<active, located, published, command>>
    BY <1>3 DEF Bind
  <2>2. \E l \in located : l[1] = s
    BY <1>3 DEF Bind, Listed, Live
  <2>3. \A t \in Sounds : t # s => binding'[t] = binding[t]
    BY <1>3 DEF Bind
  <2> QED BY <1>0, <2>1, <2>2, <2>3 DEF FinishOK, PublishedIsFound, Begun
<1>4. CASE Crash
  <2>1. step'[p] = "idle" /\ generation'[p] = NoGeneration
    BY <1>4 DEF Crash
  <2> QED BY <2>1 DEF FinishOK, PublishedIsFound, NoGeneration
<1> QED BY <1>1, <1>2, <1>3, <1>4

\* While no two refreshes overlap, all of this holds at every moment.
LEMMA RefreshInvariant ==
  ASSUME \A p, q \in Refreshes : p = q
  PROVE  Spec => [](TypeOK /\ RefreshInv)
<1>1. Init => RefreshInv
  BY DEF Init, RefreshInv, StagedIsSent, WalkOK, Verified, NoGeneration, RefreshIsAtomic, Live,
         FinishOK, PublishedIsFound
<1>2. TypeOK /\ RefreshInv /\ [Next]_vars => RefreshInv'
  <2> SUFFICES ASSUME TypeOK, RefreshInv, [Next]_vars
               PROVE  RefreshInv'
    OBVIOUS
  <2>1. RefreshIsAtomic'
    BY PublishedStep DEF RefreshInv
  <2>2. ASSUME NEW p \in Refreshes, Command(p) PROVE RefreshInv'
    <3>1. WalkOK(p)'
      BY <2>2, WalkStep DEF RefreshInv, StagedIsSent
    <3>2. ASSUME NEW q \in Roots, (step[p] # "cancel" /\ Verified(q, generation[p][q]))'
          PROVE  (Staged(p, q) = Sent(p, q))'
      BY <2>2, <3>2, StagedStep DEF RefreshInv, StagedIsSent
    <3>3. FinishOK(p)' /\ PublishedIsFound(p)'
      BY <2>2, FinishStep, FoundStep DEF RefreshInv, StagedIsSent
    <3>4. \A o \in Refreshes : o = p
      OBVIOUS
    <3> QED BY <2>1, <3>1, <3>2, <3>3, <3>4 DEF RefreshInv, StagedIsSent
  <2>3. CASE \/ \E r \in Roots : AddFolder(r) \/ RemoveFolder(r)
             \/ \E s \in Sounds : Bind(s)
             \/ DiskChanges
             \/ Crash
             \/ UNCHANGED vars
    <3>1. StagedIsSent'
      BY <2>3, OutsideStep DEF RefreshInv
    <3>2. \A p \in Refreshes : FinishOK(p)' /\ PublishedIsFound(p)'
      BY <2>3, OthersStep
    <3> QED BY <2>1, <3>1, <3>2 DEF RefreshInv
  <2> QED BY <2>2, <2>3 DEF Next
<1> QED BY <1>1, <1>2, TypeInvariant, PTL DEF Spec

\* While no two refreshes overlap, every root lists exactly what one whole walk
\* read, through any sequence of crashes, cancellations, failing requests,
\* changes on disk, and folders added and removed. (Two overlapping refreshes
\* break this: run overlapping_refreshes.)
THEOREM OneRefreshIsAtomic ==
  ASSUME \A p, q \in Refreshes : p = q
  PROVE  Spec => []RefreshIsAtomic
<1>1. RefreshInv => RefreshIsAtomic
  BY DEF RefreshInv
<1> QED BY <1>1, RefreshInvariant, PTL

\* Nor does it take a hotkey from a sound that it has found under a root whose
\* scan stands: what is published has a row, and so has what is still open.
THEOREM OneRefreshKeepsHotkeys ==
  ASSUME \A p, q \in Refreshes : p = q
  PROVE  Spec => FoundSoundsKeepHotkeys
<1>1. TypeOK /\ RefreshInv /\ [Next]_vars =>
        [\A s \in Sounds, p \in Refreshes :
            /\ step[p] = "finish"
            /\ binding[s] = "active"
            /\ binding'[s] = "needs_attention"
            => \A r \in Roots : Stands(p, r) => <<s, r>> \notin found[p]]_vars
  <2> SUFFICES ASSUME TypeOK, RefreshInv, [Next]_vars,
                      NEW s \in Sounds, NEW p \in Refreshes,
                      step[p] = "finish", binding[s] = "active", binding'[s] = "needs_attention"
               PROVE  \A r \in Roots : Stands(p, r) => <<s, r>> \notin found[p]
    OBVIOUS
  <2> USE DEF store
  <2>1. PICK r \in todo[p] : Verified(r, generation[p][r]) /\ Publish(p, r)
    <3>1. ASSUME NEW o \in Refreshes, Command(o)
          PROVE  \E r \in todo[p] : Verified(r, generation[p][r]) /\ Publish(p, r)
      <4>1. o = p
        OBVIOUS
      <4>2. binding' # binding
        OBVIOUS
      <4>3. FinishRoot(p)
        BY <3>1, <4>1, <4>2 DEF Command, Start, BeginRoot, Visit, Flush, WalkEnds, Abandon, CancelRoot, Return
      <4> QED BY <4>2, <4>3 DEF FinishRoot
    <3>2. ASSUME NEW r \in Roots, RemoveFolder(r) PROVE FALSE
      BY <3>2 DEF RemoveFolder
    <3>3. ASSUME NEW t \in Sounds, Bind(t) PROVE FALSE
      BY <3>3 DEF Bind, TypeOK
    <3>4. CASE (\E r \in Roots : AddFolder(r)) \/ DiskChanges \/ Crash \/ UNCHANGED vars
      BY <3>4 DEF AddFolder, DiskChanges, Crash, vars
    <3> QED BY <3>1, <3>2, <3>3, <3>4 DEF Next
  <2>2. r \in Roots
    BY DEF TypeOK
  <2>3. ~ \E l \in located' : l[1] = s
    BY <2>1, <2>2, PublishedRows
  <2>4. ASSUME NEW q \in Roots, Stands(p, q), <<s, q>> \in found[p] PROVE FALSE
    <3>1. <<s, q, generation[p][q]>> \in located
      <4>1. CASE generation[p][q] = scanning[q]
        <5>1. Verified(q, generation[p][q])
          BY <2>4, <4>1 DEF Stands, Verified
        <5>2. Staged(p, q) = Sent(p, q) /\ batch[p] = {}
          BY <5>1 DEF RefreshInv, StagedIsSent, WalkOK
        <5> QED BY <2>4, <5>2 DEF Staged, Sent
      <4>2. CASE generation[p][q] = active[q]
        <5>1. s \in published[q]
          BY <2>4, <4>2 DEF RefreshInv, PublishedIsFound, Stands
        <5>2. s \in Live(q)
          BY <5>1 DEF RefreshInv, RefreshIsAtomic
        <5> QED BY <4>2, <5>2 DEF Live
      <4> QED BY <2>4, <4>1, <4>2 DEF Stands
    <3>2. <<s, q, generation[p][q]>> \in located'
      BY <2>1, <2>2, <3>1, PublishedRows
    <3> QED BY <2>3, <3>2
  <2> QED BY <2>4
<1> QED BY <1>1, RefreshInvariant, PTL DEF Spec, FoundSoundsKeepHotkeys

\* And when it has published all its roots, every active hotkey is one of a
\* listed sound: only rows that are listed are left.
THEOREM OneRefreshReconciles ==
  ASSUME \A p, q \in Refreshes : p = q
  PROVE  Spec => []ReconciledHotkeysAreListed
<1>1. TypeOK /\ RefreshInv => ReconciledHotkeysAreListed
  <2> SUFFICES ASSUME TypeOK, RefreshInv, NEW p \in Refreshes, step[p] = "finish", todo[p] = {},
                      NEW s \in Sounds, binding[s] = "active"
               PROVE  Listed(s)
    BY DEF ReconciledHotkeysAreListed
  <2>1. PICK l \in located : l[1] = s
    BY DEF RefreshInv, FinishOK
  <2>2. l[3] = active[l[2]] /\ l[2] \in roots
    BY DEF RefreshInv, FinishOK, TypeOK, TablesOK
  <2>3. l = <<s, l[2], active[l[2]]>> /\ l[2] \in Roots
    BY <2>1, <2>2 DEF TypeOK
  <2> QED BY <2>2, <2>3 DEF Listed, Live
<1> QED BY <1>1, RefreshInvariant, PTL
=============================================================================
