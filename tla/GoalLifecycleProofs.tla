------------------------- MODULE GoalLifecycleProofs -------------------------
(***************************************************************************)
(* GoalLifecycle for any number of callers, windows, plans and revisions.    *)
(* The invariants need two facts about work in flight: what a launch read is *)
(* still the goal's plan unless the goal moved on to another revision, and   *)
(* the dependencies of an offered task are ready, which is for ever.         *)
(***************************************************************************)
EXTENDS GoalLifecycle, TLAPS

InLaunch == {"link", "check", "mark"}

(* What a launch read is the goal's approved plan, or of an older revision. *)
SnapshotIsApproved ==
    \A c \in Callers :
        /\ call[c].at \in InLaunch =>
              /\ call[c].revision \in 1..goal.revision
              /\ call[c].plan \in Plans
              /\ call[c].revision = goal.revision =>
                    call[c].plan = goal.plan /\ goal.status \notin {"DRAFT", "PLANNED"}
        /\ call[c].at = "link" => call[c].next \in 1..Len(call[c].plan)
        /\ call[c].at = "refresh" => call[c].status \in {"RUNNING", "COMPLETED", "BLOCKED"}

(* Only an approved revision has links, and no later one has. *)
LinksAreApproved ==
    \A l \in links :
        /\ l.revision <= goal.revision
        /\ l.revision = goal.revision => goal.status \notin {"DRAFT", "PLANNED"}

ApprovedHasPlan == goal.status = "APPROVED" => goal.plan \in Plans

(* The candidates of the running tick stay startable. *)
OfferedAfterDependencies ==
    \A l \in offered.rows : \A d \in l.deps : task[l.revision][d] \in Ready

GoalInv ==
    /\ GoalTypeOK
    /\ SnapshotIsApproved
    /\ LinksAreApproved
    /\ ApprovedHasPlan
    /\ LinksFollowPlan
    /\ OfferedAfterDependencies
    /\ ClaimedAfterDependencies

LEMMA PlanRows ==
    ASSUME NEW p \in Plans, NEW n \in 1..Len(p)
    PROVE  /\ p[n] \in PlanItems
           /\ p[n] = [id |-> p[n].id, deps |-> p[n].deps]
           /\ Len(p) \in Nat /\ p # NoPlan
  <1>1. p \in Seq(PlanItems) /\ p # NoPlan
    BY PlanAssumption
  <1>2. p[n] \in PlanItems /\ Len(p) \in Nat
    BY <1>1
  <1> QED BY <1>1, <1>2 DEF PlanItems

(* The fields of a goal row and of a call. *)
LEMMA Fields ==
    ASSUME GoalTypeOK
    PROVE  /\ goal.status \in GoalStatuses /\ goal.revision \in Revisions
           /\ goal.revision \in Nat /\ 1 <= goal.revision /\ goal.revision <= MaxRevision
           /\ goal.plan \in Plans \cup {NoPlan} /\ goal.window \in Windows \cup {NoWindow}
           /\ \A c \in Callers : call[c] \in Calls
           /\ \A c \in Callers : call[c].revision \in Revisions \cup {0}
           /\ \A c \in Callers : call[c].window \in Windows \cup {NoWindow}
  <1>1. goal.status \in GoalStatuses /\ goal.revision \in Revisions
        /\ goal.plan \in Plans \cup {NoPlan} /\ goal.window \in Windows \cup {NoWindow}
    BY DEF GoalTypeOK, GoalRows
  <1>2. goal.revision \in Nat /\ 1 <= goal.revision /\ goal.revision <= MaxRevision
    BY <1>1, GoalBoundAssumption DEF Revisions
  <1>3. \A c \in Callers : call[c] \in Calls
    BY DEF GoalTypeOK
  <1>4. \A c \in Callers : call[c].revision \in Revisions \cup {0} /\ call[c].window \in Windows \cup {NoWindow}
    BY <1>3 DEF Calls
  <1> QED BY <1>1, <1>2, <1>3, <1>4

(* A call that ends leaves this behind. *)
LEMMA IdleIsACall == Idle \in Calls /\ Idle.at = "idle"
  BY DEF Idle, Calls

(* One caller's step leaves the other calls alone. *)
LEMMA OneCall ==
    ASSUME GoalTypeOK, NEW c \in Callers, NEW x \in Calls, call' = [call EXCEPT ![c] = x]
    PROVE  /\ call' \in [Callers -> Calls]
           /\ call'[c] = x
           /\ \A e \in Callers \ {c} : call'[e] = call[e]
  BY DEF GoalTypeOK

(* One task's move to a status keeps the type of all of them. *)
LEMMA OneTask ==
    ASSUME GoalTypeOK, NEW r \in Revisions, NEW i \in PlanTasks, NEW s \in TaskStatuses,
           task' = [task EXCEPT ![r][i] = s], task[r][i] \notin Ready
    PROVE  /\ task' \in [Revisions -> [PlanTasks -> TaskStatuses]]
           /\ \A q \in Revisions, d \in PlanTasks : task[q][d] \in Ready => task'[q][d] \in Ready
  <1>1. task' = [task EXCEPT ![r] = [task[r] EXCEPT ![i] = s]]
    OBVIOUS
  <1>2. [task[r] EXCEPT ![i] = s] \in [PlanTasks -> TaskStatuses]
    BY DEF GoalTypeOK
  <1>3. task' \in [Revisions -> [PlanTasks -> TaskStatuses]]
    BY <1>1, <1>2 DEF GoalTypeOK
  <1>4. ASSUME NEW q \in Revisions, NEW d \in PlanTasks, task[q][d] \in Ready
        PROVE  task'[q][d] = task[q][d]
    BY <1>1, <1>4 DEF GoalTypeOK
  <1> QED BY <1>3, <1>4

LEMMA GoalInit == Init => GoalInv
  <1> SUFFICES ASSUME Init PROVE GoalInv
    OBVIOUS
  <1> USE GoalBoundAssumption
  <1>1. GoalTypeOK
    <2>1. goal \in GoalRows
      BY DEF Init, GoalRows, GoalStatuses, Revisions
    <2>2. task \in [Revisions -> [PlanTasks -> TaskStatuses]]
      BY DEF Init, TaskStatuses
    <2>3. call \in [Callers -> Calls]
      BY IdleIsACall DEF Init
    <2>4. window \in [Windows -> WindowRows]
      <3> DEFINE Fresh == [open : {TRUE}, started : {0}, retries : {0}, allows : Policies, short : {FALSE}]
      <3>1. 0 \in 0..MaxTasks /\ 0 \in 0..MaxRetries
        OBVIOUS
      <3>2. Fresh \subseteq WindowRows
        BY <3>1 DEF WindowRows
      <3>3. window \in [Windows -> Fresh]
        BY DEF Init
      <3> HIDE DEF Fresh
      <3> QED BY <3>2, <3>3
    <2> QED BY <2>1, <2>2, <2>3, <2>4 DEF Init, GoalTypeOK
  <1>2. SnapshotIsApproved
    BY DEF Init, SnapshotIsApproved, Idle, InLaunch
  <1>3. LinksAreApproved /\ ApprovedHasPlan /\ LinksFollowPlan
    BY DEF Init, LinksAreApproved, ApprovedHasPlan, LinksFollowPlan, CurrentLinks
  <1>4. OfferedAfterDependencies /\ ClaimedAfterDependencies
    BY DEF Init, OfferedAfterDependencies, ClaimedAfterDependencies
  <1> QED BY <1>1, <1>2, <1>3, <1>4 DEF GoalInv

(* The steps that change the goal row only: SavePlan, Approve and Amend. *)
LEMMA GoalRowSteps ==
    ASSUME GoalInv, (\E p \in Plans : SavePlan(p)) \/ Approve \/ Amend
    PROVE  GoalInv'
  <1> USE GoalBoundAssumption DEF GoalInv
  <1>0. UNCHANGED <<links, task, window, call, offered, claimed>>
    BY DEF SavePlan, Approve, Amend
  <1>f. goal \in GoalRows
    BY DEF GoalTypeOK
  <1>1. goal' \in GoalRows
    <2>1. CASE \E p \in Plans : SavePlan(p)
      BY <1>f, <2>1 DEF SavePlan, GoalRows, GoalStatuses
    <2>2. CASE Approve
      BY <1>f, <2>2 DEF Approve, GoalRows, GoalStatuses
    <2>3. CASE Amend
      <3>1. goal.revision + 1 \in Revisions
        BY <2>3, Fields DEF Amend, Revisions
      <3> QED BY <1>f, <2>3, <3>1 DEF Amend, GoalRows, GoalStatuses
    <2> QED BY <2>1, <2>2, <2>3
  <1>2. \/ /\ goal'.revision = goal.revision
           /\ goal.status \in {"DRAFT", "PLANNED"}
        \/ goal'.revision = goal.revision + 1
    BY <1>f DEF SavePlan, Approve, Amend, GoalRows
  <1>3. goal.revision \in Nat
    BY Fields
  <1>4. GoalTypeOK'
    BY <1>0, <1>1 DEF GoalTypeOK
  <1>5. SnapshotIsApproved'
    BY <1>0, <1>2, <1>3 DEF SnapshotIsApproved
  <1>l. \A l \in links : l.revision \in Nat /\ l.revision < goal'.revision
    BY <1>2, <1>3, GoalBoundAssumption DEF LinksAreApproved, GoalTypeOK, LinkRows, Revisions
  <1>6. LinksAreApproved' /\ CurrentLinks' = {}
    BY <1>0, <1>1, <1>l DEF LinksAreApproved, CurrentLinks, GoalRows, Revisions
  <1>p. ApprovedHasPlan'
    <2>1. CASE \E p \in Plans : SavePlan(p)
      BY <1>f, <2>1 DEF ApprovedHasPlan, SavePlan, GoalRows
    <2>2. CASE Approve
      BY <1>f, <2>2 DEF ApprovedHasPlan, Approve, GoalRows
    <2>3. CASE Amend
      BY <1>f, <2>3 DEF ApprovedHasPlan, Amend, GoalRows
    <2> QED BY <2>1, <2>2, <2>3
  <1>7. LinksFollowPlan' /\ ApprovedHasPlan'
    BY <1>6, <1>p DEF LinksFollowPlan
  <1>8. OfferedAfterDependencies' /\ ClaimedAfterDependencies'
    BY <1>0 DEF OfferedAfterDependencies, ClaimedAfterDependencies
  <1> QED BY <1>4, <1>5, <1>6, <1>7, <1>8

(* A launch reads the goal, links, reads it again and marks it. *)
LEMMA LaunchSteps ==
    ASSUME GoalInv, NEW c \in Callers, Launching(c)
    PROVE  GoalInv'
  <1> USE DEF GoalInv
  <1>t. /\ goal.revision \in Revisions /\ goal.revision \in Nat
        /\ goal.plan \in Plans \cup {NoPlan} /\ goal.window \in Windows \cup {NoWindow}
    BY Fields
  <1>d. OfferedAfterDependencies' /\ ClaimedAfterDependencies'
    <2>1. UNCHANGED <<offered, claimed>>
      BY DEF Launching, LaunchStart, LaunchLink, Link, LaunchCheck, LaunchMark
    <2>2. \A l \in LinkRows, d \in PlanTasks :
             task[l.revision][d] \in Ready => task'[l.revision][d] \in Ready
      <3>1. CASE LaunchLink(c)
        BY <3>1 DEF LaunchLink, Link, GoalTypeOK, LinkRows, Ready
      <3>2. CASE ~LaunchLink(c)
        BY <3>2 DEF Launching, LaunchStart, LaunchCheck, LaunchMark
      <3> QED BY <3>1, <3>2
    <2>3. /\ \A l \in offered.rows \cup claimed : l \in LinkRows
          /\ \A l \in LinkRows : l.deps \subseteq PlanTasks
      BY DEF GoalTypeOK, LinkRows
    <2> QED BY <2>1, <2>2, <2>3 DEF OfferedAfterDependencies, ClaimedAfterDependencies
  <1>1. CASE \E w \in Windows : LaunchStart(c, w)
    <2> PICK w \in Windows : LaunchStart(c, w)
      BY <1>1
    <2> DEFINE x == [Idle EXCEPT !.at = "link", !.revision = goal.revision,
                                 !.plan = goal.plan, !.window = w, !.next = 1]
    <2>0. /\ UNCHANGED <<goal, links, task, window, offered, claimed>>
          /\ goal.status = "APPROVED"
          /\ call' = [call EXCEPT ![c] = x]
      BY DEF LaunchStart
    <2>1. goal.plan \in Plans
      BY <2>0 DEF ApprovedHasPlan
    <2>2. Len(goal.plan) \in Nat \ {0}
      BY <2>1, PlanAssumption DEF NoPlan
    <2>3. /\ x \in Calls /\ x.at = "link" /\ x.revision = goal.revision
          /\ x.plan = goal.plan /\ x.next = 1
      BY <1>t, <2>1 DEF Calls, Idle
    <2>4. /\ call' \in [Callers -> Calls] /\ call'[c] = x
          /\ \A e \in Callers \ {c} : call'[e] = call[e]
      <3> HIDE DEF x
      <3> QED BY <2>0, <2>3, OneCall
    <2>5. GoalTypeOK'
      BY <2>0, <2>4 DEF GoalTypeOK
    <2>6. SnapshotIsApproved'
      <3> HIDE DEF x
      <3> QED BY <1>t, <2>0, <2>1, <2>2, <2>3, <2>4, Fields DEF SnapshotIsApproved
    <2>7. LinksAreApproved' /\ ApprovedHasPlan' /\ LinksFollowPlan'
      BY <2>0 DEF LinksAreApproved, ApprovedHasPlan, LinksFollowPlan, CurrentLinks
    <2> QED BY <1>d, <2>5, <2>6, <2>7
  <1>2. CASE LaunchLink(c)
    <2> DEFINE row == Row(c, call[c].revision)
    <2>0. /\ call[c].at = "link"
          /\ UNCHANGED <<goal, window, offered, claimed>>
      BY <1>2 DEF LaunchLink, Link
    <2>1. /\ call[c].revision \in 1..goal.revision
          /\ call[c].plan \in Plans
          /\ call[c].next \in 1..Len(call[c].plan)
          /\ call[c].revision = goal.revision =>
                call[c].plan = goal.plan /\ goal.status \notin {"DRAFT", "PLANNED"}
      BY <2>0 DEF SnapshotIsApproved, InLaunch
    <2>2. call[c].revision \in Revisions
      BY <1>t, <2>1, GoalBoundAssumption DEF Revisions
    <2>3. /\ row \in LinkRows
          /\ call[c].plan[row.seq] = [id |-> row.id, deps |-> row.deps]
          /\ row.seq = call[c].next /\ row.revision = call[c].revision
          /\ Len(call[c].plan) \in Nat
      BY <2>1, <2>2, PlanRows DEF Row, LinkRows, PlanItems
    <2>4. links' \subseteq links \cup {row}
      BY <1>2 DEF LaunchLink, Link
    <2>5. GoalTypeOK'
      <3>1. task' \in [Revisions -> [PlanTasks -> TaskStatuses]]
        <4>1. row.revision \in Revisions /\ row.id \in PlanTasks
          BY <2>3 DEF LinkRows
        <4>2. \E s \in TaskStatuses : task' = [task EXCEPT ![row.revision][row.id] = s]
          <5>1. task' = [task EXCEPT ![row.revision][row.id] = IF @ = "none" THEN "QUEUED" ELSE @]
            BY <1>2 DEF LaunchLink, Link
          <5>2. task[row.revision][row.id] \in TaskStatuses /\ "QUEUED" \in TaskStatuses
            <6> HIDE DEF row
            <6> QED BY <4>1 DEF GoalTypeOK, TaskStatuses, Claimable
          <5>3. PICK s \in TaskStatuses :
                   s = IF task[row.revision][row.id] = "none" THEN "QUEUED" ELSE task[row.revision][row.id]
            BY <5>2
          <5> HIDE DEF row
          <5> QED BY <5>1, <5>3
        <4> HIDE DEF row
        <4> QED BY <4>1, <4>2 DEF GoalTypeOK
      <3>2. call' \in [Callers -> Calls]
        <4>1. call[c] \in Calls
          BY Fields
        <4>2. PICK x : /\ x = [call[c] EXCEPT !.next = @ + 1,
                                  !.at = IF call[c].next = Len(call[c].plan) THEN "check" ELSE @]
                       /\ call' = [call EXCEPT ![c] = x]
          BY <1>2 DEF LaunchLink, Link, GoalTypeOK
        <4>3. x \in Calls
          <5>1. PICK a \in {"check", call[c].at} : x = [call[c] EXCEPT !.next = @ + 1, !.at = a]
            BY <4>2
          <5>2. /\ a \in {"idle", "link", "check", "mark", "refresh"}
                /\ call[c].next + 1 \in Nat
            <6>1. call[c].at \in {"idle", "link", "check", "mark", "refresh"} /\ call[c].next \in Nat
              BY <4>1 DEF Calls
            <6> QED BY <6>1
          <5> QED BY <4>1, <5>1, <5>2 DEF Calls
        <4> QED BY <4>2, <4>3, OneCall
      <3>3. links' \subseteq LinkRows
        BY <2>3, <2>4 DEF GoalTypeOK
      <3> QED BY <2>0, <3>1, <3>2, <3>3 DEF GoalTypeOK
    <2>6. SnapshotIsApproved'
      <3> SUFFICES ASSUME NEW e \in Callers
                   PROVE  /\ call'[e].at \in InLaunch =>
                                /\ call'[e].revision \in 1..goal'.revision
                                /\ call'[e].plan \in Plans
                                /\ call'[e].revision = goal'.revision =>
                                      call'[e].plan = goal'.plan /\ goal'.status \notin {"DRAFT", "PLANNED"}
                          /\ call'[e].at = "link" => call'[e].next \in 1..Len(call'[e].plan)
                          /\ call'[e].at = "refresh" => call'[e].status \in {"RUNNING", "COMPLETED", "BLOCKED"}
        BY DEF SnapshotIsApproved
      <3>1. CASE e # c
        <4>1. call'[e] = call[e]
          BY <1>2, <3>1 DEF LaunchLink, Link, GoalTypeOK
        <4> QED BY <2>0, <4>1 DEF SnapshotIsApproved
      <3>2. CASE e = c
        <4>1. /\ call'[c].at = IF call[c].next = Len(call[c].plan) THEN "check" ELSE "link"
              /\ call'[c].next = call[c].next + 1
              /\ call'[c].plan = call[c].plan /\ call'[c].revision = call[c].revision
          BY <1>2, <2>0 DEF LaunchLink, Link, GoalTypeOK
        <4>2. call'[c].at = "link" => call'[c].next \in 1..Len(call'[c].plan)
          BY <2>1, <2>3, <4>1
        <4> QED BY <2>0, <2>1, <3>2, <4>1, <4>2 DEF InLaunch
      <3> QED BY <3>1, <3>2
    <2>7. LinksAreApproved'
      BY <1>t, <2>0, <2>1, <2>3, <2>4 DEF LinksAreApproved
    <2>8. LinksFollowPlan'
      <3> SUFFICES ASSUME NEW l \in links', l.revision = goal.revision
                   PROVE  l.seq <= Len(goal.plan) /\ goal.plan[l.seq] = [id |-> l.id, deps |-> l.deps]
        BY <2>0 DEF LinksFollowPlan, CurrentLinks
      <3>1. CASE l \in links
        BY <3>1 DEF LinksFollowPlan, CurrentLinks
      <3>2. CASE l = row
        <4> HIDE DEF row
        <4> QED BY <2>1, <2>3, <3>2
      <3> QED BY <2>4, <3>1, <3>2
    <2>9. ApprovedHasPlan'
      BY <2>0 DEF ApprovedHasPlan
    <2> QED BY <1>d, <2>5, <2>6, <2>7, <2>8, <2>9
  <1>3. CASE LaunchCheck(c)
    <2>0. UNCHANGED <<goal, links, task, window, offered, claimed>>
      BY <1>3 DEF LaunchCheck
    <2>1. PICK x \in {Idle, [call[c] EXCEPT !.at = "mark"]} : call' = [call EXCEPT ![c] = x]
      BY <1>3 DEF LaunchCheck
    <2>x. /\ x \in Calls
          /\ x.at # "link" /\ x.at # "refresh"
          /\ x.at \in InLaunch => x.plan = call[c].plan /\ x.revision = call[c].revision
      <3>1. CASE x = Idle
        BY <3>1, IdleIsACall DEF InLaunch
      <3>2. CASE x = [call[c] EXCEPT !.at = "mark"]
        <4>1. call[c] \in Calls
          BY Fields
        <4>2. /\ x \in Calls /\ x.at = "mark"
              /\ x.plan = call[c].plan /\ x.revision = call[c].revision
          BY <3>2, <4>1 DEF Calls
        <4> QED
          BY <4>2
      <3> QED
        BY <3>1, <3>2
    <2>y. /\ call' \in [Callers -> Calls] /\ call'[c] = x
          /\ \A e \in Callers \ {c} : call'[e] = call[e]
      BY <2>1, <2>x, OneCall
    <2>2. GoalTypeOK'
      BY <2>0, <2>y DEF GoalTypeOK
    <2>3. SnapshotIsApproved'
      BY <1>3, <2>0, <2>x, <2>y DEF LaunchCheck, SnapshotIsApproved, InLaunch
    <2>4. LinksAreApproved' /\ ApprovedHasPlan' /\ LinksFollowPlan'
      BY <2>0 DEF LinksAreApproved, ApprovedHasPlan, LinksFollowPlan, CurrentLinks
    <2> QED BY <1>d, <2>2, <2>3, <2>4
  <1>4. CASE LaunchMark(c)
    <2>0. UNCHANGED <<links, task, window, offered, claimed>>
      BY <1>4 DEF LaunchMark
    <2>1. goal' = goal \/ (/\ goal.status = "APPROVED"
                          /\ goal' = [goal EXCEPT !.status = "RUNNING", !.window = call[c].window])
      BY <1>4 DEF LaunchMark
    <2>2. PICK x \in {Idle, [Idle EXCEPT !.answer = "refused", !.revision = call[c].revision]} :
             call' = [call EXCEPT ![c] = x]
      BY <1>4 DEF LaunchMark
    <2>3. x \in Calls /\ x.at = "idle"
      BY Fields, IdleIsACall DEF Calls, Idle
    <2>y. /\ call' \in [Callers -> Calls] /\ call'[c] = x
          /\ \A e \in Callers \ {c} : call'[e] = call[e]
      BY <2>2, <2>3, OneCall
    <2>5. /\ goal' \in GoalRows
          /\ goal'.revision = goal.revision /\ goal'.plan = goal.plan
          /\ goal'.status \in {goal.status, "RUNNING"}
      BY <2>1, Fields DEF GoalTypeOK, GoalRows, GoalStatuses
    <2>4. GoalTypeOK'
      BY <2>0, <2>5, <2>y DEF GoalTypeOK
    <2>6. SnapshotIsApproved'
      BY <2>3, <2>5, <2>y DEF SnapshotIsApproved, InLaunch
    <2>7. LinksAreApproved' /\ ApprovedHasPlan' /\ LinksFollowPlan'
      BY <2>0, <2>5 DEF LinksAreApproved, ApprovedHasPlan, LinksFollowPlan, CurrentLinks
    <2> QED BY <1>d, <2>4, <2>6, <2>7
  <1> QED BY <1>1, <1>2, <1>3, <1>4 DEF Launching

(* A refresh writes a status no row derives DRAFT, PLANNED or APPROVED from. *)
LEMMA RefreshSteps ==
    ASSUME GoalInv, NEW c \in Callers, Refreshing(c) \/ CallDies(c)
    PROVE  GoalInv'
  <1> USE DEF GoalInv
  <1>0. UNCHANGED <<links, task, window, offered, claimed>>
    BY DEF Refreshing, RefreshRead, RefreshWrite, CallDies
  <1>1. \/ goal' = goal
        \/ \E s \in {"RUNNING", "COMPLETED", "BLOCKED"} : goal' = [goal EXCEPT !.status = s]
    BY DEF Refreshing, RefreshRead, RefreshWrite, CallDies, SnapshotIsApproved
  <1>2. PICK x \in {Idle, [Idle EXCEPT !.at = "refresh", !.status = DerivedStatus]} :
           call' = [call EXCEPT ![c] = x]
    BY DEF Refreshing, RefreshRead, RefreshWrite, CallDies
  <1>x. x \in Calls /\ x.at \notin InLaunch
        /\ (x.at = "refresh" => x.status \in {"RUNNING", "COMPLETED", "BLOCKED"})
    <2>1. DerivedStatus \in {"RUNNING", "COMPLETED", "BLOCKED"}
      BY DEF DerivedStatus
    <2> QED BY <2>1, IdleIsACall DEF Calls, Idle, GoalStatuses, InLaunch
  <1>y. /\ call' \in [Callers -> Calls] /\ call'[c] = x
        /\ \A e \in Callers \ {c} : call'[e] = call[e]
    BY <1>2, <1>x, OneCall
  <1>4. /\ goal' \in GoalRows
        /\ goal'.revision = goal.revision /\ goal'.plan = goal.plan
        /\ goal'.status \in {goal.status, "RUNNING", "COMPLETED", "BLOCKED"}
    BY <1>1 DEF GoalTypeOK, GoalRows, GoalStatuses
  <1>3. GoalTypeOK'
    BY <1>0, <1>4, <1>y DEF GoalTypeOK
  <1>5. SnapshotIsApproved'
    BY <1>4, <1>x, <1>y DEF SnapshotIsApproved, InLaunch
  <1>6. LinksAreApproved' /\ ApprovedHasPlan' /\ LinksFollowPlan'
    BY <1>0, <1>4 DEF LinksAreApproved, ApprovedHasPlan, LinksFollowPlan, CurrentLinks
  <1>7. OfferedAfterDependencies' /\ ClaimedAfterDependencies'
    BY <1>0 DEF OfferedAfterDependencies, ClaimedAfterDependencies
  <1> QED BY <1>3, <1>5, <1>6, <1>7

(* A window row that changes within its type keeps all of them in theirs. *)
LEMMA OneWindow ==
    ASSUME GoalTypeOK, NEW w \in Windows, NEW x \in WindowRows, window' = [window EXCEPT ![w] = x]
    PROVE  window' \in [Windows -> WindowRows]
  BY DEF GoalTypeOK

(* The tick offers and claims only what is unblocked, and pays for it. *)
LEMMA TickSteps ==
    ASSUME GoalInv, TickRead \/ \E l \in offered.rows : TickClaim(l) \/ TickRefuse(l)
    PROVE  GoalInv'
  <1> USE DEF GoalInv
  <1>0. UNCHANGED <<goal, links, call>>
    BY DEF TickRead, TickClaim, TickRefuse
  <1>1. SnapshotIsApproved' /\ LinksAreApproved' /\ ApprovedHasPlan' /\ LinksFollowPlan'
    BY <1>0 DEF SnapshotIsApproved, LinksAreApproved, ApprovedHasPlan, LinksFollowPlan, CurrentLinks
  <1>2. CASE TickRead
    <2>1. runnable_tasks \subseteq links
      BY DEF runnable_tasks, ClaimableLinks, CurrentLinks
    <2>2. GoalTypeOK'
      BY <1>0, <1>2, <2>1, Fields DEF TickRead, GoalTypeOK
    <2>3. \A l \in runnable_tasks : \A d \in l.deps : task[l.revision][d] \in Ready
      BY DEF runnable_tasks, ClaimableLinks, CurrentLinks, Unblocked, StatusOf
    <2>4. OfferedAfterDependencies' /\ ClaimedAfterDependencies'
      BY <1>2, <2>3 DEF TickRead, OfferedAfterDependencies, ClaimedAfterDependencies
    <2> QED BY <1>1, <2>2, <2>4
  <1>3. ASSUME NEW l \in offered.rows, TickClaim(l) PROVE GoalInv'
    <2>1. l \in LinkRows /\ l.revision \in Revisions /\ l.id \in PlanTasks
      BY DEF GoalTypeOK, LinkRows
    <2>2. /\ offered' = [offered EXCEPT !.rows = @ \ {l}]
          /\ claimed' = claimed \cup {l}
          /\ task[l.revision][l.id] \in Claimable
          /\ task' = [task EXCEPT ![l.revision][l.id] = "LIVE"]
      BY <1>3 DEF TickClaim, Admits, StatusOf
    <2>3. /\ task' \in [Revisions -> [PlanTasks -> TaskStatuses]]
          /\ \A r \in Revisions, d \in PlanTasks : task[r][d] \in Ready => task'[r][d] \in Ready
      <3>1. "LIVE" \in TaskStatuses /\ task[l.revision][l.id] \notin Ready
        BY <2>2 DEF TaskStatuses, Claimable, Ready
      <3> QED BY <2>1, <2>2, <3>1, OneTask
    <2>4. window' \in [Windows -> WindowRows]
      <3> DEFINE w == offered.window
      <3>1. w \in Windows /\ window[w] \in WindowRows /\ ~Exhausted(w, l)
        BY <1>3 DEF TickClaim, Admits, Allowed, Active, GoalTypeOK
      <3>2. window' = [window EXCEPT ![w] = Charged(window[w], l)]
        BY <1>3 DEF TickClaim
      <3>3. /\ window[w].retries \in 0..MaxRetries /\ window[w].started \in 0..MaxTasks
        BY <3>1 DEF WindowRows
      <3>4. CASE StatusOf(l) = "INTERRUPTED"
        <4>1. window[w].retries + 1 \in 0..MaxRetries
          BY <3>1, <3>3, <3>4, GoalBoundAssumption DEF Exhausted
        <4>2. Charged(window[w], l) \in WindowRows
          BY <3>1, <3>4, <4>1 DEF Charged, WindowRows
        <4> HIDE DEF w
        <4> QED BY <3>1, <3>2, <4>2, OneWindow
      <3>5. CASE StatusOf(l) # "INTERRUPTED"
        <4>1. window[w].started + 1 \in 0..MaxTasks
          BY <3>1, <3>3, <3>5, GoalBoundAssumption DEF Exhausted
        <4>2. Charged(window[w], l) \in WindowRows
          BY <3>1, <3>5, <4>1 DEF Charged, WindowRows
        <4> HIDE DEF w
        <4> QED BY <3>1, <3>2, <4>2, OneWindow
      <3> QED BY <3>4, <3>5
    <2>5. GoalTypeOK'
      BY <1>0, <2>1, <2>2, <2>3, <2>4 DEF GoalTypeOK
    <2>6. \A k \in offered.rows \cup claimed : k.revision \in Revisions /\ k.deps \subseteq PlanTasks
      BY DEF GoalTypeOK, LinkRows
    <2>7. offered'.rows \subseteq offered.rows
      BY <2>2 DEF GoalTypeOK
    <2>8. OfferedAfterDependencies' /\ ClaimedAfterDependencies'
      BY <2>2, <2>3, <2>6, <2>7 DEF OfferedAfterDependencies, ClaimedAfterDependencies
    <2> QED BY <1>1, <2>5, <2>8
  <1>4. ASSUME NEW l \in offered.rows, TickRefuse(l) PROVE GoalInv'
    <2>1. UNCHANGED <<task, window, claimed>> /\ offered'.rows \subseteq offered.rows
      BY <1>4 DEF TickRefuse, GoalTypeOK
    <2>2. GoalTypeOK'
      BY <1>0, <1>4, <2>1 DEF TickRefuse, GoalTypeOK
    <2>3. OfferedAfterDependencies' /\ ClaimedAfterDependencies'
      BY <2>1 DEF OfferedAfterDependencies, ClaimedAfterDependencies
    <2> QED BY <1>1, <2>2, <2>3
  <1> QED BY <1>2, <1>3, <1>4

(* Tasks move, but never away from a ready status; windows close or run short. *)
LEMMA EnvironmentSteps ==
    ASSUME GoalInv,
           \/ \E r \in Revisions, i \in PlanTasks : TaskMoves(r, i)
           \/ \E w \in Windows : CloseWindow(w) \/ UnitsMove(w)
    PROVE  GoalInv'
  <1> USE DEF GoalInv
  <1>0. UNCHANGED <<goal, links, call, offered, claimed>>
    BY DEF TaskMoves, Settle, Interrupt, Execute, Cancel, Moves, CloseWindow, UnitsMove
  <1>1. SnapshotIsApproved' /\ LinksAreApproved' /\ ApprovedHasPlan' /\ LinksFollowPlan'
    BY <1>0 DEF SnapshotIsApproved, LinksAreApproved, ApprovedHasPlan, LinksFollowPlan, CurrentLinks
  <1>2. window' \in [Windows -> WindowRows]
    <2>1. CASE \E r \in Revisions, i \in PlanTasks : TaskMoves(r, i)
      BY <2>1 DEF TaskMoves, Settle, Interrupt, Execute, Cancel, Moves, GoalTypeOK
    <2>2. ASSUME NEW w \in Windows, CloseWindow(w) \/ UnitsMove(w)
          PROVE  window' \in [Windows -> WindowRows]
      <3>1. window[w] \in WindowRows
        BY DEF GoalTypeOK
      <3>2. \/ window' = [window EXCEPT ![w] = [window[w] EXCEPT !.open = FALSE]]
            \/ window' = [window EXCEPT ![w] = [window[w] EXCEPT !.short = ~@]]
        BY <2>2 DEF CloseWindow, UnitsMove, GoalTypeOK
      <3>3. /\ [window[w] EXCEPT !.open = FALSE] \in WindowRows
            /\ [window[w] EXCEPT !.short = ~@] \in WindowRows
        BY <3>1 DEF WindowRows
      <3> QED BY <3>2, <3>3, OneWindow
    <2> QED BY <2>1, <2>2
  <1>4. /\ task' \in [Revisions -> [PlanTasks -> TaskStatuses]]
        /\ \A r \in Revisions, d \in PlanTasks : task[r][d] \in Ready => task'[r][d] \in Ready
    <2>1. CASE \E w \in Windows : CloseWindow(w) \/ UnitsMove(w)
      BY <2>1 DEF CloseWindow, UnitsMove, GoalTypeOK
    <2>2. CASE \E r \in Revisions, i \in PlanTasks : TaskMoves(r, i)
      <3> PICK r \in Revisions, i \in PlanTasks : TaskMoves(r, i)
        BY <2>2
      <3>1. \E s \in TaskStatuses : task' = [task EXCEPT ![r][i] = s]
        BY DEF TaskMoves, Settle, Interrupt, Execute, Cancel, Moves, TaskStatuses, Claimable,
               Settled, Ready, Failed
      <3>2. task[r][i] \notin Ready
        BY DEF TaskMoves, Settle, Interrupt, Execute, Cancel, Moves, Claimable, Ready
      <3> QED BY <3>1, <3>2, OneTask
    <2> QED BY <2>1, <2>2
  <1>3. GoalTypeOK'
    BY <1>0, <1>2, <1>4 DEF GoalTypeOK
  <1>5. \A k \in offered.rows \cup claimed : k.revision \in Revisions /\ k.deps \subseteq PlanTasks
    BY DEF GoalTypeOK, LinkRows
  <1>6. OfferedAfterDependencies' /\ ClaimedAfterDependencies'
    BY <1>0, <1>4, <1>5 DEF OfferedAfterDependencies, ClaimedAfterDependencies
  <1> QED BY <1>1, <1>3, <1>6

-----------------------------------------------------------------------------
(* GoalInv is an invariant of goals, links and calls. *)
THEOREM GoalInvariant == GoalSpec => []GoalInv
  <1>1. GoalInv /\ [Next]_vars => GoalInv'
    <2> SUFFICES ASSUME GoalInv, [Next]_vars PROVE GoalInv'
      OBVIOUS
    <2>1. CASE UNCHANGED vars
      BY <2>1 DEF vars, GoalInv, GoalTypeOK, SnapshotIsApproved, LinksAreApproved, ApprovedHasPlan,
                  LinksFollowPlan, CurrentLinks, OfferedAfterDependencies, ClaimedAfterDependencies
    <2>2. CASE (\E p \in Plans : SavePlan(p)) \/ Approve \/ Amend
      BY <2>2, GoalRowSteps
    <2>3. CASE \E c \in Callers : Launching(c) \/ Refreshing(c) \/ CallDies(c)
      BY <2>3, LaunchSteps, RefreshSteps
    <2>4. CASE TickRead \/ \E l \in offered.rows : TickClaim(l) \/ TickRefuse(l)
      BY <2>4, TickSteps
    <2>5. CASE \/ \E r \in Revisions, i \in PlanTasks : TaskMoves(r, i)
               \/ \E w \in Windows : CloseWindow(w) \/ UnitsMove(w)
      BY <2>5, EnvironmentSteps
    <2> QED BY <2>1, <2>2, <2>3, <2>4, <2>5 DEF Next
  <1> QED BY GoalInit, <1>1, PTL DEF GoalSpec

(* The goal row, the link rows and the calls keep their types. *)
THEOREM GoalTypeCorrect == GoalSpec => []GoalTypeOK
  BY GoalInvariant, PTL DEF GoalInv

(* runnable_tasks and the claim never start a task before its dependencies. *)
THEOREM DependenciesFirst == GoalSpec => []ClaimedAfterDependencies
  BY GoalInvariant, PTL DEF GoalInv

(* Whatever launches are in flight, the links of a revision are its plan's. *)
THEOREM LinksAreOfThePlan == GoalSpec => []LinksFollowPlan
  BY GoalInvariant, PTL DEF GoalInv

(* No request replaces an approved plan within its revision. *)
THEOREM ApprovedPlanStays == GoalSpec => ApprovedPlanIsFinal
  <1>1. GoalInv /\ [Next]_vars =>
          [goal.status \notin {"DRAFT", "PLANNED"} /\ goal'.revision = goal.revision
             => goal'.plan = goal.plan]_vars
    <2> SUFFICES ASSUME GoalInv, Next, goal.status \notin {"DRAFT", "PLANNED"},
                        goal'.revision = goal.revision
                 PROVE  goal'.plan = goal.plan
      OBVIOUS
    <2>1. goal.revision \in Nat
      BY Fields DEF GoalInv
    <2>2. ~Amend
      <3>1. Amend => goal'.revision = goal.revision + 1
        BY DEF Amend, GoalInv, GoalTypeOK, GoalRows
      <3> QED BY <2>1, <3>1
    <2> QED
      BY <2>2 DEF Next, SavePlan, Approve, Launching, LaunchStart, LaunchLink, Link, LaunchCheck,
                  LaunchMark, Refreshing, RefreshRead, RefreshWrite, CallDies, TickRead, TickClaim, TickRefuse,
                  TaskMoves, Settle, Interrupt, Execute, Cancel, Moves, CloseWindow, UnitsMove, GoalInv, GoalTypeOK, GoalRows
  <1> QED BY GoalInvariant, <1>1, PTL DEF GoalSpec, ApprovedPlanIsFinal
=============================================================================
