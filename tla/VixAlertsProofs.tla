--------------------------- MODULE VixAlertsProofs ---------------------------
(***************************************************************************)
(* Proofs about VixAlerts, for any rules, chats, markets, scans, commands  *)
(* and days, and for both times of day at which the model may start.       *)
(***************************************************************************)
EXTENDS VixAlerts, TLAPS

(***************************************************************************)
(* Types.                                                                  *)
(***************************************************************************)
LEMMA FirstDay == 1 \in Days
BY DaysPositive DEF Days

LEMMA IdleTypes == IdleScan \in ScanState /\ IdleCommand \in CommandState
<1>1. (CHOOSE ch \in Chats : TRUE) \in Chats
    BY ChatOfType
<1>2. QED
    BY <1>1, FirstDay DEF IdleScan, IdleCommand, ScanState, CommandState, Quote, Lists, Empty

\* The histories keep counting up to two.
LEMMA CountedType ==
    ASSUME NEW count \in [RuleIds -> [Days -> 0..2]], NEW rs, NEW day
    PROVE  /\ Counted(count, rs, day) \in [RuleIds -> [Days -> 0..2]]
           /\ \A r \in RuleIds, d \in Days : Counted(count, rs, day)[r][d] =
                 IF r \in rs /\ d = day /\ count[r][d] < 2 THEN count[r][d] + 1 ELSE count[r][d]
BY DEF Counted

LEMMA ScanReplaced ==
    ASSUME TypeOK, NEW c \in Scans, NEW st \in ScanState
    PROVE  [scan EXCEPT ![c] = st] \in [Scans -> ScanState]
BY DEF TypeOK

LEMMA EditType ==
    ASSUME TypeOK, NEW k \in Commands, NEW ch \in Chats, NEW drop \in SUBSET RuleIds, NEW list \in Lists,
           Edit(k, ch, drop, list)
    PROVE  TypeOK'
<1>1. [r \in RuleIds |-> IF ChatOf[r] = ch THEN list[r] ELSE NoRule] \in Lists
    BY DEF Lists
<1>2. [pc |-> IF drop = {} THEN "saving" ELSE "deleting", chat |-> ch, drop |-> drop,
       list |-> [r \in RuleIds |-> IF ChatOf[r] = ch THEN list[r] ELSE NoRule]] \in CommandState
    BY <1>1 DEF CommandState
<1>3. QED
    BY <1>2 DEF TypeOK, Edit, store

LEMMA TypeStep == TypeOK /\ ScansCoherent /\ [Next]_vars => TypeOK'
<1> SUFFICES ASSUME TypeOK, ScansCoherent, [Next]_vars
             PROVE  TypeOK'
    OBVIOUS
<1>0. /\ scan \in [Scans -> ScanState] /\ command \in [Commands -> CommandState]
      /\ \A c \in Scans : scan[c] \in ScanState
    BY DEF TypeOK
<1>a. alerts \in [RuleIds -> [Days -> 0..2]] /\ reports \in [RuleIds -> [Days -> 0..2]]
    BY DEF TypeOK
<1>b. clock \in [day : Days, evening : BOOLEAN]
    BY DEF TypeOK
<1>1. ASSUME NEW c \in Scans, NEW market \in Markets, ScanStart(c, market)
      PROVE  TypeOK'
    <2>1. [day |-> clock.day, hot |-> market.hot, low |-> market.low] \in Quote
        BY MarketsType DEF TypeOK, Quote
    <2>2. [IdleScan EXCEPT !.pc = "closing",
                           !.quote = [day |-> clock.day, hot |-> market.hot, low |-> market.low],
                           !.todo = {r \in RuleIds : positions[r] # NoPosition}] \in ScanState
        BY <2>1, IdleTypes DEF ScanState, IdleScan
    <2>3. closes' \subseteq Days
        BY <1>1 DEF ScanStart, TypeOK
    <2>4. QED
        BY <1>1, <2>2, <2>3 DEF ScanStart, TypeOK
<1>2. ASSUME NEW c \in Scans, NEW r \in RuleIds, ScanKeep(c, r)
      PROVE  TypeOK'
    <2>1. scan' \in [Scans -> ScanState]
        BY <1>2, <1>0, IdleTypes DEF ScanKeep, ScanState
    <2>2. QED
        BY <1>2, <2>1 DEF ScanKeep, TypeOK, store
<1>3. ASSUME NEW c \in Scans, NEW r \in RuleIds, ScanReport(c, r)
      PROVE  TypeOK'
    <2>1. reports' \in [RuleIds -> [Days -> 0..2]]
        <3>1. Counted(reports, {r}, positions[r].day) \in [RuleIds -> [Days -> 0..2]]
            BY <1>a, CountedType
        <3>2. QED
            BY <1>3, <1>a, <3>1 DEF ScanReport
    <2>2. scan' \in [Scans -> ScanState]
        <3>1. /\ [scan[c] EXCEPT !.pc = "deleting", !.batch = {r}, !.todo = @ \ {r}] \in ScanState
              /\ [scan[c] EXCEPT !.todo = @ \ {r}] \in ScanState
            BY <1>0 DEF ScanState
        <3>2. \/ scan' = [scan EXCEPT ![c] = [scan[c] EXCEPT !.pc = "deleting", !.batch = {r}, !.todo = @ \ {r}]]
              \/ scan' = [scan EXCEPT ![c] = [scan[c] EXCEPT !.todo = @ \ {r}]]
            BY <1>3, <1>0 DEF ScanReport
        <3>3. QED
            BY <1>0, <3>1, <3>2
    <2>3. faults' \subseteq FaultKinds \X RuleIds
        BY <1>3 DEF ScanReport, TypeOK, Fault, FaultKinds
    <2>4. QED
        BY <1>3, <2>1, <2>2, <2>3 DEF ScanReport, TypeOK, store
<1>4. ASSUME NEW c \in Scans, ScanDelete(c)
      PROVE  TypeOK'
    <2>1. faults' \subseteq FaultKinds \X RuleIds
        BY <1>4 DEF ScanDelete, TypeOK, Fault, FaultKinds, ScanState
    <2>2. scan' \in [Scans -> ScanState]
        BY <1>4, <1>0 DEF ScanDelete, ScanState
    <2>3. QED
        BY <1>4, <2>1, <2>2 DEF ScanDelete, TypeOK
<1>5. ASSUME NEW c \in Scans, ScanLoad(c)
      PROVE  TypeOK'
    <2>1. scan' \in [Scans -> ScanState]
        <3>1. [r \in RuleIds |-> IF rules[r] # NoRule /\ rules[r].cond \in scan[c].quote.hot THEN rules[r] ELSE NoRule]
                 \in Lists
            BY DEF TypeOK, Lists
        <3>2. QED
            BY <1>5, <1>0, <3>1 DEF ScanLoad, ScanState
    <2>2. QED
        BY <1>5, <2>1 DEF ScanLoad, TypeOK, store
<1>6. ASSUME NEW c \in Scans, NEW r \in RuleIds, ScanCheck(c, r)
      PROVE  TypeOK'
    <2>1. scan' \in [Scans -> ScanState]
        BY <1>6, <1>0 DEF ScanCheck, ScanState
    <2>2. QED
        BY <1>6, <2>1 DEF ScanCheck, TypeOK, store
<1>7. ASSUME NEW c \in Scans, NEW ch \in Chats, ScanChat(c, ch)
      PROVE  TypeOK'
    <2>1. scan' \in [Scans -> ScanState]
        BY <1>7, <1>0 DEF ScanChat, ScanState
    <2>2. QED
        BY <1>7, <2>1 DEF ScanChat, TypeOK, store
<1>8. ASSUME NEW c \in Scans, NEW r \in RuleIds, ScanClaim(c, r)
      PROVE  TypeOK'
    <2>1. <<r, scan[c].quote.day>> \in RuleIds \X Days
        BY DEF TypeOK, ScanState, Quote
    <2>2. scan' \in [Scans -> ScanState]
        BY <1>8, <1>0 DEF ScanClaim, ScanState
    <2>3. QED
        BY <1>8, <2>1, <2>2 DEF ScanClaim, TypeOK
<1>9. ASSUME NEW c \in Scans, ScanNothingClaimed(c)
      PROVE  TypeOK'
    <2>1. scan' \in [Scans -> ScanState]
        BY <1>9, <1>0 DEF ScanNothingClaimed, ScanState
    <2>2. QED
        BY <1>9, <2>1 DEF ScanNothingClaimed, TypeOK, store
<1>10. ASSUME NEW c \in Scans, ScanSend(c)
      PROVE  TypeOK'
    <2>1. alerts' \in [RuleIds -> [Days -> 0..2]]
        <3>1. Counted(alerts, scan[c].batch, scan[c].quote.day) \in [RuleIds -> [Days -> 0..2]]
            BY <1>a, CountedType
        <3>2. QED
            BY <1>10, <1>a, <3>1 DEF ScanSend
    <2>2. faults' \subseteq FaultKinds \X RuleIds
        BY <1>10 DEF ScanSend, TypeOK, Fault, FaultKinds, ScanState
    <2>3. scan' \in [Scans -> ScanState]
        BY <1>10, <1>0 DEF ScanSend, ScanState
    <2>4. QED
        BY <1>10, <2>1, <2>2, <2>3 DEF ScanSend, TypeOK, store
<1>11. ASSUME NEW c \in Scans, NEW r \in RuleIds, ScanRelease(c, r)
      PROVE  TypeOK'
    <2>1. faults' \subseteq FaultKinds \X RuleIds
        BY <1>11 DEF ScanRelease, TypeOK, Fault, FaultKinds
    <2>2. scan' \in [Scans -> ScanState]
        BY <1>11, <1>0 DEF ScanRelease, Handled, ScanState
    <2>3. QED
        BY <1>11, <2>1, <2>2 DEF ScanRelease, TypeOK
<1>12. ASSUME NEW c \in Scans, NEW r \in RuleIds, ScanOpen(c, r)
      PROVE  TypeOK'
    <2>1. scan[c].list[r] \in Rule
        BY <1>12 DEF ScanOpen, ScansCoherent, Coherent, TypeOK, ScanState, Lists
    <2>2. [day |-> scan[c].quote.day, cond |-> scan[c].list[r].cond, exit |-> scan[c].list[r].exit] \in Position
        BY <2>1 DEF TypeOK, ScanState, Quote, Rule, Position
    <2>3. scan' \in [Scans -> ScanState]
        BY <1>12, <1>0 DEF ScanOpen, Handled, ScanState
    <2>4. QED
        BY <1>12, <2>2, <2>3 DEF ScanOpen, TypeOK
<1>13. ASSUME NEW c \in Scans, ScanEnd(c)
      PROVE  TypeOK'
    BY <1>13, IdleTypes DEF ScanEnd, TypeOK, store
<1>14. ASSUME NEW c \in Scans, ScanAbort(c)
      PROVE  TypeOK'
    <2>1. faults' \subseteq FaultKinds \X RuleIds
        BY <1>14 DEF ScanAbort, TypeOK, Fault, FaultKinds, ScanState
    <2>2. QED
        BY <1>14, <2>1, IdleTypes DEF ScanAbort, TypeOK, store
<1>15. ASSUME NEW k \in Commands, NEW r \in RuleIds, NEW rule \in Rule, AddRule(k, r, rule) \/ ModifyRule(k, r, rule)
      PROVE  TypeOK'
    <2>1. [rules EXCEPT ![r] = rule] \in Lists /\ ChatOf[r] \in Chats
        BY ChatOfType DEF TypeOK, Lists
    <2>2. QED
        BY <1>15, <2>1, EditType DEF AddRule, ModifyRule
<1>16. ASSUME NEW k \in Commands, NEW r \in RuleIds, RemoveRule(k, r)
      PROVE  TypeOK'
    <2>1. [rules EXCEPT ![r] = NoRule] \in Lists /\ ChatOf[r] \in Chats
        BY ChatOfType DEF TypeOK, Lists
    <2>2. QED
        BY <1>16, <2>1, EditType DEF RemoveRule
<1>17. ASSUME NEW k \in Commands, NEW ch \in Chats, RemoveAll(k, ch)
      PROVE  TypeOK'
    BY <1>17, EditType DEF RemoveAll, Of, Empty, Lists
<1>18. ASSUME NEW k \in Commands, NEW r \in RuleIds, CommandDelete(k, r)
      PROVE  TypeOK'
    <2>1. faults' \subseteq FaultKinds \X RuleIds
        BY <1>18 DEF CommandDelete, TypeOK, Fault, FaultKinds
    <2>2. command' \in [Commands -> CommandState]
        BY <1>18, <1>0 DEF CommandDelete, CommandState
    <2>3. QED
        BY <1>18, <2>1, <2>2 DEF CommandDelete, TypeOK
<1>19. ASSUME NEW k \in Commands, CommandSave(k)
      PROVE  TypeOK'
    <2>1. command[k].list \in Lists
        BY DEF TypeOK, CommandState
    <2>2. rules' \in Lists
        BY <1>19, <2>1 DEF CommandSave, TypeOK, Lists
    <2>3. QED
        BY <1>19, <2>2, IdleTypes DEF CommandSave, TypeOK
<1>20. ASSUME NEW k \in Commands, CommandAbort(k)
      PROVE  TypeOK'
    BY <1>20, IdleTypes DEF CommandAbort, TypeOK, store
<1>21. CASE Tick
    <2>1. clock' \in [day : Days, evening : BOOLEAN]
        <3>1. clock.day < MaxDay => clock.day + 1 \in Days
            BY <1>b, DaysPositive DEF Days
        <3>2. [clock EXCEPT !.evening = TRUE] \in [day : Days, evening : BOOLEAN]
            BY <1>b
        <3>3. clock.day < MaxDay => [day |-> clock.day + 1, evening |-> FALSE] \in [day : Days, evening : BOOLEAN]
            BY <3>1
        <3>4. QED
            BY <1>21, <3>2, <3>3, Zenon DEF Tick
    <2>2. QED
        BY <1>21, <2>1 DEF Tick, TypeOK, store
<1>22. CASE UNCHANGED vars
    BY <1>22 DEF vars, TypeOK
<1>23. QED
    BY <1>1, <1>2, <1>3, <1>4, <1>5, <1>6, <1>7, <1>8, <1>9, <1>10, <1>11, <1>12, <1>13, <1>14, <1>15,
       <1>16, <1>17, <1>18, <1>19, <1>20, <1>21, <1>22
       DEF Next, ScanStep, CommandStep

(***************************************************************************)
(* What every step respects: a scan touches no other scan, and a command   *)
(* only opens and closes positions.                                        *)
(***************************************************************************)
LEMMA CommandFrame ==
    ASSUME NEW k \in Commands, CommandStep(k)
    PROVE  /\ UNCHANGED <<clock, claims, scan, alerts, reports>>
           /\ UNCHANGED <<positions, faults>> \/ \E r \in RuleIds : CommandDelete(k, r)
BY DEF CommandStep, AddRule, ModifyRule, RemoveRule, RemoveAll, CommandDelete, CommandSave, CommandAbort,
       Edit, store

LEMMA OtherScans ==
    ASSUME TypeOK, NEW c \in Scans, ScanStep(c), NEW other \in Scans \ {c}
    PROVE  scan'[other] = scan[other]
<1>1. scan \in [Scans -> ScanState]
    BY DEF TypeOK
<1>2. QED
    BY <1>1 DEF ScanStep, ScanStart, ScanKeep, ScanReport, ScanDelete, ScanLoad, ScanCheck, ScanChat,
                ScanClaim, ScanNothingClaimed, ScanSend, ScanRelease, ScanOpen, Handled, ScanEnd, ScanAbort

\* A step that leaves the records alone, hands no claim to anyone and loses one only in a
\* crash.
LEMMA QuietStep ==
    ASSUME IInv, TypeOK', clock'.day = clock.day, UNCHANGED <<positions, claims, alerts, reports>>,
           faults \subseteq faults',
           \A c \in Scans, r \in RuleIds :
              /\ Unsent(c, r)' => Unsent(c, r)
              /\ Opens(c, r)' => Opens(c, r)
              /\ Deletes(c, r)' => Deletes(c, r)
              /\ Unsent(c, r) => Unsent(c, r)' \/ <<"crash", r>> \in faults'
              /\ Opens(c, r) => Opens(c, r)' \/ <<"crash", r>> \in faults'
              /\ Deletes(c, r) => Deletes(c, r)' \/ <<"crash", r>> \in faults'
              /\ r \in Wanted(c)' => r \in Wanted(c) \/ positions[r] = NoPosition
    PROVE  Bookkeeping'
<1> USE DEF IInv, Bookkeeping, Holds, Happened
<1>1. ClaimsAreHeld'
    BY DEF ClaimsAreHeld
<1>2. AlertsHaveClaims' /\ AlertOncePerDay'
    BY DEF AlertsHaveClaims, AlertOncePerDay
<1>3. PositionsHaveClaims'
    BY DEF PositionsHaveClaims
<1>4. DeletedWasReported'
    BY DEF DeletedWasReported
<1>5. ReportsHaveClaims' /\ ClosingReportedOnceOrDisturbed'
    BY DEF ReportsHaveClaims, ClosingReportedOnceOrDisturbed
<1>6. ClaimsTracked'
    BY DEF ClaimsTracked
<1>7. PositionsTracked'
    BY DEF PositionsTracked
<1>8. QED
    BY <1>1, <1>2, <1>3, <1>4, <1>5, <1>6, <1>7

LEMMA CoherentStep == TypeOK /\ ScansCoherent /\ [Next]_vars => ScansCoherent'
<1> SUFFICES ASSUME TypeOK, ScansCoherent, [Next]_vars
             PROVE  ScansCoherent'
    OBVIOUS
<1>0. /\ scan \in [Scans -> ScanState]
      /\ \A c \in Scans : scan[c] \in ScanState /\ Coherent(scan[c], clock.day)
    BY DEF TypeOK, ScansCoherent
<1>1. ASSUME NEW c \in Scans, ScanStep(c)
      PROVE  ScansCoherent'
    <2>0. clock' = clock /\ \A other \in Scans \ {c} : scan'[other] = scan[other]
        <3>1. clock' = clock
            BY <1>1 DEF ScanStep, ScanStart, ScanKeep, ScanReport, ScanDelete, ScanLoad, ScanCheck, ScanChat,
                    ScanClaim, ScanNothingClaimed, ScanSend, ScanRelease, ScanOpen, ScanEnd, ScanAbort
        <3>2. QED
            BY <3>1, <1>1, OtherScans
    <2> SUFFICES Coherent(scan'[c], clock.day)
        BY <1>0, <2>0 DEF ScansCoherent
    <2>i. Coherent(IdleScan, clock.day)
        BY DEF Coherent, IdleScan
    <2>1. ASSUME NEW market \in Markets, ScanStart(c, market)
          PROVE  Coherent(scan'[c], clock.day)
        BY <2>1, <1>0 DEF ScanStart, Coherent, IdleScan
    <2>2. ASSUME NEW r \in RuleIds, ScanKeep(c, r)
          PROVE  Coherent(scan'[c], clock.day)
        BY <2>2, <1>0, <2>i DEF ScanKeep, Coherent, ScanState
    <2>3. ASSUME NEW r \in RuleIds, ScanReport(c, r)
          PROVE  Coherent(scan'[c], clock.day)
        <3>1. /\ scan[c].pc = "closing"
              /\ \/ scan'[c] = [scan[c] EXCEPT !.pc = "deleting", !.batch = {r}, !.todo = @ \ {r}]
                 \/ scan'[c] = [scan[c] EXCEPT !.todo = @ \ {r}]
            BY <2>3, <1>0 DEF ScanReport
        <3>2. CASE scan'[c] = [scan[c] EXCEPT !.todo = @ \ {r}]
            BY <3>1, <3>2, <1>0 DEF Coherent, ScanState
        <3>3. CASE scan'[c] = [scan[c] EXCEPT !.pc = "deleting", !.batch = {r}, !.todo = @ \ {r}]
            BY <3>1, <3>3, <1>0 DEF Coherent, ScanState
        <3>4. QED
            BY <3>1, <3>2, <3>3
    <2>4. CASE ScanDelete(c)
        BY <2>4, <1>0 DEF ScanDelete, Coherent, ScanState
    <2>5. CASE ScanLoad(c)
        BY <2>5, <1>0 DEF ScanLoad, Coherent, ScanState
    <2>6. ASSUME NEW r \in RuleIds, ScanCheck(c, r)
          PROVE  Coherent(scan'[c], clock.day)
        BY <2>6, <1>0 DEF ScanCheck, Coherent, ScanState
    <2>7. ASSUME NEW ch \in Chats, ScanChat(c, ch)
          PROVE  Coherent(scan'[c], clock.day)
        BY <2>7, <1>0 DEF ScanChat, Coherent, ScanState
    <2>8. ASSUME NEW r \in RuleIds, ScanClaim(c, r)
          PROVE  Coherent(scan'[c], clock.day)
        BY <2>8, <1>0 DEF ScanClaim, Coherent, ScanState
    <2>9. CASE ScanNothingClaimed(c)
        BY <2>9, <1>0 DEF ScanNothingClaimed, Coherent, ScanState
    <2>10. CASE ScanSend(c)
        BY <2>10, <1>0 DEF ScanSend, Coherent, ScanState
    <2>11. ASSUME NEW r \in RuleIds, ScanRelease(c, r) \/ ScanOpen(c, r)
           PROVE  Coherent(scan'[c], clock.day)
        <3>1. /\ scan[c].pc \in {"releasing", "opening"}
              /\ scan'[c] = [scan[c] EXCEPT !.batch = @ \ {r},
                                           !.pc = IF scan[c].batch = {r} THEN "checking" ELSE scan[c].pc]
            BY <2>11, <1>0 DEF ScanRelease, ScanOpen, Handled
        <3>2. CASE scan[c].batch = {r}
            BY <3>1, <3>2, <1>0 DEF Coherent, ScanState
        <3>3. CASE scan[c].batch # {r}
            BY <3>1, <3>3, <1>0 DEF Coherent, ScanState
        <3>4. QED
            BY <3>2, <3>3
    <2>12. CASE ScanEnd(c) \/ ScanAbort(c)
        BY <2>12, <1>0, <2>i DEF ScanEnd, ScanAbort
    <2>13. QED
        BY <1>1, <2>1, <2>2, <2>3, <2>4, <2>5, <2>6, <2>7, <2>8, <2>9, <2>10, <2>11, <2>12 DEF ScanStep
<1>2. ASSUME NEW k \in Commands, CommandStep(k)
      PROVE  ScansCoherent'
    BY <1>2, CommandFrame DEF ScansCoherent
<1>3. CASE Tick
    <2>1. CASE clock'.day = clock.day /\ scan' = scan
        BY <2>1 DEF ScansCoherent
    <2>2. CASE scan' = scan /\ \A c \in Scans : scan[c].pc = "idle"
        BY <2>2 DEF ScansCoherent, Coherent
    <2>3. QED
        BY <1>3, <2>1, <2>2 DEF Tick, TypeOK
<1>4. CASE UNCHANGED vars
    BY <1>4 DEF vars, ScansCoherent
<1>5. QED
    BY <1>1, <1>2, <1>3, <1>4 DEF Next

(***************************************************************************)
(* The steps that do not touch the records.                                *)
(***************************************************************************)

\* A scan step in terms of what the scan holds before and after.
LEMMA QuietScan ==
    ASSUME IInv, TypeOK', NEW c \in Scans, ScanStep(c),
           UNCHANGED <<clock, positions, claims, alerts, reports>>, faults \subseteq faults',
           \A r \in RuleIds :
              /\ Unsent(c, r)' => Unsent(c, r)
              /\ Opens(c, r)' => Opens(c, r)
              /\ Deletes(c, r)' => Deletes(c, r)
              /\ r \in scan[c].batch => (\/ Unsent(c, r)' /\ Unsent(c, r)
                                         \/ Opens(c, r)' /\ Opens(c, r)
                                         \/ Deletes(c, r)' /\ Deletes(c, r)
                                         \/ <<"crash", r>> \in faults')
              /\ r \in Wanted(c)' => r \in Wanted(c) \/ positions[r] = NoPosition
    PROVE  Bookkeeping'
<1>1. \A other \in Scans \ {c} : scan'[other] = scan[other]
    BY OtherScans DEF IInv
<1>2. ASSUME NEW o \in Scans, NEW r \in RuleIds
      PROVE  /\ Unsent(o, r)' => Unsent(o, r)
             /\ Opens(o, r)' => Opens(o, r)
             /\ Deletes(o, r)' => Deletes(o, r)
             /\ Unsent(o, r) => Unsent(o, r)' \/ <<"crash", r>> \in faults'
             /\ Opens(o, r) => Opens(o, r)' \/ <<"crash", r>> \in faults'
             /\ Deletes(o, r) => Deletes(o, r)' \/ <<"crash", r>> \in faults'
             /\ r \in Wanted(o)' => r \in Wanted(o) \/ positions[r] = NoPosition
    <2>1. CASE o = c
        BY <2>1 DEF Unsent, Opens, Deletes
    <2>2. CASE o # c
        BY <2>2, <1>1 DEF Unsent, Opens, Deletes, Wanted
    <2>3. QED
        BY <2>1, <2>2
<1>3. QED
    BY <1>2, QuietStep

LEMMA QuietScanSteps ==
    ASSUME IInv, TypeOK', NEW c \in Scans,
           \/ \E market \in Markets : ScanStart(c, market)
           \/ \E r \in RuleIds : ScanKeep(c, r) \/ ScanCheck(c, r)
           \/ \E ch \in Chats : ScanChat(c, ch)
           \/ ScanLoad(c) \/ ScanNothingClaimed(c) \/ ScanEnd(c) \/ ScanAbort(c)
    PROVE  Bookkeeping'
<1>0. /\ scan \in [Scans -> ScanState]
      /\ scan[c] \in ScanState /\ Coherent(scan[c], clock.day)
    BY DEF IInv, TypeOK, ScansCoherent
<1>a. ScanStep(c)
    BY DEF ScanStep
<1> USE DEF Unsent, Opens, Deletes, Wanted
<1>1. ASSUME NEW market \in Markets, ScanStart(c, market)
      PROVE  Bookkeeping'
    <2>1. scan'[c].pc = "closing" /\ scan'[c].batch = {} /\ scan'[c].hits = {} /\ scan[c].batch = {}
        BY <1>1, <1>0 DEF ScanStart, Coherent, IdleScan
    <2>2. QED
        BY <1>1, <2>1, <1>a, QuietScan DEF ScanStart
<1>2. ASSUME NEW r \in RuleIds, ScanKeep(c, r)
      PROVE  Bookkeeping'
    <2>1. scan'[c].pc \in {"closing", "idle"} /\ scan'[c].batch = {} /\ scan'[c].hits = {} /\ scan[c].batch = {}
        BY <1>2, <1>0 DEF ScanKeep, Coherent, IdleScan, ScanState
    <2>2. QED
        BY <1>2, <2>1, <1>a, QuietScan DEF ScanKeep, store
<1>3. ASSUME NEW r \in RuleIds, ScanCheck(c, r)
      PROVE  Bookkeeping'
    <2>1. /\ scan'[c].pc = "checking" /\ scan'[c].batch = {} /\ scan[c].batch = {} /\ scan[c].pc = "checking"
          /\ scan'[c].hits = IF positions[r] = NoPosition THEN scan[c].hits \cup {r} ELSE scan[c].hits
        BY <1>3, <1>0 DEF ScanCheck, Coherent, ScanState
    <2>2. \A q \in RuleIds : q \in Wanted(c)' => q \in Wanted(c) \/ positions[q] = NoPosition
        BY <2>1
    <2>3. UNCHANGED <<clock, positions, claims, alerts, reports, faults>>
        BY <1>3 DEF ScanCheck, store
    <2>4. QED
        BY <2>1, <2>2, <2>3, <1>a, QuietScan
<1>4. ASSUME NEW ch \in Chats, ScanChat(c, ch)
      PROVE  Bookkeeping'
    <2>1. /\ scan'[c].pc = "claiming" /\ scan'[c].batch = {} /\ scan[c].batch = {} /\ scan[c].pc = "checking"
          /\ scan'[c].hits \subseteq scan[c].hits /\ scan'[c].todo \subseteq scan[c].hits
        BY <1>4, <1>0 DEF ScanChat, Coherent, ScanState
    <2>2. QED
        BY <1>4, <2>1, <1>a, QuietScan DEF ScanChat, store
<1>5. CASE ScanLoad(c)
    <2>1. /\ scan'[c].pc = "checking" /\ scan'[c].batch = {} /\ scan[c].batch = {} /\ scan'[c].hits = {}
        BY <1>5, <1>0 DEF ScanLoad, Coherent, ScanState
    <2>2. QED
        BY <1>5, <2>1, <1>a, QuietScan DEF ScanLoad, store
<1>6. CASE ScanNothingClaimed(c)
    <2>1. /\ scan'[c].pc = "checking" /\ scan'[c].batch = {} /\ scan[c].batch = {} /\ scan'[c].hits = scan[c].hits
        BY <1>6, <1>0 DEF ScanNothingClaimed, ScanState
    <2>2. QED
        BY <1>6, <2>1, <1>a, QuietScan DEF ScanNothingClaimed, store
<1>7. CASE ScanEnd(c)
    <2>1. scan'[c].pc = "idle" /\ scan'[c].batch = {} /\ scan'[c].hits = {} /\ scan[c].batch = {}
        BY <1>7, <1>0 DEF ScanEnd, Coherent, IdleScan
    <2>2. QED
        BY <1>7, <2>1, <1>a, QuietScan DEF ScanEnd, store
<1>8. CASE ScanAbort(c)
    <2>1. scan'[c].pc = "idle" /\ scan'[c].batch = {} /\ scan'[c].hits = {}
        BY <1>8, <1>0 DEF ScanAbort, IdleScan
    <2>2. faults \subseteq faults' /\ \A r \in scan[c].batch : <<"crash", r>> \in faults'
        BY <1>8 DEF ScanAbort, Fault
    <2>3. QED
        BY <1>8, <2>1, <2>2, <1>a, QuietScan DEF ScanAbort, store
<1>9. QED
    BY <1>1, <1>2, <1>3, <1>4, <1>5, <1>6, <1>7, <1>8

(***************************************************************************)
(* The steps that do.                                                      *)
(***************************************************************************)
LEMMA OneUp ==
    ASSUME NEW x \in 0..2, NEW y
    PROVE  /\ y = (IF x < 2 THEN x + 1 ELSE x) => y \in Nat /\ y >= x /\ y > 0 /\ (y > 1 => x > 0 /\ x # 0)
           /\ y = x => y \in Nat /\ y >= x /\ (y > 1 => x > 0 /\ x # 0)
OBVIOUS

LEMMA CountedUp ==
    ASSUME NEW count \in [RuleIds -> [Days -> 0..2]], NEW rs, NEW day, NEW r \in RuleIds, NEW d \in Days
    PROVE  /\ r \in rs /\ d = day => Counted(count, rs, day)[r][d] > 0
           /\ count[r][d] > 0 => Counted(count, rs, day)[r][d] > 0
           /\ ~(r \in rs /\ d = day) => Counted(count, rs, day)[r][d] = count[r][d]
           /\ Counted(count, rs, day)[r][d] > 1 => count[r][d] > 0 /\ count[r][d] # 0
<1>1. count[r][d] \in 0..2
    OBVIOUS
<1>2. Counted(count, rs, day)[r][d] =
         IF r \in rs /\ d = day /\ count[r][d] < 2 THEN count[r][d] + 1 ELSE count[r][d]
    BY <1>1, CountedType
<1>3. CASE r \in rs /\ d = day
    BY <1>1, <1>2, <1>3, OneUp
<1>4. CASE ~(r \in rs /\ d = day)
    BY <1>1, <1>2, <1>4, OneUp
<1>5. QED
    BY <1>3, <1>4

LEMMA CountedZero ==
    ASSUME NEW count \in [RuleIds -> [Days -> 0..2]], NEW r \in RuleIds, NEW d \in Days
    PROVE  count[r][d] = 0 \/ count[r][d] > 0
<1>1. count[r][d] \in 0..2
    OBVIOUS
<1>2. \A x \in 0..2 : x = 0 \/ x > 0
    OBVIOUS
<1>3. QED
    BY <1>1, <1>2, Zenon

\* The closing report: no earlier report of the position, or another scan is deleting it.
LEMMA ReportStep ==
    ASSUME IInv, TypeOK', NEW c \in Scans, NEW r \in RuleIds, ScanReport(c, r)
    PROVE  Bookkeeping'
<1>0. /\ scan \in [Scans -> ScanState]
      /\ scan[c] \in ScanState /\ Coherent(scan[c], clock.day)
      /\ reports \in [RuleIds -> [Days -> 0..2]]
      /\ Bookkeeping
    BY DEF IInv, TypeOK, ScansCoherent
<1>a. /\ scan[c].pc = "closing" /\ scan[c].batch = {} /\ scan[c].hits = {} /\ positions[r] # NoPosition
      /\ UNCHANGED <<clock, positions, claims, alerts>>
      /\ \A other \in Scans \ {c} : scan'[other] = scan[other]
    BY <1>0, OtherScans DEF ScanReport, ScanStep, Coherent, store, IInv
<1>b. \A q \in RuleIds : positions[q] # NoPosition => positions[q].day \in Days
    BY DEF IInv, TypeOK, Position
<1>1. CASE reports' = reports /\ faults' = faults /\ scan' = [scan EXCEPT ![c].todo = @ \ {r}]
    <2>1. scan'[c].pc = "closing" /\ scan'[c].batch = {} /\ scan'[c].hits = {}
        BY <1>1, <1>0, <1>a DEF ScanState
    <2>2. QED
        BY <1>1, <1>a, <2>1, QuietScan DEF ScanStep, Unsent, Opens, Deletes, Wanted
<1>2. ASSUME reports' = Counted(reports, {r}, positions[r].day),
             faults \subseteq faults',
             \A o \in Scans, q \in RuleIds :
                /\ Unsent(o, q)' <=> Unsent(o, q)
                /\ Opens(o, q)' <=> Opens(o, q)
                /\ Wanted(o)' = Wanted(o)
                /\ Deletes(o, q) => Deletes(o, q)'
                /\ Deletes(o, q)' => Deletes(o, q) \/ (o = c /\ q = r),
             \/ /\ Deletes(c, r)'
                /\ (\E other \in Scans \ {c} : Deletes(other, r)) => <<"overlap", r>> \in faults'
             \/ <<"unheard", r>> \in faults' /\ ~Deletes(c, r)'
      PROVE  Bookkeeping'
    <2>0. /\ reports' = Counted(reports, {r}, positions[r].day)
          /\ reports \in [RuleIds -> [Days -> 0..2]]
        BY <1>0, <1>2
    <2>1. \A q \in RuleIds, d \in Days :
             /\ reports[q][d] > 0 => reports'[q][d] > 0
             /\ q # r \/ d # positions[r].day => reports'[q][d] = reports[q][d]
             /\ reports'[q][d] > 1 => reports[q][d] > 0
        BY <2>0, CountedUp
    <2>a. reports'[r][positions[r].day] > 0
        BY <2>0, <1>a, <1>b, CountedUp
    <2>b. ~Deletes(c, r)
        BY <1>a DEF Deletes
    <2>c. clock.day \in Days
        BY DEF IInv, TypeOK
    <2>d. /\ \A o \in Scans, q \in RuleIds : Deletes(o, q)' => Deletes(o, q) \/ (o = c /\ q = r)
          /\ \/ \A other \in Scans \ {c} : Deletes(other, r)' => <<"overlap", r>> \in faults'
             \/ ~Deletes(c, r)'
          /\ \A o \in Scans, q \in RuleIds : Holds(o, q)' <=> Holds(o, q)
          /\ faults \subseteq faults'
        BY <1>2, <2>b DEF Holds
    <2> USE DEF Bookkeeping, Happened
    <2>e. ClaimsAreHeld'
        BY <1>0, <2>d, <1>a DEF ClaimsAreHeld
    <2>f. AlertsHaveClaims' /\ AlertOncePerDay'
        BY <1>0, <1>2, <1>a DEF AlertsHaveClaims, AlertOncePerDay
    <2>g. PositionsHaveClaims'
        BY <1>0, <1>2, <2>d, <1>a DEF PositionsHaveClaims
    <2>2. ClaimsTracked'
        BY <1>0, <1>2, <1>a DEF ClaimsTracked
    <2>3. DeletedWasReported'
        <3> SUFFICES ASSUME NEW o \in Scans, NEW q \in RuleIds, Deletes(o, q)'
                     PROVE  /\ \/ positions[q] # NoPosition /\ reports'[q][positions[q].day] > 0
                               \/ \E kind \in {"removed", "overlap"} : <<kind, q>> \in faults'
                            /\ \A other \in Scans \ {o} : Deletes(other, q)' => <<"overlap", q>> \in faults'
            BY <1>a DEF DeletedWasReported
        <3>1. CASE Deletes(o, q)
            <4>1. \/ positions[q] # NoPosition /\ reports[q][positions[q].day] > 0
                  \/ \E kind \in {"removed", "overlap"} : <<kind, q>> \in faults
                BY <1>0, <3>1 DEF DeletedWasReported
            <4>2. \/ positions[q] # NoPosition /\ reports'[q][positions[q].day] > 0
                  \/ \E kind \in {"removed", "overlap"} : <<kind, q>> \in faults'
                <5>1. positions[q] # NoPosition /\ reports[q][positions[q].day] > 0 => reports'[q][positions[q].day] > 0
                    BY <1>b, <2>1
                <5>2. QED
                    BY <4>1, <5>1, <2>d
            <4>3. \A other \in Scans \ {o} : Deletes(other, q)' => <<"overlap", q>> \in faults'
                <5> SUFFICES ASSUME NEW other \in Scans \ {o}, Deletes(other, q)'
                             PROVE  <<"overlap", q>> \in faults'
                    OBVIOUS
                <5>1. CASE Deletes(other, q)
                    BY <5>1, <3>1, <1>0, <2>d DEF DeletedWasReported
                <5>2. CASE other = c /\ q = r
                    BY <5>2, <2>d
                <5>3. QED
                    BY <5>1, <5>2, <2>d
            <4>4. QED
                BY <4>2, <4>3
        <3>2. CASE o = c /\ q = r
            BY <3>2, <1>2, <1>a, <2>a
        <3>3. QED
            BY <3>1, <3>2, <1>2
    <2>4. ReportsHaveClaims'
        <3>1. \A q \in RuleIds, d \in Days : reports'[q][d] > 0 => <<q, d>> \in claims'
            BY <1>0, <1>a, <2>1 DEF ReportsHaveClaims, PositionsHaveClaims
        <3>2. \A o \in Scans, q \in RuleIds : Holds(o, q)' => reports'[q][clock'.day] = 0
            BY <1>0, <2>d, <1>a, <2>1, <2>c DEF ReportsHaveClaims, PositionsHaveClaims
        <3>3. ASSUME NEW q \in RuleIds, positions[q] # NoPosition, reports'[q][positions[q].day] > 0
              PROVE  (\E o \in Scans : Deletes(o, q)')
                     \/ \E kind \in {"crash", "unheard", "delete", "overlap"} : <<kind, q>> \in faults'
            <4>1. CASE q = r
                BY <4>1, <1>2
            <4>2. CASE q # r
                BY <4>2, <3>3, <1>0, <1>b, <1>2, <2>1 DEF ReportsHaveClaims
            <4>3. QED
                BY <4>1, <4>2
        <3>4. QED
            BY <3>1, <3>2, <3>3, <1>a DEF ReportsHaveClaims
    <2>5. ClosingReportedOnceOrDisturbed'
        <3> SUFFICES ASSUME NEW q \in RuleIds, NEW d \in Days, reports'[q][d] > 1
                     PROVE  \E kind \in {"crash", "unheard", "delete", "overlap"} : <<kind, q>> \in faults'
            BY DEF ClosingReportedOnceOrDisturbed
        <3>1. CASE q # r \/ d # positions[r].day
            <4>1. reports[q][d] > 1
                BY <3>1, <2>1
            <4>2. \E kind \in {"crash", "unheard", "delete", "overlap"} : <<kind, q>> \in faults
                BY <4>1, <1>0 DEF ClosingReportedOnceOrDisturbed
            <4>3. QED
                BY <4>2, <2>d
        <3>2. CASE q = r /\ d = positions[r].day
            <4>1. reports[r][positions[r].day] > 0
                BY <3>2, <2>1
            <4>2. positions[r] # NoPosition
                BY <1>a
            <4>3. \/ \E o \in Scans : Deletes(o, r)
                  \/ \E kind \in {"crash", "unheard", "delete", "overlap"} : <<kind, r>> \in faults
                BY <4>1, <4>2, <1>0 DEF ReportsHaveClaims
            <4>4. CASE \E o \in Scans : Deletes(o, r)
                <5>1. \E other \in Scans \ {c} : Deletes(other, r)
                    BY <4>4, <2>b
                <5>2. QED
                    BY <5>1, <1>2, <3>2
            <4>5. CASE \E kind \in {"crash", "unheard", "delete", "overlap"} : <<kind, r>> \in faults
                BY <4>5, <2>d, <3>2
            <4>6. QED
                BY <4>3, <4>4, <4>5
        <3>3. QED
            BY <3>1, <3>2
    <2>6. PositionsTracked'
        BY <1>0, <1>2, <1>a, <2>1 DEF PositionsTracked
    <2>7. QED
        BY <2>e, <2>f, <2>g, <2>2, <2>3, <2>4, <2>5, <2>6
<1>3. CASE /\ reports' = Counted(reports, {r}, positions[r].day)
           /\ scan' = [scan EXCEPT ![c] = [scan[c] EXCEPT !.pc = "deleting", !.batch = {r}, !.todo = @ \ {r}]]
           /\ IF Overlap(c, r) THEN Fault("overlap", {r}) ELSE UNCHANGED faults
    <2>1. scan'[c].pc = "deleting" /\ scan'[c].batch = {r} /\ scan'[c].hits = {}
        BY <1>3, <1>0, <1>a DEF ScanState
    <2>2. faults \subseteq faults' /\ (Overlap(c, r) => <<"overlap", r>> \in faults')
        BY <1>3 DEF Fault
    <2>3. ASSUME NEW o \in Scans, NEW q \in RuleIds
          PROVE  /\ Unsent(o, q)' <=> Unsent(o, q)
                 /\ Opens(o, q)' <=> Opens(o, q)
                 /\ Wanted(o)' = Wanted(o)
                 /\ Deletes(o, q) => Deletes(o, q)'
                 /\ Deletes(o, q)' => Deletes(o, q) \/ (o = c /\ q = r)
        <3>1. CASE o = c
            BY <3>1, <1>a, <2>1 DEF Unsent, Opens, Deletes, Wanted
        <3>2. CASE o # c
            BY <3>2, <1>a DEF Unsent, Opens, Deletes, Wanted
        <3>3. QED
            BY <3>1, <3>2
    <2>4. Deletes(c, r)' /\ ((\E other \in Scans \ {c} : Deletes(other, r)) => <<"overlap", r>> \in faults')
        BY <2>1, <2>2 DEF Overlap, Deletes
    <2>5. QED
        BY <1>3, <1>2, <2>2, <2>3, <2>4
<1>4. CASE /\ reports' = Counted(reports, {r}, positions[r].day)
           /\ scan' = [scan EXCEPT ![c].todo = @ \ {r}]
           /\ Fault("unheard", {r})
    <2>1. scan'[c].pc = "closing" /\ scan'[c].batch = {} /\ scan'[c].hits = {}
        BY <1>4, <1>0, <1>a DEF ScanState
    <2>2. faults \subseteq faults' /\ <<"unheard", r>> \in faults'
        BY <1>4 DEF Fault
    <2>3. ASSUME NEW o \in Scans, NEW q \in RuleIds
          PROVE  /\ Unsent(o, q)' <=> Unsent(o, q)
                 /\ Opens(o, q)' <=> Opens(o, q)
                 /\ Wanted(o)' = Wanted(o)
                 /\ Deletes(o, q)' <=> Deletes(o, q)
        BY <1>a, <2>1 DEF Unsent, Opens, Deletes, Wanted
    <2>4. ~Deletes(c, r)'
        BY <2>1 DEF Deletes
    <2>5. QED
        BY <1>4, <1>2, <2>2, <2>3, <2>4
<1>5. QED
    BY <1>1, <1>3, <1>4 DEF ScanReport

\* What a scan deletes has been reported; a deletion that fails is on record.
LEMMA DeleteStep ==
    ASSUME IInv, TypeOK', NEW c \in Scans, ScanDelete(c)
    PROVE  Bookkeeping'
<1>0. /\ scan \in [Scans -> ScanState]
      /\ scan[c] \in ScanState /\ Coherent(scan[c], clock.day)
      /\ positions \in [RuleIds -> Position \cup {NoPosition}]
      /\ Bookkeeping
    BY DEF IInv, TypeOK, ScansCoherent
<1>1. PICK r \in RuleIds : /\ scan[c].batch = {r}
                           /\ \/ positions' = [positions EXCEPT ![r] = NoPosition] /\ faults' = faults
                              \/ positions' = positions /\ Fault("delete", {r})
    BY <1>0 DEF ScanDelete, Coherent, ScanState
<1>2. /\ UNCHANGED <<clock, claims, alerts, reports>>
      /\ \A other \in Scans \ {c} : scan'[other] = scan[other]
    BY OtherScans DEF ScanDelete, ScanStep, IInv
<1>3. /\ scan[c].pc = "deleting" /\ scan'[c].pc = "closing" /\ scan'[c].batch = {} /\ scan'[c].hits = scan[c].hits
    BY <1>0 DEF ScanDelete, ScanState
<1>4. ASSUME NEW o \in Scans, NEW q \in RuleIds
      PROVE  /\ Unsent(o, q)' <=> Unsent(o, q)
             /\ Opens(o, q)' <=> Opens(o, q)
             /\ Holds(o, q)' <=> Holds(o, q)
             /\ q \in Wanted(o)' => q \in Wanted(o)
             /\ Deletes(o, q)' <=> (Deletes(o, q) /\ o # c)
    <2>1. CASE o = c
        BY <2>1, <1>3 DEF Unsent, Opens, Holds, Deletes, Wanted
    <2>2. CASE o # c
        BY <2>2, <1>2 DEF Unsent, Opens, Holds, Deletes, Wanted
    <2>3. QED
        BY <2>1, <2>2
<1>5. /\ \A q \in RuleIds : Deletes(c, q) <=> q = r
      /\ faults \subseteq faults'
      /\ \A q \in RuleIds : positions'[q] # NoPosition => positions'[q] = positions[q]
      /\ \A q \in RuleIds \ {r} : positions'[q] = positions[q]
      /\ positions'[r] = NoPosition \/ <<"delete", r>> \in faults'
    BY <1>0, <1>1, <1>3 DEF Deletes, Fault
<1> USE DEF Bookkeeping, Happened
<1>6. ClaimsAreHeld'
    BY <1>0, <1>2, <1>4 DEF ClaimsAreHeld
<1>7. AlertsHaveClaims' /\ AlertOncePerDay'
    BY <1>0, <1>2, <1>4, <1>5 DEF AlertsHaveClaims, AlertOncePerDay
<1>8. PositionsHaveClaims'
    BY <1>0, <1>2, <1>4, <1>5 DEF PositionsHaveClaims
<1>9. DeletedWasReported'
    <2> SUFFICES ASSUME NEW o \in Scans, NEW q \in RuleIds, Deletes(o, q), o # c
                 PROVE  /\ \/ positions'[q] # NoPosition /\ reports[q][positions'[q].day] > 0
                           \/ \E kind \in {"removed", "overlap"} : <<kind, q>> \in faults'
                        /\ \A other \in Scans \ {o} : Deletes(other, q)' => <<"overlap", q>> \in faults'
        BY <1>2, <1>4 DEF DeletedWasReported
    <2>1. CASE q = r
        <3>1. <<"overlap", q>> \in faults
            BY <2>1, <1>5, <1>0 DEF DeletedWasReported
        <3>2. QED
            BY <3>1, <1>5
    <2>2. CASE q # r
        BY <2>2, <1>0, <1>4, <1>5 DEF DeletedWasReported
    <2>3. QED
        BY <2>1, <2>2
<1>10. ReportsHaveClaims'
    <2>1. ASSUME NEW q \in RuleIds, positions'[q] # NoPosition, reports[q][positions'[q].day] > 0
          PROVE  (\E o \in Scans : Deletes(o, q)')
                 \/ \E kind \in {"crash", "unheard", "delete", "overlap"} : <<kind, q>> \in faults'
        <3>1. CASE q = r
            BY <3>1, <2>1, <1>5
        <3>2. CASE q # r
            BY <3>2, <2>1, <1>0, <1>4, <1>5 DEF ReportsHaveClaims
        <3>3. QED
            BY <3>1, <3>2
    <2>2. QED
        BY <2>1, <1>0, <1>2, <1>4 DEF ReportsHaveClaims
<1>11. ClosingReportedOnceOrDisturbed'
    BY <1>0, <1>2, <1>5 DEF ClosingReportedOnceOrDisturbed
<1>12. ClaimsTracked'
    BY <1>0, <1>2, <1>4, <1>5 DEF ClaimsTracked
<1>13. PositionsTracked'
    <2>1. positions[r] # NoPosition => reports[r][positions[r].day] > 0 \/ Happened({"removed", "overlap"}, r)
        BY <1>0, <1>5 DEF DeletedWasReported
    <2>2. QED
        BY <2>1, <1>0, <1>2, <1>4, <1>5 DEF PositionsTracked
<1>14. QED
    BY <1>6, <1>7, <1>8, <1>9, <1>10, <1>11, <1>12, <1>13

\* A claim is created once: whoever creates it finds neither alert nor position nor report.
LEMMA ClaimStep ==
    ASSUME IInv, TypeOK', NEW c \in Scans, NEW r \in RuleIds, ScanClaim(c, r)
    PROVE  Bookkeeping'
<1>0. /\ scan \in [Scans -> ScanState]
      /\ scan[c] \in ScanState /\ Coherent(scan[c], clock.day)
      /\ Bookkeeping
    BY DEF IInv, TypeOK, ScansCoherent
<1>1. /\ UNCHANGED <<clock, positions, alerts, reports, faults>>
      /\ \A other \in Scans \ {c} : scan'[other] = scan[other]
    BY OtherScans DEF ScanClaim, ScanStep, IInv
<1>2. /\ scan[c].pc = "claiming" /\ scan'[c].pc = "claiming"
      /\ r \in Wanted(c)
      /\ scan'[c].hits = scan[c].hits /\ scan'[c].todo = scan[c].todo \ {r}
      /\ scan'[c].batch = IF <<r, clock.day>> \in claims THEN scan[c].batch ELSE scan[c].batch \cup {r}
      /\ claims' = claims \cup {<<r, clock.day>>}
    BY <1>0 DEF ScanClaim, ScanState, Coherent, Wanted
<1>3. CASE <<r, clock.day>> \in claims
    <2>1. claims' = claims /\ scan'[c].batch = scan[c].batch
        BY <1>2, <1>3
    <2>2. QED
        BY <1>1, <1>2, <2>1, QuietScan DEF ScanStep, Unsent, Opens, Deletes, Wanted
<1>4. CASE <<r, clock.day>> \notin claims
    <2>1. ASSUME NEW o \in Scans, NEW q \in RuleIds
          PROVE  /\ Unsent(o, q)' <=> Unsent(o, q) \/ (o = c /\ q = r)
                 /\ Opens(o, q)' <=> Opens(o, q)
                 /\ Holds(o, q)' <=> Holds(o, q) \/ (o = c /\ q = r)
                 /\ q \in Wanted(o)' => q \in Wanted(o)
                 /\ Deletes(o, q)' <=> Deletes(o, q)
        <3>1. CASE o = c
            BY <3>1, <1>2, <1>4 DEF Unsent, Opens, Holds, Deletes, Wanted
        <3>2. CASE o # c
            BY <3>2, <1>1 DEF Unsent, Opens, Holds, Deletes, Wanted
        <3>3. QED
            BY <3>1, <3>2
    <2>2. /\ \A o \in Scans : ~Holds(o, r)
          /\ positions[r] = NoPosition
          /\ alerts[r][clock.day] > 0 => Happened({"unheard"}, r)
          /\ ~(reports[r][clock.day] > 0)
          /\ clock.day \in Days
        <3>1. clock.day \in Days
            BY DEF IInv, TypeOK
        <3>2. QED
            BY <3>1, <1>0, <1>2, <1>4
               DEF Bookkeeping, ClaimsAreHeld, PositionsHaveClaims, AlertsHaveClaims, ReportsHaveClaims
    <2>3. alerts[r][clock.day] = 0 \/ Happened({"unheard"}, r)
        BY <2>2, CountedZero DEF IInv, TypeOK
    <2>4. reports[r][clock.day] = 0
        BY <2>2, CountedZero DEF IInv, TypeOK
    <2> USE DEF Bookkeeping, Happened
    <2>5. ClaimsAreHeld'
        <3> SUFFICES ASSUME NEW o \in Scans, NEW q \in RuleIds, Holds(o, q)'
                     PROVE  <<q, clock.day>> \in claims' /\ \A other \in Scans \ {o} : ~Holds(other, q)'
            BY <1>1 DEF ClaimsAreHeld
        <3>1. CASE q = r
            BY <3>1, <1>2, <2>1, <2>2
        <3>2. CASE q # r
            BY <3>2, <1>0, <1>2, <2>1 DEF ClaimsAreHeld
        <3>3. QED
            BY <3>1, <3>2
    <2>6. AlertsHaveClaims' /\ AlertOncePerDay'
        BY <1>0, <1>1, <1>2, <2>1, <2>3 DEF AlertsHaveClaims, AlertOncePerDay
    <2>7. PositionsHaveClaims'
        BY <1>0, <1>1, <1>2, <2>1, <2>2 DEF PositionsHaveClaims
    <2>8. DeletedWasReported'
        BY <1>0, <1>1, <2>1 DEF DeletedWasReported
    <2>9. ReportsHaveClaims' /\ ClosingReportedOnceOrDisturbed'
        BY <1>0, <1>1, <1>2, <2>1, <2>4 DEF ReportsHaveClaims, ClosingReportedOnceOrDisturbed
    <2>10. ClaimsTracked'
        BY <1>0, <1>1, <1>2, <2>1 DEF ClaimsTracked
    <2>11. PositionsTracked'
        BY <1>0, <1>1, <2>1 DEF PositionsTracked
    <2>12. QED
        BY <2>5, <2>6, <2>7, <2>8, <2>9, <2>10, <2>11
<1>5. QED
    BY <1>3, <1>4

\* A send that raises may have been delivered: then the rule's fault is on record.
LEMMA SendStep ==
    ASSUME IInv, TypeOK', NEW c \in Scans, ScanSend(c)
    PROVE  Bookkeeping'
<1>0. /\ scan \in [Scans -> ScanState]
      /\ scan[c] \in ScanState /\ Coherent(scan[c], clock.day)
      /\ alerts \in [RuleIds -> [Days -> 0..2]]
      /\ clock.day \in Days
      /\ Bookkeeping
    BY DEF IInv, TypeOK, ScansCoherent
<1>1. /\ UNCHANGED <<clock, positions, claims, reports>>
      /\ \A other \in Scans \ {c} : scan'[other] = scan[other]
    BY OtherScans DEF ScanSend, ScanStep, IInv, store
<1>2. /\ scan[c].pc = "claiming" /\ scan[c].todo = {} /\ scan[c].quote.day = clock.day
      /\ scan'[c].hits = scan[c].hits /\ scan'[c].todo = {} /\ scan'[c].batch = scan[c].batch
      /\ scan'[c].pc \in {"opening", "releasing"}
      /\ \/ alerts' = alerts /\ faults' = faults /\ scan'[c].pc = "releasing"
         \/ /\ alerts' = Counted(alerts, scan[c].batch, clock.day)
            /\ \/ scan'[c].pc = "opening" /\ faults' = faults
               \/ scan'[c].pc = "releasing" /\ Fault("unheard", scan[c].batch)
    <2>1. scan[c].pc = "claiming" /\ scan[c].todo = {} /\ scan[c].quote.day = clock.day
        BY <1>0 DEF ScanSend, Coherent
    <2>2. \/ /\ scan' = [scan EXCEPT ![c].pc = "opening"] /\ faults' = faults
             /\ alerts' = Counted(alerts, scan[c].batch, clock.day)
          \/ scan' = [scan EXCEPT ![c].pc = "releasing"] /\ alerts' = alerts /\ faults' = faults
          \/ /\ scan' = [scan EXCEPT ![c].pc = "releasing"] /\ Fault("unheard", scan[c].batch)
             /\ alerts' = Counted(alerts, scan[c].batch, clock.day)
        BY <2>1 DEF ScanSend
    <2>3. ASSUME NEW pc, scan' = [scan EXCEPT ![c].pc = pc]
          PROVE  /\ scan'[c].hits = scan[c].hits /\ scan'[c].todo = scan[c].todo
                 /\ scan'[c].batch = scan[c].batch /\ scan'[c].pc = pc
        BY <2>3, <1>0 DEF ScanState
    <2>4. QED
        BY <2>1, <2>2, <2>3
<1>3. CASE alerts' = alerts /\ faults' = faults /\ scan'[c].pc = "releasing"
    BY <1>1, <1>2, <1>3, QuietScan DEF ScanStep, Unsent, Opens, Deletes, Wanted
<1>4. CASE /\ alerts' = Counted(alerts, scan[c].batch, clock.day)
           /\ \/ scan'[c].pc = "opening" /\ faults' = faults
              \/ scan'[c].pc = "releasing" /\ Fault("unheard", scan[c].batch)
    <2>1. ASSUME NEW o \in Scans, NEW q \in RuleIds
          PROVE  /\ Unsent(o, q)' => Unsent(o, q)
                 /\ Opens(o, q) => Opens(o, q)'
                 /\ Unsent(o, q) => Unsent(o, q)' \/ o = c
                 /\ Holds(o, q)' <=> Holds(o, q)
                 /\ q \in Wanted(o)' => q \in Wanted(o)
                 /\ Deletes(o, q)' <=> Deletes(o, q)
        <3>1. CASE o = c
            BY <3>1, <1>2, <1>4 DEF Unsent, Opens, Holds, Deletes, Wanted
        <3>2. CASE o # c
            BY <3>2, <1>1 DEF Unsent, Opens, Holds, Deletes, Wanted
        <3>3. QED
            BY <3>1, <3>2
    <2>2. faults \subseteq faults'
        BY <1>4 DEF Fault
    <2>3. ASSUME NEW q \in RuleIds
          PROVE  /\ q \in scan[c].batch <=> Unsent(c, q)
                 /\ q \in scan[c].batch => (Opens(c, q)' /\ ~Unsent(c, q)') \/ <<"unheard", q>> \in faults'
        BY <1>2, <1>4 DEF Unsent, Opens, Fault
    <2>4. \A q \in RuleIds, d \in Days :
             /\ alerts[q][d] > 0 => alerts'[q][d] > 0
             /\ q \in scan[c].batch /\ d = clock.day => alerts'[q][d] > 0
             /\ q \notin scan[c].batch \/ d # clock.day => alerts'[q][d] = alerts[q][d]
             /\ alerts'[q][d] > 1 => alerts[q][d] # 0
        <3>1. alerts' = Counted(alerts, scan[c].batch, clock.day) /\ alerts \in [RuleIds -> [Days -> 0..2]]
            BY <1>0, <1>4
        <3>2. QED
            BY <3>1, CountedUp
    <2> USE DEF Bookkeeping, Happened
    <2>5. ClaimsAreHeld'
        BY <1>0, <1>1, <2>1 DEF ClaimsAreHeld
    <2>6. ASSUME NEW q \in RuleIds, q \in scan[c].batch
          PROVE  /\ <<q, clock.day>> \in claims
                 /\ \A o \in Scans \ {c} : ~Unsent(o, q)
                 /\ alerts[q][clock.day] = 0 \/ <<"unheard", q>> \in faults
        BY <2>3, <2>6, <1>0 DEF ClaimsAreHeld, Holds, AlertsHaveClaims
    <2>7. AlertsHaveClaims'
        <3>1. ASSUME NEW q \in RuleIds, NEW d \in Days, alerts'[q][d] > 0
              PROVE  <<q, d>> \in claims \/ <<"unheard", q>> \in faults'
            <4>1. CASE q \in scan[c].batch /\ d = clock.day
                BY <4>1, <2>6
            <4>2. CASE ~(q \in scan[c].batch /\ d = clock.day)
                BY <4>2, <3>1, <2>4, <2>2, <1>0 DEF AlertsHaveClaims
            <4>3. QED
                BY <4>1, <4>2
        <3>2. ASSUME NEW o \in Scans, NEW q \in RuleIds, Unsent(o, q)'
              PROVE  alerts'[q][clock.day] = 0 \/ <<"unheard", q>> \in faults'
            <4>1. CASE q \in scan[c].batch
                BY <4>1, <3>2, <2>1, <2>3, <2>6
            <4>2. CASE q \notin scan[c].batch
                BY <4>2, <3>2, <2>1, <2>2, <2>4, <1>0 DEF AlertsHaveClaims
            <4>3. QED
                BY <4>1, <4>2
        <3>3. QED
            BY <3>1, <3>2, <1>1 DEF AlertsHaveClaims
    <2>8. AlertOncePerDay'
        <3> SUFFICES ASSUME NEW q \in RuleIds, NEW d \in Days, alerts'[q][d] > 1
                     PROVE  <<"unheard", q>> \in faults'
            BY DEF AlertOncePerDay
        <3>1. CASE q \in scan[c].batch /\ d = clock.day
            BY <3>1, <2>4, <2>6, <2>2
        <3>2. CASE ~(q \in scan[c].batch /\ d = clock.day)
            BY <3>2, <2>4, <2>2, <1>0 DEF AlertOncePerDay
        <3>3. QED
            BY <3>1, <3>2
    <2>9. PositionsHaveClaims'
        BY <1>0, <1>1, <2>1 DEF PositionsHaveClaims
    <2>10. DeletedWasReported'
        BY <1>0, <1>1, <2>1, <2>2 DEF DeletedWasReported
    <2>11. ReportsHaveClaims' /\ ClosingReportedOnceOrDisturbed'
        BY <1>0, <1>1, <2>1, <2>2 DEF ReportsHaveClaims, ClosingReportedOnceOrDisturbed
    <2>12. ClaimsTracked'
        BY <1>0, <1>1, <2>1, <2>2, <2>3, <2>4 DEF ClaimsTracked
    <2>13. PositionsTracked'
        <3> SUFFICES ASSUME NEW q \in RuleIds, NEW d \in Days, alerts'[q][d] > 0
                     PROVE  \/ reports[q][d] > 0
                            \/ positions[q] # NoPosition /\ positions[q].day = d
                            \/ \E o \in Scans : Opens(o, q)' /\ d = clock.day
                            \/ \E kind \in {"crash", "unheard", "removed", "overlap"} : <<kind, q>> \in faults'
            BY <1>1 DEF PositionsTracked
        <3>1. CASE q \in scan[c].batch /\ d = clock.day
            BY <3>1, <2>3
        <3>2. CASE ~(q \in scan[c].batch /\ d = clock.day)
            BY <3>2, <1>0, <2>1, <2>2, <2>4 DEF PositionsTracked
        <3>3. QED
            BY <3>1, <3>2
    <2>14. QED
        BY <2>5, <2>7, <2>8, <2>9, <2>10, <2>11, <2>12, <2>13
<1>5. QED
    BY <1>2, <1>3, <1>4

\* What is left of a batch once a rule is handled.
LEMMA HandledEffect ==
    ASSUME IInv, NEW c \in Scans, NEW r \in RuleIds, r \in scan[c].batch, Handled(c, r),
           scan[c].pc \in {"releasing", "opening"}, ScanStep(c)
    PROVE  /\ \A o \in Scans, q \in RuleIds :
                 /\ Unsent(o, q)' <=> Unsent(o, q) /\ ~(o = c /\ q = r)
                 /\ Opens(o, q)' <=> Opens(o, q) /\ ~(o = c /\ q = r)
                 /\ Deletes(o, q)' <=> Deletes(o, q)
                 /\ q \in Wanted(o)' => q \in Wanted(o)
           /\ Holds(c, r) /\ \A o \in Scans \ {c} : ~Holds(o, r)
<1>0. /\ scan \in [Scans -> ScanState] /\ scan[c] \in ScanState
      /\ ClaimsAreHeld
    BY DEF IInv, TypeOK, Bookkeeping
<1>1. \A other \in Scans \ {c} : scan'[other] = scan[other]
    BY OtherScans DEF IInv
<1>2. /\ scan'[c].batch = scan[c].batch \ {r} /\ scan'[c].hits = scan[c].hits
      /\ scan'[c].pc = IF scan[c].batch = {r} THEN "checking" ELSE scan[c].pc
    BY <1>0 DEF Handled, ScanState
<1>3. ASSUME NEW o \in Scans, NEW q \in RuleIds
      PROVE  /\ Unsent(o, q)' <=> Unsent(o, q) /\ ~(o = c /\ q = r)
             /\ Opens(o, q)' <=> Opens(o, q) /\ ~(o = c /\ q = r)
             /\ Deletes(o, q)' <=> Deletes(o, q)
             /\ q \in Wanted(o)' => q \in Wanted(o)
    <2>1. CASE o = c
        BY <2>1, <1>2 DEF Unsent, Opens, Deletes, Wanted
    <2>2. CASE o # c
        BY <2>2, <1>1 DEF Unsent, Opens, Deletes, Wanted
    <2>3. QED
        BY <2>1, <2>2
<1>4. Holds(c, r)
    BY DEF Holds, Unsent, Opens
<1>5. QED
    BY <1>0, <1>3, <1>4 DEF ClaimsAreHeld

\* A released claim leaves neither alert nor report behind, or the fault is on record.
LEMMA ReleaseStep ==
    ASSUME IInv, TypeOK', NEW c \in Scans, NEW r \in RuleIds, ScanRelease(c, r)
    PROVE  Bookkeeping'
<1>0. /\ scan[c] \in ScanState /\ Coherent(scan[c], clock.day)
      /\ clock.day \in Days
      /\ Bookkeeping
    BY DEF IInv, TypeOK, ScansCoherent
<1>1. /\ scan[c].pc = "releasing" /\ r \in scan[c].batch /\ scan[c].quote.day = clock.day
      /\ UNCHANGED <<clock, positions, alerts, reports>>
      /\ \/ claims' = claims \ {<<r, clock.day>>} /\ faults' = faults
         \/ claims' = claims /\ Fault("release", {r})
    BY <1>0 DEF ScanRelease, Coherent
<1>2. faults \subseteq faults' /\ claims' \subseteq claims /\ \A x \in claims : x # <<r, clock.day>> => x \in claims'
    BY <1>1 DEF Fault
<1>3. /\ \A o \in Scans, q \in RuleIds :
            /\ Unsent(o, q)' <=> Unsent(o, q) /\ ~(o = c /\ q = r)
            /\ Opens(o, q)' <=> Opens(o, q) /\ ~(o = c /\ q = r)
            /\ Deletes(o, q)' <=> Deletes(o, q)
            /\ q \in Wanted(o)' => q \in Wanted(o)
      /\ Holds(c, r) /\ \A o \in Scans \ {c} : ~Holds(o, r)
    BY <1>1, HandledEffect DEF ScanRelease, ScanStep
<1>4. Unsent(c, r)
    BY <1>1 DEF Unsent
<1>5. /\ positions[r] = NoPosition
      /\ alerts[r][clock.day] = 0 \/ Happened({"unheard"}, r)
      /\ reports[r][clock.day] = 0
    BY <1>0, <1>3, <1>4 DEF Bookkeeping, PositionsHaveClaims, AlertsHaveClaims, ReportsHaveClaims
<1> USE DEF Bookkeeping, Happened
<1>6. ClaimsAreHeld'
    <2> SUFFICES ASSUME NEW o \in Scans, NEW q \in RuleIds, Holds(o, q)'
                 PROVE  <<q, clock.day>> \in claims' /\ \A other \in Scans \ {o} : ~Holds(other, q)'
        BY <1>1 DEF ClaimsAreHeld
    <2>1. Holds(o, q) /\ q # r
        BY <1>3 DEF Holds
    <2>2. <<q, clock.day>> \in claims /\ \A other \in Scans \ {o} : ~Holds(other, q)
        BY <2>1, <1>0 DEF ClaimsAreHeld
    <2>3. QED
        BY <2>1, <2>2, <1>2, <1>3 DEF Holds
<1>7. AlertsHaveClaims' /\ AlertOncePerDay'
    <2>1. ASSUME NEW q \in RuleIds, NEW d \in Days, alerts[q][d] > 0
          PROVE  <<q, d>> \in claims' \/ <<"unheard", q>> \in faults'
        <3>1. CASE q = r /\ d = clock.day
            BY <3>1, <2>1, <1>5, <1>2
        <3>2. CASE ~(q = r /\ d = clock.day)
            BY <3>2, <2>1, <1>0, <1>2 DEF AlertsHaveClaims
        <3>3. QED
            BY <3>1, <3>2
    <2>2. QED
        BY <2>1, <1>0, <1>1, <1>2, <1>3 DEF AlertsHaveClaims, AlertOncePerDay
<1>8. PositionsHaveClaims'
    <2>1. \A q \in RuleIds : positions[q] # NoPosition => <<q, positions[q].day>> \in claims'
        BY <1>0, <1>2, <1>5 DEF PositionsHaveClaims
    <2>2. QED
        BY <2>1, <1>0, <1>1, <1>3 DEF PositionsHaveClaims, Holds
<1>9. DeletedWasReported'
    BY <1>0, <1>1, <1>2, <1>3 DEF DeletedWasReported
<1>10. ReportsHaveClaims' /\ ClosingReportedOnceOrDisturbed'
    <2>1. ASSUME NEW q \in RuleIds, NEW d \in Days, reports[q][d] > 0
          PROVE  <<q, d>> \in claims'
        <3>1. ~(q = r /\ d = clock.day)
            BY <2>1, <1>5
        <3>2. QED
            BY <3>1, <2>1, <1>0, <1>2 DEF ReportsHaveClaims
    <2>2. QED
        BY <2>1, <1>0, <1>1, <1>2, <1>3 DEF ReportsHaveClaims, ClosingReportedOnceOrDisturbed, Holds
<1>11. ClaimsTracked'
    <2> SUFFICES ASSUME NEW q \in RuleIds, NEW d \in Days, <<q, d>> \in claims'
                 PROVE  \/ alerts[q][d] > 0
                        \/ \E o \in Scans : Unsent(o, q)' /\ d = clock.day
                        \/ \E kind \in {"crash", "release"} : <<kind, q>> \in faults'
        BY <1>1 DEF ClaimsTracked
    <2>1. CASE q = r /\ d = clock.day
        BY <2>1, <1>1 DEF Fault
    <2>2. CASE ~(q = r /\ d = clock.day)
        BY <2>2, <1>0, <1>2, <1>3 DEF ClaimsTracked
    <2>3. QED
        BY <2>1, <2>2
<1>12. PositionsTracked'
    BY <1>0, <1>1, <1>2, <1>3, <1>4 DEF PositionsTracked, Unsent, Opens
<1>13. QED
    BY <1>6, <1>7, <1>8, <1>9, <1>10, <1>11, <1>12

\* The scan that opens a position holds the claim, so no other position is overwritten.
LEMMA OpenStep ==
    ASSUME IInv, TypeOK', NEW c \in Scans, NEW r \in RuleIds, ScanOpen(c, r)
    PROVE  Bookkeeping'
<1>0. /\ scan[c] \in ScanState /\ Coherent(scan[c], clock.day)
      /\ positions \in [RuleIds -> Position \cup {NoPosition}]
      /\ clock.day \in Days
      /\ Bookkeeping
    BY DEF IInv, TypeOK, ScansCoherent
<1>1. /\ scan[c].pc = "opening" /\ r \in scan[c].batch /\ scan[c].quote.day = clock.day
      /\ UNCHANGED <<clock, claims, alerts, reports, faults>>
    BY <1>0 DEF ScanOpen, Coherent
<1>2. positions'[r].day = clock.day /\ \A q \in RuleIds \ {r} : positions'[q] = positions[q]
    BY <1>0, <1>1 DEF ScanOpen
<1>3. /\ \A o \in Scans, q \in RuleIds :
            /\ Unsent(o, q)' <=> Unsent(o, q) /\ ~(o = c /\ q = r)
            /\ Opens(o, q)' <=> Opens(o, q) /\ ~(o = c /\ q = r)
            /\ Deletes(o, q)' <=> Deletes(o, q)
            /\ q \in Wanted(o)' => q \in Wanted(o)
      /\ Holds(c, r) /\ \A o \in Scans \ {c} : ~Holds(o, r)
    BY <1>1, HandledEffect DEF ScanOpen, ScanStep
<1>4. /\ positions[r] = NoPosition /\ positions'[r] # NoPosition
      /\ <<r, clock.day>> \in claims
      /\ reports[r][clock.day] = 0
    <2>1. scan[c].list[r] \in Rule
        BY <1>0, <1>1 DEF Coherent, ScanState, Lists
    <2>2. [day |-> scan[c].quote.day, cond |-> scan[c].list[r].cond, exit |-> scan[c].list[r].exit] \in Position
        BY <2>1, <1>0, <1>1 DEF Rule, Position
    <2>3. positions'[r] \in Position
        BY <2>2, <1>0 DEF ScanOpen
    <2>4. QED
        BY <2>3, <1>0, <1>3, Sentinels DEF Bookkeeping, PositionsHaveClaims, ClaimsAreHeld, ReportsHaveClaims
<1> USE DEF Bookkeeping, Happened
<1>5. ClaimsAreHeld'
    BY <1>0, <1>1, <1>3 DEF ClaimsAreHeld, Holds
<1>6. AlertsHaveClaims' /\ AlertOncePerDay'
    BY <1>0, <1>1, <1>3 DEF AlertsHaveClaims, AlertOncePerDay
<1>7. PositionsHaveClaims'
    <2>1. ASSUME NEW q \in RuleIds
          PROVE  /\ positions'[q] # NoPosition => <<q, positions'[q].day>> \in claims'
                 /\ \A o \in Scans : Holds(o, q)' => positions'[q] = NoPosition
                 /\ \A o \in Scans : q \in Wanted(o)' /\ positions'[q] # NoPosition => positions'[q].day = clock'.day
        <3>1. CASE q = r
            BY <3>1, <1>1, <1>2, <1>3, <1>4 DEF Holds
        <3>2. CASE q # r
            BY <3>2, <1>0, <1>1, <1>2, <1>3 DEF PositionsHaveClaims, Holds
        <3>3. QED
            BY <3>1, <3>2
    <2>2. QED
        BY <2>1 DEF PositionsHaveClaims
<1>8. DeletedWasReported'
    <2> SUFFICES ASSUME NEW o \in Scans, NEW q \in RuleIds, Deletes(o, q)
                 PROVE  /\ \/ positions'[q] # NoPosition /\ reports[q][positions'[q].day] > 0
                           \/ \E kind \in {"removed", "overlap"} : <<kind, q>> \in faults
                        /\ \A other \in Scans \ {o} : Deletes(other, q)' => <<"overlap", q>> \in faults
        BY <1>1, <1>3 DEF DeletedWasReported
    <2>1. CASE q = r
        BY <2>1, <1>0, <1>3, <1>4 DEF DeletedWasReported
    <2>2. CASE q # r
        BY <2>2, <1>0, <1>2, <1>3 DEF DeletedWasReported
    <2>3. QED
        BY <2>1, <2>2
<1>9. ReportsHaveClaims' /\ ClosingReportedOnceOrDisturbed'
    <2>1. ASSUME NEW q \in RuleIds, positions'[q] # NoPosition, reports[q][positions'[q].day] > 0
          PROVE  (\E o \in Scans : Deletes(o, q))
                 \/ \E kind \in {"crash", "unheard", "delete", "overlap"} : <<kind, q>> \in faults
        <3>1. q # r
            BY <2>1, <1>2, <1>4
        <3>2. QED
            BY <3>1, <2>1, <1>0, <1>2 DEF ReportsHaveClaims
    <2>2. QED
        BY <2>1, <1>0, <1>1, <1>3 DEF ReportsHaveClaims, ClosingReportedOnceOrDisturbed, Holds
<1>10. ClaimsTracked'
    BY <1>0, <1>1, <1>3 DEF ClaimsTracked, Unsent
<1>11. PositionsTracked'
    <2> SUFFICES ASSUME NEW q \in RuleIds, NEW d \in Days, alerts[q][d] > 0
                 PROVE  \/ reports[q][d] > 0
                        \/ positions'[q] # NoPosition /\ positions'[q].day = d
                        \/ \E o \in Scans : Opens(o, q)' /\ d = clock.day
                        \/ \E kind \in {"crash", "unheard", "removed", "overlap"} : <<kind, q>> \in faults
        BY <1>1 DEF PositionsTracked
    <2>1. CASE q = r
        BY <2>1, <1>0, <1>2, <1>4 DEF PositionsTracked
    <2>2. CASE q # r
        BY <2>2, <1>0, <1>2, <1>3 DEF PositionsTracked
    <2>3. QED
        BY <2>1, <2>2
<1>12. QED
    BY <1>5, <1>6, <1>7, <1>8, <1>9, <1>10, <1>11

\* A command that removes a rule may take its position; that is on record too.
LEMMA CommandDeleteStep ==
    ASSUME IInv, TypeOK', NEW k \in Commands, NEW r \in RuleIds, CommandDelete(k, r)
    PROVE  Bookkeeping'
<1>0. /\ positions \in [RuleIds -> Position \cup {NoPosition}]
      /\ Bookkeeping
    BY DEF IInv, TypeOK
<1>1. /\ UNCHANGED <<clock, claims, scan, alerts, reports>>
      /\ \/ /\ positions' = [positions EXCEPT ![r] = NoPosition]
            /\ Fault("removed", IF positions[r] = NoPosition THEN {} ELSE {r})
         \/ UNCHANGED <<positions, faults>>
    BY DEF CommandDelete
<1>2. /\ faults \subseteq faults'
      /\ \A q \in RuleIds : positions'[q] # NoPosition => positions'[q] = positions[q]
      /\ \A q \in RuleIds : positions'[q] = positions[q] \/ (positions'[q] = NoPosition /\ <<"removed", q>> \in faults')
    BY <1>0, <1>1 DEF Fault
<1>3. \A c \in Scans, q \in RuleIds :
         /\ Unsent(c, q)' <=> Unsent(c, q)
         /\ Opens(c, q)' <=> Opens(c, q)
         /\ Deletes(c, q)' <=> Deletes(c, q)
         /\ Wanted(c)' = Wanted(c)
    BY <1>1 DEF Unsent, Opens, Deletes, Wanted
<1> USE DEF Bookkeeping, Happened, Holds
<1>4. ClaimsAreHeld'
    BY <1>0, <1>1, <1>3 DEF ClaimsAreHeld
<1>5. AlertsHaveClaims' /\ AlertOncePerDay'
    BY <1>0, <1>1, <1>2, <1>3 DEF AlertsHaveClaims, AlertOncePerDay
<1>6. PositionsHaveClaims'
    BY <1>0, <1>1, <1>2, <1>3 DEF PositionsHaveClaims
<1>7. DeletedWasReported'
    BY <1>0, <1>1, <1>2, <1>3 DEF DeletedWasReported
<1>8. ReportsHaveClaims' /\ ClosingReportedOnceOrDisturbed'
    BY <1>0, <1>1, <1>2, <1>3 DEF ReportsHaveClaims, ClosingReportedOnceOrDisturbed
<1>9. ClaimsTracked'
    BY <1>0, <1>1, <1>2, <1>3 DEF ClaimsTracked
<1>10. PositionsTracked'
    BY <1>0, <1>1, <1>2, <1>3 DEF PositionsTracked
<1>11. QED
    BY <1>4, <1>5, <1>6, <1>7, <1>8, <1>9, <1>10

\* A new day finds no scan under way.
LEMMA TickStep ==
    ASSUME IInv, TypeOK', Tick
    PROVE  Bookkeeping'
<1>1. UNCHANGED <<positions, claims, scan, alerts, reports, faults>>
    BY DEF Tick, store
<1>2. CASE clock'.day = clock.day
    BY <1>1, <1>2, QuietStep DEF Unsent, Opens, Deletes, Wanted
<1>3. CASE \A c \in Scans : scan[c].pc = "idle"
    <2>1. \A c \in Scans, r \in RuleIds :
             /\ ~Unsent(c, r) /\ ~Opens(c, r) /\ ~Deletes(c, r) /\ r \notin Wanted(c)
             /\ ~Unsent(c, r)' /\ ~Opens(c, r)' /\ ~Deletes(c, r)' /\ r \notin Wanted(c)'
        BY <1>1, <1>3 DEF Unsent, Opens, Deletes, Wanted, IInv, ScansCoherent, Coherent
    <2> USE DEF IInv, Bookkeeping, Happened, Holds
    <2>2. ClaimsAreHeld' /\ AlertsHaveClaims' /\ AlertOncePerDay'
        BY <1>1, <2>1 DEF ClaimsAreHeld, AlertsHaveClaims, AlertOncePerDay
    <2>3. PositionsHaveClaims' /\ DeletedWasReported'
        BY <1>1, <2>1 DEF PositionsHaveClaims, DeletedWasReported
    <2>4. ReportsHaveClaims' /\ ClosingReportedOnceOrDisturbed'
        BY <1>1, <2>1 DEF ReportsHaveClaims, ClosingReportedOnceOrDisturbed
    <2>5. ClaimsTracked' /\ PositionsTracked'
        BY <1>1, <2>1 DEF ClaimsTracked, PositionsTracked
    <2>6. QED
        BY <2>2, <2>3, <2>4, <2>5
<1>4. QED
    BY <1>2, <1>3 DEF Tick, IInv, TypeOK

(***************************************************************************)
(* The theorems.                                                           *)
(***************************************************************************)
LEMMA InitInvariant ==
    ASSUME NEW time \in [day : Days, evening : BOOLEAN], InitAt(time)
    PROVE  IInv
<1>1. TypeOK
    BY IdleTypes DEF InitAt, TypeOK, Lists, Empty
<1>2. \A c \in Scans : scan[c] = IdleScan
    BY DEF InitAt
<1>3. ScansCoherent
    BY <1>2 DEF ScansCoherent, Coherent, IdleScan
<1>4. \A c \in Scans, r \in RuleIds : ~Unsent(c, r) /\ ~Opens(c, r) /\ ~Deletes(c, r) /\ r \notin Wanted(c)
    BY <1>2 DEF Unsent, Opens, Deletes, Wanted, IdleScan
<1>5. /\ \A r \in RuleIds : positions[r] = NoPosition
      /\ \A r \in RuleIds, d \in Days : ~(alerts[r][d] > 0) /\ ~(reports[r][d] > 0)
      /\ \A r \in RuleIds, d \in Days : ~(alerts[r][d] > 1) /\ ~(reports[r][d] > 1)
      /\ claims = {}
    BY DEF InitAt
<1>6. Bookkeeping
    BY <1>4, <1>5 DEF Bookkeeping, Holds, ClaimsAreHeld, AlertsHaveClaims, AlertOncePerDay, PositionsHaveClaims,
                      DeletedWasReported, ReportsHaveClaims, ClosingReportedOnceOrDisturbed, ClaimsTracked,
                      PositionsTracked
<1>7. QED
    BY <1>1, <1>3, <1>6 DEF IInv

LEMMA StepInvariant == IInv /\ [Next]_vars => IInv'
<1> SUFFICES ASSUME IInv, [Next]_vars
             PROVE  IInv'
    OBVIOUS
<1>0. TypeOK' /\ ScansCoherent'
    BY TypeStep, CoherentStep DEF IInv
<1>1. ASSUME NEW c \in Scans, ScanStep(c)
      PROVE  Bookkeeping'
    BY <1>1, <1>0, QuietScanSteps, ReportStep, DeleteStep, ClaimStep, SendStep, ReleaseStep, OpenStep DEF ScanStep
<1>2. ASSUME NEW k \in Commands, CommandStep(k)
      PROVE  Bookkeeping'
    <2>1. CASE UNCHANGED <<clock, positions, claims, scan, alerts, reports, faults>>
        BY <2>1, <1>0, QuietStep DEF Unsent, Opens, Deletes, Wanted
    <2>2. QED
        BY <2>1, <1>0, <1>2, CommandFrame, CommandDeleteStep
<1>3. CASE Tick
    BY <1>3, <1>0, TickStep DEF IInv
<1>4. CASE UNCHANGED vars
    <2>1. Bookkeeping'
        BY <1>4, <1>0, QuietStep DEF vars, Unsent, Opens, Deletes, Wanted
    <2>2. QED
        BY <2>1, <1>0 DEF IInv
<1>5. QED
    BY <1>0, <1>1, <1>2, <1>3, <1>4 DEF Next, IInv

\* The inductive invariant holds in every state.
THEOREM Invariant == Spec => []IInv
<1>1. Init => IInv
    BY InitInvariant, FirstDay DEF Init
<1>2. QED
    BY <1>1, StepInvariant, PTL DEF Spec

\* Every variable keeps its type.
THEOREM TypeCorrect == Spec => []TypeOK
<1>1. IInv => TypeOK
    BY DEF IInv
<1>2. QED
    BY Invariant, <1>1, PTL

\* A rule is announced once on a day, unless a send that raised had been delivered.
THEOREM AlertedOnce == Spec => []AlertOncePerDay
<1>1. IInv => AlertOncePerDay
    BY DEF IInv, Bookkeeping
<1>2. QED
    BY Invariant, <1>1, PTL

\* A claim that blocks the later scans of its day stands for a message sent or about to be
\* sent, unless a scan crashed over it or its release failed.
THEOREM ClaimsDelivered == Spec => []ClaimsAreDeliveredOrLost
<1>1. IInv => ClaimsAreDeliveredOrLost
    <2> SUFFICES ASSUME IInv, NEW x \in claims
                 PROVE  \/ alerts[x[1]][x[2]] > 0
                        \/ Holding(x[1], {"claiming", "releasing"}) # {}
                        \/ Happened({"crash", "release"}, x[1])
        BY DEF ClaimsAreDeliveredOrLost
    <2>0. x \in RuleIds \X Days
        BY DEF IInv, TypeOK
    <2>1. x[1] \in RuleIds /\ x[2] \in Days /\ <<x[1], x[2]>> \in claims
        BY <2>0
    <2>2. QED
        BY <2>1 DEF IInv, Bookkeeping, ClaimsTracked, Unsent, Holding
<1>2. QED
    BY Invariant, <1>1, PTL

\* Every alert is followed up to the report of its close, but for the accidents it names.
THEOREM AlertsTracked == Spec => []AlertsAreTracked
<1>1. IInv => AlertsAreTracked
    BY DEF IInv, Bookkeeping, PositionsTracked, AlertsAreTracked, Opens, Holding
<1>2. QED
    BY Invariant, <1>1, PTL

\* The close of a position is reported once, but for the accidents it names.
THEOREM ReportedOnce == Spec => []ClosingReportedOnceOrDisturbed
<1>1. IInv => ClosingReportedOnceOrDisturbed
    BY DEF IInv, Bookkeeping
<1>2. QED
    BY Invariant, <1>1, PTL

\* Only a scan that holds the claim of a rule announces it, and while the claim is held no
\* position of the rule is open.
LEMMA AlertStep ==
    ASSUME IInv, [Next]_vars, NEW r \in RuleIds, NEW d \in Days, alerts'[r][d] > alerts[r][d]
    PROVE  positions[r] = NoPosition
<1>0. alerts \in [RuleIds -> [Days -> 0..2]] /\ alerts[r][d] \in 0..2
    BY DEF IInv, TypeOK
<1>1. alerts'[r][d] # alerts[r][d]
    BY <1>0
<1>2. PICK c \in Scans : ScanSend(c)
    <2>1. ~(\E k \in Commands : CommandStep(k)) /\ ~Tick /\ ~UNCHANGED vars
        BY <1>1, CommandFrame DEF Tick, vars
    <2>2. PICK c \in Scans : ScanStep(c)
        BY <2>1 DEF Next
    <2>3. ScanSend(c)
        BY <1>1, <2>2 DEF ScanStep, ScanStart, ScanKeep, ScanReport, ScanDelete, ScanLoad, ScanCheck, ScanChat,
                          ScanClaim, ScanNothingClaimed, ScanRelease, ScanOpen, ScanEnd, ScanAbort
    <2>4. QED
        BY <2>3
<1>3. alerts' = Counted(alerts, scan[c].batch, scan[c].quote.day)
    BY <1>1, <1>2 DEF ScanSend
<1>4. r \in scan[c].batch
    BY <1>0, <1>1, <1>3, CountedUp
<1>5. Holds(c, r)
    BY <1>2, <1>4 DEF ScanSend, Holds, Unsent
<1>6. QED
    BY <1>5 DEF IInv, Bookkeeping, PositionsHaveClaims

\* A rule is never announced while the position of an earlier alert is open.
THEOREM NoAlertOverPosition == Spec => NoAlertWhileOpen
<1>1. IInv /\ [Next]_vars =>
         [\A r \in RuleIds : (\E d \in Days : alerts'[r][d] > alerts[r][d]) => positions[r] = NoPosition]_vars
    BY AlertStep
<1>2. QED
    BY Invariant, <1>1, PTL DEF Spec, NoAlertWhileOpen

=============================================================================
