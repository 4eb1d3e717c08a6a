------------------------------ MODULE VixAlerts ------------------------------
(***************************************************************************)
(* The VIX alert patrol (vix/scanner.py, positions.py, rules.py,           *)
(* history.py) and the chat commands that edit its rules (commands.py).    *)
(*                                                                         *)
(* A scheduler posts a scan every hour and again when one fails, so scans  *)
(* may overlap; chat commands run beside them in the same service.  Rules, *)
(* open positions and per-day claims are objects of one bucket, and only   *)
(* the claim is created under a precondition.  Each access to the bucket   *)
(* and each message sent is one step.  The quote fetch and the index level *)
(* have no effect of their own: a scan that gets no evaluable quote does   *)
(* nothing.                                                                *)
(***************************************************************************)
EXTENDS Naturals, FiniteSets

CONSTANTS
    RuleIds,     \* rule identifiers (uuid4, never reused)
    Chats,       \* chat groups
    ChatOf,      \* the chat in which an identifier is created
    Conditions,  \* a direction with a threshold
    Exits,       \* exit kinds in use
    Markets,     \* quotes: the conditions met, and whether the VIX is below the level
                 \* of the "vix_below" rules
    Scans,       \* invocations of the scan endpoint in flight
    Commands,    \* chat commands in flight
    MaxDay,      \* number of trading days
    ExitDays,    \* exit_days of the "days" rules
    NoRule, NoPosition

ASSUME ChatOfType == ChatOf \in [RuleIds -> Chats] /\ Chats # {}
ASSUME DaysPositive == MaxDay \in Nat \ {0} /\ ExitDays \in Nat \ {0}

Days  == 1..MaxDay
Rule  == [cond : Conditions, exit : Exits]

ASSUME ExitKinds == Exits \subseteq {"days", "vix_below", "none"}
ASSUME MarketsType == Markets \subseteq [hot : SUBSET Conditions, low : BOOLEAN]
\* A position keeps the rule as it was when the alert was sent.
Position == [day : Days, cond : Conditions, exit : Exits]

ASSUME Sentinels == NoRule \notin Rule /\ NoPosition \notin Position

Quote == [day : Days, hot : SUBSET Conditions, low : BOOLEAN]

\* What went wrong for a rule, for the properties to say what they survive.
FaultKinds == {"crash", "unheard", "release", "delete", "overlap", "removed"}

VARIABLES
    clock,      \* the trading day, and whether the close has settled (17:00)
    closes,     \* the days in vix/history.json
    rules,      \* vix/rules/
    positions,  \* vix/positions/
    claims,     \* vix/alerts/: a set of <<rule, day>>
    scan,       \* run_hourly_scan calls
    command,    \* add, modify and remove commands
    alerts,     \* history: how often a rule was announced on a day
    reports,    \* history: how often the position opened on a day was reported closed
    faults      \* history: <<kind, rule>> pairs

vars == <<clock, closes, rules, positions, claims, scan, command, alerts, reports, faults>>
store == <<closes, rules, positions, claims>>

Lists == [RuleIds -> Rule \cup {NoRule}]
Empty == [r \in RuleIds |-> NoRule]
IdleScan == [pc |-> "idle", quote |-> [day |-> 1, hot |-> {}, low |-> FALSE],
             todo |-> {}, hits |-> {}, batch |-> {}, list |-> Empty]
IdleCommand == [pc |-> "idle", drop |-> {}, list |-> Empty, chat |-> CHOOSE ch \in Chats : TRUE]

ScanState ==
    [pc : {"idle", "closing", "deleting", "checking", "claiming", "releasing", "opening"},
     quote : Quote, todo : SUBSET RuleIds, hits : SUBSET RuleIds, batch : SUBSET RuleIds,
     list : Lists]
CommandState == [pc : {"idle", "deleting", "saving"}, drop : SUBSET RuleIds, list : Lists,
                 chat : Chats]

TypeOK ==
    /\ clock \in [day : Days, evening : BOOLEAN]
    /\ closes \subseteq Days
    /\ rules \in Lists
    /\ positions \in [RuleIds -> Position \cup {NoPosition}]
    /\ claims \subseteq RuleIds \X Days
    /\ scan \in [Scans -> ScanState]
    /\ command \in [Commands -> CommandState]
    /\ alerts \in [RuleIds -> [Days -> 0..2]]
    /\ reports \in [RuleIds -> [Days -> 0..2]]
    /\ faults \subseteq FaultKinds \X RuleIds

InitAt(time) ==
    /\ clock = time
    /\ closes = {}
    /\ rules = Empty
    /\ positions = [r \in RuleIds |-> NoPosition]
    /\ claims = {}
    /\ scan = [c \in Scans |-> IdleScan]
    /\ command = [k \in Commands |-> IdleCommand]
    /\ alerts = [r \in RuleIds |-> [d \in Days |-> 0]]
    /\ reports = [r \in RuleIds |-> [d \in Days |-> 0]]
    /\ faults = {}
Init == InitAt([day |-> 1, evening |-> FALSE])

\* The histories count up to two: "more than once" is all that is asked of them.
Counted(count, rs, day) ==
    [r \in RuleIds |-> [d \in Days |->
       IF r \in rs /\ d = day /\ count[r][d] < 2 THEN count[r][d] + 1 ELSE count[r][d]]]
Fault(kind, rs) == faults' = faults \cup ({kind} \X rs)

-----------------------------------------------------------------------------
(***************************************************************************)
(* The first half of a scan: settlement, then the positions that are due.  *)
(***************************************************************************)

\* Mutant: the settlement is filed under the next day.
ScanStartNextDay(c, market) ==
    /\ scan[c].pc = "idle"
    /\ closes' = IF clock.evening THEN closes \cup {clock.day + 1} ELSE closes
    /\ scan' = [scan EXCEPT ![c] =
          [IdleScan EXCEPT !.pc = "closing",
                           !.quote = [day |-> clock.day, hot |-> market.hot, low |-> market.low],
                           !.todo = {r \in RuleIds : positions[r] # NoPosition}]]
    /\ UNCHANGED <<clock, rules, positions, claims, command, alerts, reports, faults>>

\* run_hourly_scan up to the listing of the positions.  record_settlement only ever
\* appends a day newer than the latest one.
ScanStart(c, market) ==
    /\ scan[c].pc = "idle"
    /\ closes' = IF clock.evening /\ \A d \in closes : d < clock.day
                 THEN closes \cup {clock.day} ELSE closes
    /\ scan' = [scan EXCEPT ![c] =
          [IdleScan EXCEPT !.pc = "closing",
                           !.quote = [day |-> clock.day, hot |-> market.hot, low |-> market.low],
                           !.todo = {r \in RuleIds : positions[r] # NoPosition}]]
    /\ UNCHANGED <<clock, rules, positions, claims, command, alerts, reports, faults>>

\* close_reason: has position p reached its exit?
Due(p, quote) ==
    \/ /\ p.exit = "days"
       /\ Cardinality({d \in closes : p.day < d /\ d <= quote.day}) >= ExitDays
    \/ p.exit = "vix_below" /\ quote.low
    \/ p.exit = "none" /\ quote.day > p.day /\ p.cond \notin quote.hot

\* Two scans are closing the position of r.
Overlap(c, r) == \E other \in Scans \ {c} :
    scan[other].pc = "deleting" /\ r \in scan[other].batch

\* The next listed position is read.  One that has gone since raises and ends the
\* scan; one that is not due is left alone.
ScanKeep(c, r) ==
    /\ scan[c].pc = "closing" /\ r \in scan[c].todo
    /\ IF positions[r] = NoPosition
       THEN scan' = [scan EXCEPT ![c] = IdleScan]
       ELSE /\ ~Due(positions[r], scan[c].quote)
            /\ scan' = [scan EXCEPT ![c].todo = @ \ {r}]
    /\ UNCHANGED <<clock, store, command, alerts, reports, faults>>

\* A position that is due is reported, then deleted.  A send that raises leaves it for
\* the next scan; it may have been delivered all the same.
ScanReport(c, r) ==
    LET due == scan[c].pc = "closing" /\ r \in scan[c].todo /\ positions[r] # NoPosition
               /\ Due(positions[r], scan[c].quote)
        delivered == Counted(reports, {r}, positions[r].day)
    IN  /\ due
        /\ \/ /\ reports' = delivered
              /\ scan' = [scan EXCEPT ![c] = [scan[c] EXCEPT !.pc = "deleting", !.batch = {r},
                                                             !.todo = @ \ {r}]]
              /\ IF Overlap(c, r) THEN Fault("overlap", {r}) ELSE UNCHANGED faults
           \/ /\ scan' = [scan EXCEPT ![c].todo = @ \ {r}]
              /\ UNCHANGED <<reports, faults>>
           \/ /\ reports' = delivered
              /\ scan' = [scan EXCEPT ![c].todo = @ \ {r}]
              /\ Fault("unheard", {r})
        /\ UNCHANGED <<clock, store, command, alerts>>

\* Mutant: the reported position stays open.
ScanDeleteNothing(c) ==
    /\ scan[c].pc = "deleting"
    /\ scan' = [scan EXCEPT ![c] = [scan[c] EXCEPT !.pc = "closing", !.batch = {}]]
    /\ UNCHANGED <<clock, store, command, alerts, reports, faults>>

\* VixPositionStore.delete swallows every exception.
ScanDelete(c) ==
    /\ scan[c].pc = "deleting"
    /\ \E r \in scan[c].batch :
          \/ /\ positions' = [positions EXCEPT ![r] = NoPosition]
             /\ UNCHANGED faults
          \/ /\ Fault("delete", {r})
             /\ UNCHANGED positions
    /\ scan' = [scan EXCEPT ![c] = [scan[c] EXCEPT !.pc = "closing", !.batch = {}]]
    /\ UNCHANGED <<clock, closes, rules, claims, command, alerts, reports>>

-----------------------------------------------------------------------------
(***************************************************************************)
(* The second half: new alerts.                                            *)
(***************************************************************************)

\* The rules are loaded; what the scan has read of those that hit it keeps to the end.
ScanLoad(c) ==
    LET hit == {r \in RuleIds : rules[r] # NoRule /\ rules[r].cond \in scan[c].quote.hot}
    IN  /\ scan[c].pc = "closing" /\ scan[c].todo = {}
        /\ scan' = [scan EXCEPT ![c] =
              [scan[c] EXCEPT !.pc = "checking", !.todo = hit,
                              !.list = [r \in RuleIds |-> IF r \in hit THEN rules[r] ELSE NoRule]]]
        /\ UNCHANGED <<clock, store, command, alerts, reports, faults>>

\* Mutant: an open position does not suppress the alert.
ScanCheckNothing(c, r) ==
    /\ scan[c].pc = "checking" /\ r \in scan[c].todo
    /\ scan' = [scan EXCEPT ![c] = [scan[c] EXCEPT !.todo = @ \ {r}, !.hits = @ \cup {r}]]
    /\ UNCHANGED <<clock, store, command, alerts, reports, faults>>

\* An open position suppresses the alert of its rule.
ScanCheck(c, r) ==
    /\ scan[c].pc = "checking" /\ r \in scan[c].todo
    /\ scan' = [scan EXCEPT ![c] =
          [scan[c] EXCEPT !.todo = @ \ {r},
                          !.hits = IF positions[r] = NoPosition THEN @ \cup {r} ELSE @]]
    /\ UNCHANGED <<clock, store, command, alerts, reports, faults>>

\* The next chat with hits.
ScanChat(c, ch) ==
    /\ scan[c].pc = "checking" /\ scan[c].todo = {}
    /\ \E r \in scan[c].hits : ChatOf[r] = ch
    /\ scan' = [scan EXCEPT ![c] =
          [scan[c] EXCEPT !.pc = "claiming",
                          !.todo = {r \in scan[c].hits : ChatOf[r] = ch},
                          !.hits = {r \in scan[c].hits : ChatOf[r] # ch}]]
    /\ UNCHANGED <<clock, store, command, alerts, reports, faults>>

\* Mutant: the claim is written without the generation precondition.
ScanClaimBlindly(c, r) ==
    LET day == scan[c].quote.day
    IN  /\ scan[c].pc = "claiming" /\ r \in scan[c].todo
        /\ claims' = claims \cup {<<r, day>>}
        /\ scan' = [scan EXCEPT ![c] = [scan[c] EXCEPT !.todo = @ \ {r}, !.batch = @ \cup {r}]]
        /\ UNCHANGED <<clock, closes, rules, positions, command, alerts, reports, faults>>

\* The claim object is created by at most one scan.
ScanClaim(c, r) ==
    LET day == scan[c].quote.day
    IN  /\ scan[c].pc = "claiming" /\ r \in scan[c].todo
        /\ claims' = claims \cup {<<r, day>>}
        /\ scan' = [scan EXCEPT ![c] =
              [scan[c] EXCEPT !.todo = @ \ {r},
                              !.batch = IF <<r, day>> \in claims THEN @ ELSE @ \cup {r}]]
        /\ UNCHANGED <<clock, closes, rules, positions, command, alerts, reports, faults>>

\* No rule of the chat could be claimed: on to the next chat.
ScanNothingClaimed(c) ==
    /\ scan[c].pc = "claiming" /\ scan[c].todo = {} /\ scan[c].batch = {}
    /\ scan' = [scan EXCEPT ![c].pc = "checking"]
    /\ UNCHANGED <<clock, store, command, alerts, reports, faults>>

\* One message for all the claimed rules of the chat; a send that raises may have been
\* delivered all the same.
ScanSend(c) ==
    LET batch == scan[c].batch
        delivered == Counted(alerts, batch, scan[c].quote.day)
    IN  /\ scan[c].pc = "claiming" /\ scan[c].todo = {} /\ batch # {}
        /\ \/ /\ alerts' = delivered
              /\ scan' = [scan EXCEPT ![c].pc = "opening"]
              /\ UNCHANGED faults
           \/ /\ scan' = [scan EXCEPT ![c].pc = "releasing"]
              /\ UNCHANGED <<alerts, faults>>
           \/ /\ alerts' = delivered
              /\ scan' = [scan EXCEPT ![c].pc = "releasing"]
              /\ Fault("unheard", batch)
        /\ UNCHANGED <<clock, store, command, reports>>

\* The batch shrinks by r; after its last rule the scan goes on to the next chat.
Handled(c, r) ==
    scan' = [scan EXCEPT ![c] =
       [scan[c] EXCEPT !.batch = @ \ {r},
                       !.pc = IF scan[c].batch = {r} THEN "checking" ELSE scan[c].pc]]

\* Mutant: a failed send keeps the claims.
ScanReleaseNothing(c, r) ==
    /\ scan[c].pc = "releasing" /\ r \in scan[c].batch
    /\ Handled(c, r)
    /\ UNCHANGED <<clock, store, command, alerts, reports, faults>>

\* release() of the claim of a failed send swallows every exception.
ScanRelease(c, r) ==
    /\ scan[c].pc = "releasing" /\ r \in scan[c].batch
    /\ \/ /\ claims' = claims \ {<<r, scan[c].quote.day>>}
          /\ UNCHANGED faults
       \/ /\ Fault("release", {r})
          /\ UNCHANGED claims
    /\ Handled(c, r)
    /\ UNCHANGED <<clock, closes, rules, positions, command, alerts, reports>>

\* Mutant: the alert opens no position.
ScanOpenNothing(c, r) ==
    /\ scan[c].pc = "opening" /\ r \in scan[c].batch
    /\ Handled(c, r)
    /\ UNCHANGED <<clock, store, command, alerts, reports, faults>>

\* The announced rule, as the scan has read it, becomes an open position.
ScanOpen(c, r) ==
    LET rule == scan[c].list[r]
    IN  /\ scan[c].pc = "opening" /\ r \in scan[c].batch
        /\ positions' = [positions EXCEPT ![r] =
              [day |-> scan[c].quote.day, cond |-> rule.cond, exit |-> rule.exit]]
        /\ Handled(c, r)
        /\ UNCHANGED <<clock, closes, rules, claims, command, alerts, reports, faults>>

ScanEnd(c) ==
    /\ scan[c].pc = "checking" /\ scan[c].todo = {} /\ scan[c].hits = {}
    /\ scan' = [scan EXCEPT ![c] = IdleScan]
    /\ UNCHANGED <<clock, store, command, alerts, reports, faults>>

\* The instance is replaced, or a storage call raises: the endpoint answers 500 or
\* nothing at all, and the scheduler posts again.
ScanAbort(c) ==
    /\ scan[c].pc # "idle"
    /\ Fault("crash", scan[c].batch)
    /\ scan' = [scan EXCEPT ![c] = IdleScan]
    /\ UNCHANGED <<clock, store, command, alerts, reports>>

-----------------------------------------------------------------------------
(***************************************************************************)
(* Commands: the rule list of a chat is read, edited and written back.     *)
(***************************************************************************)
Of(ch) == {r \in RuleIds : ChatOf[r] = ch /\ rules[r] # NoRule}

\* An identifier is fresh: no rule, position, claim or process has it.
Fresh(r) ==
    /\ rules[r] = NoRule /\ positions[r] = NoPosition /\ ~\E d \in Days : <<r, d>> \in claims
    /\ \A d \in Days : alerts[r][d] = 0
    /\ \A k \in Commands : command[k].list[r] = NoRule /\ r \notin command[k].drop
    /\ \A c \in Scans : scan[c].list[r] = NoRule

Edit(k, ch, drop, list) ==
    /\ command' = [command EXCEPT ![k] =
          [pc |-> IF drop = {} THEN "saving" ELSE "deleting", chat |-> ch, drop |-> drop,
           list |-> [r \in RuleIds |-> IF ChatOf[r] = ch THEN list[r] ELSE NoRule]]]
    /\ UNCHANGED <<clock, store, scan, alerts, reports, faults>>

\* _add_rule_reply: one rule for each condition of a chat.
AddRule(k, r, rule) ==
    /\ command[k].pc = "idle" /\ Fresh(r)
    /\ \A old \in Of(ChatOf[r]) : rules[old].cond # rule.cond
    /\ Edit(k, ChatOf[r], {}, [rules EXCEPT ![r] = rule])

\* _modify_rule_reply: the position that may be open keeps the old terms.
ModifyRule(k, r, rule) ==
    /\ command[k].pc = "idle" /\ rules[r] # NoRule
    /\ Edit(k, ChatOf[r], {}, [rules EXCEPT ![r] = rule])

\* _remove_rule_reply: the identifier matches in any case, but its position is deleted
\* under the name the user has typed.
RemoveRule(k, r) ==
    /\ command[k].pc = "idle" /\ rules[r] # NoRule
    /\ \E drop \in {{r}, {}} : Edit(k, ChatOf[r], drop, [rules EXCEPT ![r] = NoRule])

RemoveAll(k, ch) ==
    /\ command[k].pc = "idle" /\ Of(ch) # {}
    /\ Edit(k, ch, Of(ch), Empty)

CommandDelete(k, r) ==
    /\ command[k].pc = "deleting" /\ r \in command[k].drop
    /\ \/ /\ positions' = [positions EXCEPT ![r] = NoPosition]
          /\ Fault("removed", IF positions[r] = NoPosition THEN {} ELSE {r})
       \/ UNCHANGED <<positions, faults>>
    /\ command' = [command EXCEPT ![k] =
          [command[k] EXCEPT !.drop = @ \ {r},
                             !.pc = IF command[k].drop = {r} THEN "saving" ELSE "deleting"]]
    /\ UNCHANGED <<clock, closes, rules, claims, scan, alerts, reports>>

CommandSave(k) ==
    /\ command[k].pc = "saving"
    /\ rules' = [r \in RuleIds |-> IF ChatOf[r] = command[k].chat THEN command[k].list[r] ELSE rules[r]]
    /\ command' = [command EXCEPT ![k] = IdleCommand]
    /\ UNCHANGED <<clock, closes, positions, claims, scan, alerts, reports, faults>>

CommandAbort(k) ==
    /\ command[k].pc # "idle"
    /\ command' = [command EXCEPT ![k] = IdleCommand]
    /\ UNCHANGED <<clock, store, scan, alerts, reports, faults>>

\* The close settles, and the next trading day begins.  A scan is over within the
\* request timeout, long before the day after it.
Tick ==
    /\ \/ ~clock.evening /\ clock' = [clock EXCEPT !.evening = TRUE]
       \/ /\ clock.evening /\ clock.day < MaxDay /\ \A c \in Scans : scan[c].pc = "idle"
          /\ clock' = [day |-> clock.day + 1, evening |-> FALSE]
    /\ UNCHANGED <<store, scan, command, alerts, reports, faults>>

-----------------------------------------------------------------------------
ScanStep(c) ==
    \/ \E market \in Markets : ScanStart(c, market)
    \/ \E r \in RuleIds : \/ ScanKeep(c, r) \/ ScanReport(c, r) \/ ScanCheck(c, r)
                          \/ ScanClaim(c, r) \/ ScanRelease(c, r) \/ ScanOpen(c, r)
    \/ \E ch \in Chats : ScanChat(c, ch)
    \/ ScanDelete(c) \/ ScanLoad(c) \/ ScanNothingClaimed(c) \/ ScanSend(c)
    \/ ScanEnd(c) \/ ScanAbort(c)

CommandStep(k) ==
    \/ \E r \in RuleIds, rule \in Rule : AddRule(k, r, rule) \/ ModifyRule(k, r, rule)
    \/ \E r \in RuleIds : RemoveRule(k, r) \/ CommandDelete(k, r)
    \/ \E ch \in Chats : RemoveAll(k, ch)
    \/ CommandSave(k) \/ CommandAbort(k)

Next ==
    \/ \E c \in Scans : ScanStep(c)
    \/ \E k \in Commands : CommandStep(k)
    \/ Tick

Spec == Init /\ [][Next]_vars

-----------------------------------------------------------------------------
(***************************************************************************)
(* Properties.                                                             *)
(***************************************************************************)
Happened(kinds, r) == \E kind \in kinds : <<kind, r>> \in faults
Holding(r, pcs) == {c \in Scans : r \in scan[c].batch /\ scan[c].pc \in pcs}

\* However scans overlap, crash and are retried, a rule is announced once on a day,
\* unless a send that raised had been delivered after all.
AlertOncePerDay ==
    \A r \in RuleIds, d \in Days : alerts[r][d] > 1 => Happened({"unheard"}, r)

\* scanner.py:3-5: "Delivery is at-least-once".  A claim that blocks every later scan of
\* its day stands for a message that was sent, or is in the hands of a scan.
ClaimsAreDelivered ==
    \A x \in claims : alerts[x[1]][x[2]] > 0 \/ Holding(x[1], {"claiming", "releasing"}) # {}

\* ClaimsAreDelivered as far as the code keeps it: a crash between claim and send, or a
\* failed release, loses the alert of the day.
ClaimsAreDeliveredOrLost ==
    \A x \in claims : \/ alerts[x[1]][x[2]] > 0
                      \/ Holding(x[1], {"claiming", "releasing"}) # {}
                      \/ Happened({"crash", "release"}, x[1])

\* A rule is never announced while the position of an earlier alert is open, although
\* the look at the position and the send are far apart.
NoAlertWhileOpen ==
    [][\A r \in RuleIds : (\E d \in Days : alerts'[r][d] > alerts[r][d])
          => positions[r] = NoPosition]_vars

\* Every alert is followed up: its position is about to be opened, open, or reported
\* closed, unless a process crashed on it, its send was taken for failed, its rule was
\* removed or two scans closed it together.
AlertsAreTracked ==
    \A r \in RuleIds, d \in Days :
       alerts[r][d] > 0 => \/ reports[r][d] > 0
                           \/ positions[r] # NoPosition /\ positions[r].day = d
                           \/ Holding(r, {"opening"}) # {}
                           \/ Happened({"crash", "unheard", "removed", "overlap"}, r)

\* docs/gcp-resources.md:396: "the endpoint is idempotent [...] per open event position".
\* The closing report of a position is sent once.
ClosingReportedOnce == \A r \in RuleIds, d \in Days : reports[r][d] <= 1

\* ClosingReportedOnce as far as the code keeps it.
ClosingReportedOnceOrDisturbed ==
    \A r \in RuleIds, d \in Days :
       reports[r][d] > 1 => Happened({"crash", "unheard", "delete", "overlap"}, r)

-----------------------------------------------------------------------------
(***************************************************************************)
(* The inductive invariant behind the properties.  A scan holds the claim  *)
(* of a rule from the moment it creates the claim object until the alert   *)
(* is sent and its position open, or the claim released.                   *)
(***************************************************************************)
Unsent(c, r) == r \in scan[c].batch /\ scan[c].pc \in {"claiming", "releasing"}
Opens(c, r) == r \in scan[c].batch /\ scan[c].pc = "opening"
Holds(c, r) == Unsent(c, r) \/ Opens(c, r)
Deletes(c, r) == r \in scan[c].batch /\ scan[c].pc = "deleting"
\* The rules the scan has found without a position and has still to claim.
Wanted(c) == scan[c].hits \cup {r \in scan[c].todo : scan[c].pc = "claiming"}

\* What a scan carries from one phase to the next: the day it started on, the rules as it
\* has read them, and nothing in the lists a phase does not use.
Coherent(st, today) ==
    /\ st.pc # "idle" => st.quote.day = today
    /\ st.pc \in {"checking", "claiming", "releasing", "opening"} =>
          \A r \in st.todo \cup st.hits \cup st.batch : st.list[r] # NoRule
    /\ st.pc \in {"idle", "closing", "deleting"} => st.hits = {}
    /\ st.pc \in {"idle", "closing", "checking"} => st.batch = {}
    /\ st.pc = "deleting" => \A q, r \in st.batch : q = r
ScansCoherent == \A c \in Scans : Coherent(scan[c], clock.day)

\* One scan at a time holds the claim of a rule, and the claim is there.
ClaimsAreHeld ==
    \A c \in Scans, r \in RuleIds : Holds(c, r) =>
       /\ <<r, clock.day>> \in claims
       /\ \A other \in Scans \ {c} : ~Holds(other, r)

\* An alert has its claim, and the holder of a claim that has not sent it finds none.
AlertsHaveClaims ==
    /\ \A r \in RuleIds, d \in Days : alerts[r][d] > 0 => <<r, d>> \in claims \/ Happened({"unheard"}, r)
    /\ \A c \in Scans, r \in RuleIds :
          Unsent(c, r) => alerts[r][clock.day] = 0 \/ Happened({"unheard"}, r)

\* A position has the claim of its day, and a claim is not held while the position is open.
\* A rule that a scan has found without a position may have got one since, but then of today.
PositionsHaveClaims ==
    /\ \A r \in RuleIds : positions[r] # NoPosition => <<r, positions[r].day>> \in claims
    /\ \A c \in Scans, r \in RuleIds : Holds(c, r) => positions[r] = NoPosition
    /\ \A c \in Scans, r \in RuleIds :
          r \in Wanted(c) /\ positions[r] # NoPosition => positions[r].day = clock.day

\* What a scan deletes has been reported, unless it was taken from the scan's hands.
DeletedWasReported ==
    \A c \in Scans, r \in RuleIds : Deletes(c, r) =>
       /\ \/ positions[r] # NoPosition /\ reports[r][positions[r].day] > 0
          \/ Happened({"removed", "overlap"}, r)
       /\ \A other \in Scans \ {c} : Deletes(other, r) => Happened({"overlap"}, r)

\* A report has the claim of its day; it is made once its alert is no longer held, and its
\* position is on the way out.
ReportsHaveClaims ==
    /\ \A r \in RuleIds, d \in Days : reports[r][d] > 0 => <<r, d>> \in claims
    /\ \A c \in Scans, r \in RuleIds : Holds(c, r) => reports[r][clock.day] = 0
    /\ \A r \in RuleIds :
          positions[r] # NoPosition /\ reports[r][positions[r].day] > 0 =>
             (\E c \in Scans : Deletes(c, r)) \/ Happened({"crash", "unheard", "delete", "overlap"}, r)

\* ClaimsAreDeliveredOrLost and AlertsAreTracked with the day of the scan that is at it.
ClaimsTracked ==
    \A r \in RuleIds, d \in Days : <<r, d>> \in claims =>
       \/ alerts[r][d] > 0
       \/ \E c \in Scans : Unsent(c, r) /\ d = clock.day
       \/ Happened({"crash", "release"}, r)
PositionsTracked ==
    \A r \in RuleIds, d \in Days : alerts[r][d] > 0 =>
       \/ reports[r][d] > 0
       \/ positions[r] # NoPosition /\ positions[r].day = d
       \/ \E c \in Scans : Opens(c, r) /\ d = clock.day
       \/ Happened({"crash", "unheard", "removed", "overlap"}, r)

Bookkeeping ==
    /\ ClaimsAreHeld /\ AlertsHaveClaims /\ AlertOncePerDay
    /\ PositionsHaveClaims /\ DeletedWasReported /\ ReportsHaveClaims
    /\ ClosingReportedOnceOrDisturbed /\ ClaimsTracked /\ PositionsTracked

IInv == TypeOK /\ ScansCoherent /\ Bookkeeping

=============================================================================
