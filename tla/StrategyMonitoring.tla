-------------------------- MODULE StrategyMonitoring --------------------------
(***************************************************************************)
(* Strategies of one owner: the drafts that card actions and commands edit *)
(* (discovery/strategy_interaction.py), the objects of the store           *)
(* (strategy_store.py) and the daily scan that evaluates every enabled     *)
(* strategy, sends its card and marks what it sent (strategy_scanner.py),  *)
(* on one trading day.                                                     *)
(*                                                                         *)
(* An action reads an object, decides, and writes the whole object back,   *)
(* without a precondition; only notification markers are created under    *)
(* one.  Each call to the store and each card sent is one step.  Drafts    *)
(* are kept in the order of their updates, so the last one is the latest. *)
(***************************************************************************)
EXTENDS Naturals, Sequences, FiniteSets, SequencesExt

CONSTANTS
    DraftIds, StrategyIds,  \* uuid4 identifiers, never reused
    RowLists,               \* result rows an evaluation may return, by their identities
    Ops,                    \* card actions and commands in flight
    Scans,                  \* scan requests: the scheduler's, its retry, a preview
    CardRows,               \* MAX_CARD_RESULT_ROWS
    MaxFaults,
    None

States == {"awaiting_name", "awaiting_direction", "awaiting_rules", "ready"}
Kinds  == {"legacy", "compiled"}
Draft  == [id : DraftIds, state : States, name : BOOLEAN, direction : BOOLEAN,
           rules : Kinds \cup {None}]
Strategy == [rules : Kinds, enabled : BOOLEAN]
Rows   == UNION {Range(r) : r \in RowLists}

ASSUME Bounds       == CardRows \in Nat \ {0} /\ MaxFaults \in Nat
ASSUME ListsOfRows  == RowLists \subseteq Seq(Rows)
ASSUME IdsAreUnique == DraftIds \cap StrategyIds = {}
ASSUME NoneIsNew    == None \notin DraftIds \cup StrategyIds \cup Draft \cup Strategy \cup Kinds

VARIABLES
    drafts,      \* strategies/drafts/, by their last update
    strategies,  \* strategies/configs/
    markers,     \* strategies/notifications/: <<strategy, row>> pairs
    op,          \* the actions in flight
    scan,        \* the scans in flight
    shown,       \* history: pairs that some delivered card of a scan listed
    cut,         \* history: pairs counted in a card but left out of its rows
    origin,      \* history: the draft a strategy was saved from
    gone,        \* history: drafts and strategies some action has deleted
    raced,       \* history: drafts and strategies whose actions overlapped or stopped half-way
    faults

interaction == <<drafts, strategies, op, origin, gone, raced>>
scanning    == <<markers, scan, shown, cut>>
vars == <<interaction, scanning, faults>>

IdleOp   == [pc |-> "idle", draft |-> None, id |-> None, strategy |-> None]
IdleScan == [pc |-> "idle", preview |-> FALSE, legacy |-> {}, compiled |-> {}, left |-> <<>>,
             rows |-> <<>>, due |-> {}, sent |-> {}, gave |-> {}, failed |-> {}, known |-> {}]

Fault   == faults < MaxFaults /\ faults' = faults + 1
NoFault == UNCHANGED faults

-----------------------------------------------------------------------------
\* The store.

Has(id)      == \E i \in DOMAIN drafts : drafts[i].id = id
Position(id) == CHOOSE i \in DOMAIN drafts : drafts[i].id = id
Without(id)  == IF Has(id) THEN RemoveAt(drafts, Position(id)) ELSE drafts
PutDraft(d)   == drafts' = Append(Without(d.id), d)
DropDraft(id) == drafts' = Without(id)

-----------------------------------------------------------------------------
\* Card actions and commands.

Free(o)      == op[o].pc = "idle"
Finish(o)    == op' = [op EXCEPT ![o] = [IdleOp EXCEPT !.pc = "done"]]
Holds(o, d)  == op[o].draft # None /\ op[o].draft.id = d

\* An action on x overlaps another one, or writes over what another one has changed.
Overlaps(o, x) == \E p \in Ops \ {o} : op[p].id = x \/ Holds(p, x)
Race(o, x, changed) == raced' = IF changed \/ Overlaps(o, x) THEN raced \cup {x} ELSE raced

NewDrafts == {d \in DraftIds \ gone : /\ ~Has(d)
                                      /\ \A s \in StrategyIds : origin[s] # d
                                      /\ \A o \in Ops : ~Holds(o, d)}

\* _create_draft: a draft created with its name starts one state later.
CreateDraft(o) ==
    /\ Free(o)
    /\ \E d \in NewDrafts, named \in BOOLEAN :
         PutDraft([id |-> d, name |-> named, direction |-> FALSE, rules |-> None,
                   state |-> IF named THEN "awaiting_direction" ELSE "awaiting_name"])
    /\ Finish(o)
    /\ UNCHANGED <<strategies, origin, gone, raced, scanning, faults>>

\* The draft an action edits: the latest one for text commands, the card's for buttons.
Chosen(kind) == IF drafts = <<>> THEN {}
                ELSE IF kind \in {"name", "rules"} THEN {Last(drafts)} ELSE Range(drafts)
Allowed(kind, d) ==
    CASE kind = "name"      -> d.state = "awaiting_name"
      [] kind = "direction" -> d.state = "awaiting_direction"
      [] kind = "rules"     -> d.state \in {"awaiting_rules", "ready"}
      [] kind = "save"      -> d.state = "ready" /\ d.name /\ d.direction
      [] kind = "cancel"    -> TRUE

\* The read of _apply_name, _apply_direction, _apply_rules, _save_draft and the cancels; a
\* draft in another state is answered with a notice and nothing is written.
ReadDraft(o) ==
    /\ Free(o)
    /\ \E kind \in {"name", "direction", "rules", "save", "cancel"} : \E d \in Chosen(kind) :
         /\ Allowed(kind, d)
         /\ op' = [op EXCEPT ![o] = [IdleOp EXCEPT !.pc = kind, !.draft = d]]
    /\ UNCHANGED <<drafts, strategies, origin, gone, raced, scanning, faults>>

\* What is written back: the copy that was read, one state on.
Edited(o) ==
    LET d == op[o].draft
    IN  CASE op[o].pc = "name"      -> {[d EXCEPT !.name = TRUE, !.state = "awaiting_direction"]}
          [] op[o].pc = "direction" -> {[d EXCEPT !.direction = TRUE, !.state = "awaiting_rules"]}
          [] op[o].pc = "rules"     -> {[d EXCEPT !.rules = k, !.state = "ready"] : k \in Kinds}
Stale(o) == op[o].draft \notin Range(drafts)

EditDraft(o) ==
    /\ op[o].pc \in {"name", "direction", "rules"}
    /\ \E d \in Edited(o) : PutDraft(d)
    /\ Race(o, op[o].draft.id, Stale(o))
    /\ Finish(o)
    /\ UNCHANGED <<strategies, origin, gone, scanning, faults>>

\* Text that neither parses nor compiles is answered with suggestions; the draft stays.
RulesRejected(o) ==
    /\ op[o].pc = "rules" /\ Finish(o)
    /\ UNCHANGED <<drafts, strategies, origin, gone, raced, scanning, faults>>

CancelDraft(o) ==
    /\ op[o].pc = "cancel"
    /\ DropDraft(op[o].draft.id) /\ Finish(o)
    /\ gone' = gone \cup {op[o].draft.id}
    /\ Race(o, op[o].draft.id, Stale(o))
    /\ UNCHANGED <<strategies, origin, scanning, faults>>

\* _save_draft writes the strategy under a new identifier and then deletes the draft; when
\* the second call fails the draft stays, ready to be saved again.
SaveStrategy(o) ==
    /\ op[o].pc = "save"
    /\ \E s \in StrategyIds :
         /\ origin[s] = None /\ strategies[s] = None /\ s \notin gone
         /\ strategies' = [strategies EXCEPT ![s] = [rules |-> op[o].draft.rules, enabled |-> TRUE]]
         /\ origin' = [origin EXCEPT ![s] = op[o].draft.id]
    /\ op' = [op EXCEPT ![o].pc = "saved"]
    /\ Race(o, op[o].draft.id, Stale(o))
    /\ UNCHANGED <<drafts, gone, scanning, faults>>
SavedDraftKept(o) == UNCHANGED drafts        \* mutant of SavedDraft
SavedDraft(o) == DropDraft(op[o].draft.id)
SaveDelete(o) ==
    /\ op[o].pc = "saved"
    /\ \/ SavedDraft(o) /\ NoFault /\ Race(o, op[o].draft.id, Stale(o))
            /\ gone' = gone \cup {op[o].draft.id}
       \/ Fault /\ UNCHANGED <<drafts, gone>> /\ Race(o, op[o].draft.id, TRUE)
    /\ Finish(o)
    /\ UNCHANGED <<strategies, origin, scanning>>

\* _toggle_strategy writes back the copy it read; _delete_strategy deletes what it found.
ReadStrategy(o) ==
    /\ Free(o)
    /\ \E s \in StrategyIds, kind \in {"toggle", "delete"} :
         /\ strategies[s] # None
         /\ op' = [op EXCEPT ![o] = [IdleOp EXCEPT !.pc = kind, !.id = s, !.strategy = strategies[s]]]
    /\ UNCHANGED <<drafts, strategies, origin, gone, raced, scanning, faults>>
WriteStrategy(o) ==
    /\ op[o].pc \in {"toggle", "delete"}
    /\ strategies' = [strategies EXCEPT ![op[o].id] =
         IF op[o].pc = "delete" THEN None
         ELSE [op[o].strategy EXCEPT !.enabled = ~op[o].strategy.enabled]]
    /\ Race(o, op[o].id, strategies[op[o].id] # op[o].strategy)
    /\ gone' = IF op[o].pc = "delete" THEN gone \cup {op[o].id} ELSE gone
    /\ Finish(o)
    /\ UNCHANGED <<drafts, origin, scanning, faults>>

-----------------------------------------------------------------------------
\* The scan.

At(c, pc)   == scan[c].pc = pc
Enabled     == {s \in StrategyIds : strategies[s] # None /\ strategies[s].enabled}
OfKind(k)   == {s \in Enabled : strategies[s].rules = k}

\* The legacy strategies first, each kind in the fixed order of the listing.
Todo(r)     == IF r.legacy # {} THEN r.legacy ELSE r.compiled
Current(r)  == CHOOSE s \in Todo(r) : TRUE
LeftTodo(r, rest) == IF r.legacy # {} THEN [r EXCEPT !.legacy = rest] ELSE [r EXCEPT !.compiled = rest]
AfterPhase(r) == IF r.legacy # {} /\ r.compiled # {} THEN "load" ELSE "ok"

\* run_daily_scan and run_manual_preview list the enabled strategies and split them by kind;
\* they keep the copies they read.
ScanStart(c) ==
    /\ At(c, "idle")
    /\ \E preview \in BOOLEAN :
         scan' = [scan EXCEPT ![c] = [IdleScan EXCEPT
           !.pc = IF Enabled = {} THEN "ok" ELSE "load", !.preview = preview,
           !.legacy = OfKind("legacy"), !.compiled = OfKind("compiled"), !.due = Enabled, !.known = markers]]
    /\ UNCHANGED <<interaction, markers, shown, cut, faults>>

\* The shared history, or the trading calendar of the daily scan: on a day without trading
\* the phase's strategies are passed over, and a failed call ends the scan.
SkipPhase(r) == [LeftTodo(r, {}) EXCEPT !.pc = AfterPhase(r), !.due = r.due \ Todo(r)]
ScanLoad(c) ==
    /\ At(c, "load")
    /\ \/ scan' = [scan EXCEPT ![c].pc = "evaluate"] /\ NoFault
       \/ /\ ~scan[c].preview /\ NoFault
          /\ scan' = [scan EXCEPT ![c] = SkipPhase(scan[c])]
       \/ Fault /\ scan' = [scan EXCEPT ![c].pc = "failed"]
    /\ UNCHANGED <<interaction, markers, shown, cut>>

\* _run_strategy and the body of _run_compiled_strategies evaluate one strategy.
ScanEvaluate(c) ==
    /\ At(c, "evaluate")
    /\ \E rows \in RowLists :
         scan' = [scan EXCEPT ![c] = [scan[c] EXCEPT !.pc = "check", !.left = rows, !.rows = <<>>]]
    /\ UNCHANGED <<interaction, markers, shown, cut, faults>>

\* is_notification_sent, row by row; a preview reads no marker.
DeliverableToday(c, r) == TRUE                \* mutant of Deliverable: no marker is read
Deliverable(c, r) == scan[c].preview \/ <<Current(scan[c]), r>> \notin markers
Checked(c) ==
    LET r == scan[c]
    IN  IF r.left = <<>> THEN [r EXCEPT !.pc = "send"]
        ELSE [r EXCEPT !.left = Tail(r.left),
                       !.rows = IF Deliverable(c, Head(r.left)) THEN Append(r.rows, Head(r.left))
                                ELSE r.rows]
ScanCheck(c) ==
    /\ At(c, "check")
    /\ scan' = [scan EXCEPT ![c] = Checked(c)]
    /\ UNCHANGED <<interaction, markers, shown, cut, faults>>

\* The card lists every new signal of a legacy strategy, and the first CardRows rows of a
\* compiled one.
Pairs(r, rows) == {<<Current(r), row>> : row \in Range(rows)}
Listed(r)   == IF r.legacy # {} \/ Len(r.rows) <= CardRows THEN r.rows ELSE SubSeq(r.rows, 1, CardRows)
ShowCard(c) == LET r == scan[c]
               IN  /\ shown' = shown \cup Pairs(r, Listed(r))
                   /\ cut' = cut \cup (Pairs(r, r.rows) \ Pairs(r, Listed(r)))

\* After a strategy the next one, and after the last one of a phase the next phase; a failure
\* of any strategy of the phase is raised once all of them have been tried.
Proceed(r) ==
    LET rest == Todo(r) \ {Current(r)}
    IN  [LeftTodo(r, rest) EXCEPT !.pc = IF rest # {} THEN "evaluate"
                                         ELSE IF r.failed # {} THEN "failed" ELSE AfterPhase(r)]
StrategySent(r) == [r EXCEPT !.sent = r.sent \cup {Current(r)}, !.left = r.rows,
                             !.gave = r.gave \cup Pairs(r, r.rows), !.pc = "mark"]
Failing(r) == [r EXCEPT !.failed = r.failed \cup {Current(r)}]
StrategyFailsMarked(r) == IF r.pc = "send" THEN StrategySent(r)     \* mutant of StrategyFails:
                          ELSE Proceed(Failing(r))                  \* marks follow a failed send
StrategyFailsSilent(r) == Proceed(r)      \* mutant of StrategyFails: not reported
StrategyFails(r) == Proceed(Failing(r))

\* _send_with_at_all_fallback: the card arrives, with or without its mention of everyone; or
\* no card arrives; or one does and the call still reports an error.
ScanSend(c) ==
    /\ At(c, "send")
    /\ \/ /\ ShowCard(c) /\ NoFault
          /\ scan' = [scan EXCEPT ![c] = IF scan[c].preview THEN Proceed(StrategySent(scan[c]))
                                         ELSE StrategySent(scan[c])]
       \/ /\ Fault /\ scan' = [scan EXCEPT ![c] = StrategyFails(scan[c])]
          /\ ShowCard(c) \/ UNCHANGED <<shown, cut>>
    /\ UNCHANGED <<interaction, markers>>

\* mark_notification_sent, row by row, for every row the check let through.
ScanMark(c) ==
    /\ At(c, "mark")
    /\ IF scan[c].left = <<>>
       THEN scan' = [scan EXCEPT ![c] = Proceed(scan[c])] /\ UNCHANGED markers
       ELSE /\ markers' = markers \cup {<<Current(scan[c]), Head(scan[c].left)>>}
            /\ scan' = [scan EXCEPT ![c].left = Tail(@)]
    /\ UNCHANGED <<interaction, shown, cut, faults>>

\* Evaluating a strategy, or a call to the store for it, fails: the others go on.
ScanStrategyFails(c) ==
    /\ scan[c].pc \in {"evaluate", "check", "mark"}
    /\ Fault /\ scan' = [scan EXCEPT ![c] = StrategyFails(scan[c])]
    /\ UNCHANGED <<interaction, markers, shown, cut>>

\* The instance that runs the scan is replaced.
ScanCrash(c) ==
    /\ scan[c].pc \notin {"idle", "ok", "failed", "crashed"}
    /\ Fault /\ scan' = [scan EXCEPT ![c].pc = "crashed"]
    /\ UNCHANGED <<interaction, markers, shown, cut>>

-----------------------------------------------------------------------------

\* A store with some drafts and saved strategies, and the requests that will come.  Drafts
\* have identifiers of their own, and what the steps up to their states have set.
Complete(d) ==
    /\ d.state # "awaiting_name" => d.name
    /\ d.state \in {"awaiting_rules", "ready"} => d.direction
    /\ d.state = "ready" <=> d.rules # None
StoredDrafts(ds) ==
    /\ \A i, j \in DOMAIN ds : ds[i].id = ds[j].id => i = j
    /\ \A i \in DOMAIN ds : Complete(ds[i])
InitWith(ds, saved, requested, scheduled) ==
    /\ drafts = ds /\ strategies = saved /\ markers = {} /\ shown = {} /\ cut = {}
    /\ op = [o \in Ops |-> IF o \in requested THEN IdleOp ELSE [IdleOp EXCEPT !.pc = "done"]]
    /\ scan = [c \in Scans |-> IF c \in scheduled THEN IdleScan ELSE [IdleScan EXCEPT !.pc = "ok"]]
    /\ origin = [s \in StrategyIds |-> None] /\ gone = {} /\ raced = {} /\ faults = 0
Init == \E ds \in Seq(Draft), saved \in [StrategyIds -> Strategy \cup {None}],
           requested \in SUBSET Ops, scheduled \in SUBSET Scans :
             StoredDrafts(ds) /\ InitWith(ds, saved, requested, scheduled)

Next == \/ \E o \in Ops : \/ CreateDraft(o) \/ ReadDraft(o) \/ EditDraft(o) \/ RulesRejected(o)
                          \/ CancelDraft(o) \/ SaveStrategy(o) \/ SaveDelete(o)
                          \/ ReadStrategy(o) \/ WriteStrategy(o)
        \/ \E c \in Scans : \/ ScanStart(c) \/ ScanLoad(c) \/ ScanEvaluate(c) \/ ScanCheck(c)
                            \/ ScanSend(c) \/ ScanMark(c) \/ ScanStrategyFails(c) \/ ScanCrash(c)

Spec == Init /\ [][Next]_vars

-----------------------------------------------------------------------------

OpType   == [pc : {"idle", "done", "name", "direction", "rules", "save", "saved", "cancel",
                   "toggle", "delete"},
             draft : Draft \cup {None}, id : StrategyIds \cup {None}, strategy : Strategy \cup {None}]
ScanType == [pc : {"idle", "load", "evaluate", "check", "send", "mark", "ok", "failed", "crashed"},
             preview : BOOLEAN, legacy : SUBSET StrategyIds, compiled : SUBSET StrategyIds,
             left : Seq(Rows), rows : Seq(Rows), due : SUBSET StrategyIds,
             sent : SUBSET StrategyIds, gave : SUBSET (StrategyIds \X Rows),
             failed : SUBSET StrategyIds, known : SUBSET (StrategyIds \X Rows)]

\* Types; the stored drafts have identifiers of their own and what the steps up to their states
\* have set.
TypeOK ==
    /\ drafts \in Seq(Draft) /\ StoredDrafts(drafts)
    /\ strategies \in [StrategyIds -> Strategy \cup {None}]
    /\ markers \in SUBSET (StrategyIds \X Rows)
    /\ op \in [Ops -> OpType] /\ scan \in [Scans -> ScanType]
    /\ shown \in SUBSET (StrategyIds \X Rows) /\ cut \in SUBSET (StrategyIds \X Rows)
    /\ origin \in [StrategyIds -> DraftIds \cup {None}]
    /\ gone \in SUBSET (DraftIds \cup StrategyIds) /\ raced \in SUBSET (DraftIds \cup StrategyIds)
    /\ faults \in 0..MaxFaults

\* A row is only marked as notified after a card of its strategy was delivered that listed it,
\* or counted it among the rows left out: a mark never loses a notification.
MarkedWasDelivered == markers \subseteq shown \cup cut

\* A scan that starts when a row is marked does not send that row again, whatever other scans
\* and their failures do meanwhile.
MarkedIsNotRepeated ==
    \A c \in Scans : ~scan[c].preview => scan[c].gave \cap scan[c].known = {}

\* A scan that ends well has delivered a card for every enabled strategy it listed, those of
\* phases without trading apart, and marked every row it delivered.
GoodScansAreComplete ==
    \A c \in Scans : At(c, "ok") =>
        /\ scan[c].failed = {} /\ scan[c].due \subseteq scan[c].sent
        /\ ~scan[c].preview => scan[c].gave \subseteq markers

\* A draft becomes one strategy, and a draft or a strategy that was deleted stays so, unless
\* the owner's actions on it overlapped or a save stopped between its two writes.
OnlyRacesUndoWork ==
    /\ \A d \in DraftIds \ raced : Cardinality({s \in StrategyIds : origin[s] = d}) <= 1
    /\ \A d \in Range(drafts) : d.id \notin gone \ raced
    /\ \A s \in StrategyIds \ raced : s \in gone => strategies[s] = None

-----------------------------------------------------------------------------
\* The inductive invariant.

\* Every strategy a scan listed has its card, has failed, or is still to come.
Accounted(r) == r.due \subseteq r.sent \cup r.failed \cup r.legacy \cup r.compiled
Running      == {"load", "evaluate", "check", "send", "mark"}

\* One scan r, among the markers ms and the delivered pairs ds: what it is about to send was
\* not marked when it started, what it is about to mark was delivered, and a scan no strategy
\* of which has failed has marked what it delivered before the strategy at hand.
ScanOf(r, ms, ds) ==
    /\ r.known \subseteq ms
    /\ ~r.preview => r.gave \cap r.known = {}
    /\ (~r.preview /\ r.pc \in {"check", "send"}) => Pairs(r, r.rows) \cap r.known = {}
    /\ r.pc = "mark" => Current(r) \in r.sent /\ Pairs(r, r.left) \subseteq ds
    /\ r.pc \in Running => Accounted(r) /\ Todo(r) # {}
    /\ r.pc \in {"load", "ok"} => r.failed = {}
    /\ r.pc = "ok" => r.due \subseteq r.sent
    /\ (~r.preview /\ r.failed = {} /\ r.pc \in Running \cup {"ok"}) =>
         r.gave \subseteq ms \cup (IF r.pc = "mark" THEN Pairs(r, r.left) ELSE {})

Scanning == \A c \in Scans : ScanOf(scan[c], markers, shown \cup cut)

\* A draft that became a strategy, and on which no actions overlapped, has left the store or is
\* held by the save that is about to delete it.
Saving == \A s \in StrategyIds, x \in DraftIds \ raced :
            origin[s] = x => \/ \E o \in Ops : op[o].pc = "saved" /\ Holds(o, x)
                             \/ ~Has(x) /\ \A o \in Ops : ~Holds(o, x)
SavedOnce == \A s, t \in StrategyIds :
               (origin[s] = origin[t] /\ origin[s] \in DraftIds \ raced) => s = t

\* What an action under way has read.
Reading == \A o \in Ops :
    /\ op[o].pc \in {"toggle", "delete"} => op[o].id \in StrategyIds /\ op[o].strategy \in Strategy
    /\ op[o].pc \in {"name", "direction", "rules", "save", "saved", "cancel"} =>
         op[o].draft \in Draft /\ Complete(op[o].draft)
    /\ op[o].pc \in {"name", "direction", "rules", "save"} => Allowed(op[o].pc, op[o].draft)

GoneDrafts     == \A d \in Range(drafts) : d.id \notin gone \ raced
GoneStrategies == \A s \in StrategyIds \ raced : s \in gone => strategies[s] = None

IInv == TypeOK /\ MarkedWasDelivered /\ Scanning /\ Reading /\ Saving /\ SavedOnce
        /\ GoneDrafts /\ GoneStrategies
=============================================================================
