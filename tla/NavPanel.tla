------------------------------- MODULE NavPanel -------------------------------
(***************************************************************************)
(* The sidebar (ui/navigation_panel.go): the rows it builds from plans,    *)
(* topics and instances, and what stays selected when they are rebuilt     *)
(* under the user's hands, by the metadata tick and by what agents do.     *)
(* The kill, rename and prompt keys of the Update loop act on the row that *)
(* is selected when they are pressed.                                      *)
(*                                                                         *)
(* Abstracted: rendering, scrolling and the mouse's zones; names are their *)
(* rank in alphabetical order; a search is for a plan's name; one topic;   *)
(* history is sorted by name; implementation-complete marks.               *)
(***************************************************************************)
EXTENDS Lists, FiniteSets, SequencesExt

CONSTANTS
    NPlans,      \* plans are 1 .. NPlans, in the order of their names
    InTopic,     \* the plans that have the topic
    Agents,      \* instances of agents
    PlanOf,      \* the plan of an agent, 0 for none
    TitleOf,     \* the title of an agent, its rank
    Reviewers,   \* the agents that review
    New,         \* the instance the user names in the sidebar
    NoInst,      \* no instance
    NTitles,     \* titles are 1 .. NTitles; 0 is the empty one
    ImportRow,   \* whether ClickUp is configured
    MaxMoves,    \* bound on the user's acts
    MaxChanges   \* bound on changes of agents and plans

Plans  == 1 .. NPlans
Insts  == Agents \cup {New}
Titles == 0 .. NTitles

ASSUME NavAssumption ==
    /\ NPlans \in Nat /\ NTitles \in Nat /\ InTopic \subseteq Plans
    /\ PlanOf \in [Agents -> Plans \cup {0}] /\ TitleOf \in [Agents -> Titles \ {0}]
    /\ Reviewers \subseteq Agents /\ New \notin Agents /\ NoInst \notin Insts
    /\ ImportRow \in BOOLEAN /\ {MaxMoves, MaxChanges} \subseteq Nat

VARIABLES
    stored,  \* per plan, its status in the plan state
    at,      \* per instance, the fields the panel reads through its pointer
    n,       \* the panel
    seen,    \* seenNotified: the instance whose notification the user looks at
    naming,  \* whether the user is naming the new instance (stateNew)
    used     \* per bound, what was used of it

vars == <<stored, at, n, seen, naming, used>>

\* away: not in the plan state, or cancelled, which the sidebar is not given.
Status == {"away", "ready", "implementing", "done"}

Kinds == {"import", "dead", "plan", "inst", "solo", "topic", "history", "past"}

Row == [kind : Kinds, plan : Plans \cup {0}, inst : Insts \cup {NoInst},
        title : Titles, collapsed : BOOLEAN]

TypeOK ==
    /\ stored \in [Plans -> Status]
    /\ \A i \in Insts :
          at[i] \in [title : Titles, plan : Plans \cup {0}, notified : BOOLEAN,
                     status : {"new", "loading", "running", "ready", "paused"}]
    /\ n.rows \in Seq(Row)
    /\ n.sel \in 1 .. Len(n.rows) \/ (n.rows = <<>> /\ n.sel = 1)
    /\ n.list \in Seq(Insts) /\ IsInjective(n.list)
    /\ n.plans \subseteq Plans /\ n.topic \subseteq InTopic
    /\ {n.dead, n.promoted, n.history} \subseteq Seq(Plans)
    /\ n.running \subseteq Plans /\ n.notes \subseteq Plans
    /\ n.folded \subseteq Plans \cup {0} /\ n.overrides \subseteq Plans
    /\ n.query \in Plans \cup {0}
    /\ seen \in Insts \cup {NoInst} /\ naming \in BOOLEAN
    /\ used.moves \in 0 .. MaxMoves /\ used.changes \in 0 .. MaxChanges

Affordable(b) == used[b] < (IF b = "moves" THEN MaxMoves ELSE MaxChanges)
Spend(b)      == [used EXCEPT ![b] = @ + 1]

----------------------------------------------------------------------------
(* The rows *)

\* navInstanceSortKey: running before notified before paused before the rest.
InstKey(a) ==
    IF a.status \in {"running", "loading"} THEN 0
    ELSE IF a.status = "paused" THEN 2
    ELSE IF a.notified THEN 1 ELSE 3

\* sortInstances: a stable sort by the key and the title.
Titled(list, i) ==
    FlattenSeq([t \in 1 .. NTitles + 1 |-> Only(list, {x \in Insts : i[x].title = t - 1})])

Sorted(list, i) ==
    FlattenSeq([k \in 1 .. 4 |->
        Titled(Only(list, {x \in Insts : InstKey(i[x]) = k - 1}), i)])

Working(a) == a.status \in {"running", "loading"}
Of(m, p, i) == Only(m.list, {x \in Insts : i[x].plan = p})

\* aggregateNavPlanStatus
HasRunning(m, p, i) == p \in m.running \/ \E x \in ToSet(Of(m, p, i)) : Working(i[x])
HasNote(m, p, i)    == p \in m.notes \/ \E x \in ToSet(Of(m, p, i)) : i[x].notified

\* navPlanSortKey: attention, active, idle.
PlanKey(m, p, i) ==
    IF HasNote(m, p, i) THEN 0
    ELSE IF HasRunning(m, p, i) \/ m.shown[p] = "implementing" THEN 1 ELSE 2

\* isPlanCollapsed: as the user left it, or open while something happens in it.
Folded(m, p, i) ==
    IF p \in m.overrides THEN p \in m.folded
    ELSE ~HasRunning(m, p, i) /\ ~HasNote(m, p, i)

ARow(kind, p, collapsed) ==
    [kind |-> kind, plan |-> p, inst |-> NoInst, title |-> 0, collapsed |-> collapsed]

InstRow(x, i) ==
    [kind |-> "inst", plan |-> i[x].plan, inst |-> x, title |-> i[x].title,
     collapsed |-> FALSE]

Rows(list, i) == [k \in 1 .. Len(list) |-> InstRow(list[k], i)]

\* appendPlan: the header, and the plan's instances unless it is folded.
PlanRows(m, p, i) ==
    <<ARow("plan", p, Folded(m, p, i))>>
    \o (IF Folded(m, p, i) THEN <<>> ELSE Rows(Sorted(Of(m, p, i), i), i))

RowsOf(list, m, i) == FlattenSeq([k \in 1 .. Len(list) |-> PlanRows(m, list[k], i)])

\* The plans in the order of their names.
ByName == [p \in Plans |-> p]

\* The active plans, sorted by their key and then by name.
Ranked(m, i, keys) ==
    FlattenSeq([k \in 1 .. 3 |->
        Only(ByName, {p \in m.plans : k - 1 \in keys /\ PlanKey(m, p, i) = k - 1})])

DeadRows(m, i) ==
    IF m.dead = <<>> THEN <<>>
    ELSE <<ARow("dead", 0, ~m.deadOpen)>>
         \o (IF m.deadOpen THEN RowsOf(m.dead, m, i) ELSE <<>>)

SoloRows(m, i) ==
    IF Of(m, 0, i) = <<>> THEN <<>>
    ELSE <<ARow("solo", 0, FALSE)>> \o Rows(Sorted(Of(m, 0, i), i), i)

\* Idle plans: the topic with its own, unless it is folded, then the others.
IdleRows(m, i) ==
    LET idle    == Ranked(m, i, {2})
        grouped == Only(ByName, m.topic \cap ToSet(idle))
        others  == Only(idle, Plans \ ToSet(grouped))
    IN (IF grouped = <<>> THEN <<>>
        ELSE <<ARow("topic", 0, 0 \in m.folded)>>
             \o (IF 0 \in m.folded THEN <<>> ELSE RowsOf(grouped, m, i)))
       \o RowsOf(others, m, i)

HistoryRows(m) ==
    IF m.history = <<>> THEN <<>>
    ELSE <<ARow("history", 0, ~m.histOpen)>>
         \o (IF m.histOpen
             THEN [k \in 1 .. Len(m.history) |-> ARow("past", m.history[k], FALSE)]
             ELSE <<>>)

AllRows(m, i) ==
    (IF ImportRow THEN <<ARow("import", 0, FALSE)>> ELSE <<>>)
    \o DeadRows(m, i) \o RowsOf(Ranked(m, i, {0, 1}), m, i) \o SoloRows(m, i)
    \o IdleRows(m, i) \o HistoryRows(m)

\* The identifier of a row: a plan's whether live or past, an instance's title, or
\* the kind of the row.
Id(r) == IF r.kind \in {"plan", "past"} THEN <<"plan", r.plan>>
         ELSE IF r.kind = "inst" THEN <<"inst", r.title>> ELSE <<r.kind, 0>>

Min2(a, b) == IF a < b THEN a ELSE b

\* Mutant of Reselect: the position is kept, whatever row is there now.
PositionReselect(m, rows) ==
    LET k == Min2(m.sel, Len(rows)) IN
    IF rows = <<>> THEN 1
    ELSE IF rows[k].kind = "solo" /\ m.rows # <<>>
    THEN IF k < Len(rows) THEN k + 1 ELSE k - 1 ELSE k

\* Mutant of Reselect: no reset when there are no rows left.
UnresetReselect(m, rows) ==
    LET same == IF m.rows = <<>> THEN 0
                ELSE SelectInSeq(rows, LAMBDA r : Id(r) = Id(m.rows[m.sel]))
    IN IF rows = <<>> THEN m.sel ELSE IF same # 0 THEN same ELSE Min2(m.sel, Len(rows))

\* What is selected among the rebuilt rows: the row with the same identifier, else
\* the same position, off the divider of the agents without a plan.
Reselect(m, rows) ==
    LET same == IF m.rows = <<>> THEN 0
                ELSE SelectInSeq(rows, LAMBDA r : Id(r) = Id(m.rows[m.sel]))
        k    == Min2(m.sel, Len(rows))
    IN IF rows = <<>> THEN 1
       ELSE IF same # 0 THEN same
       ELSE IF rows[k].kind = "solo" /\ m.rows # <<>>
       THEN IF k < Len(rows) THEN k + 1 ELSE k - 1
       ELSE k

\* rebuildRows
Rebuild(m, i) ==
    LET rows == AllRows(m, i)
    IN [m EXCEPT !.rows = rows, !.sel = Reselect(m, rows)]

\* splitDeadFromHistory: a finished plan is promoted while an instance of it works,
\* dead while it has instances or was inspected, and history otherwise.  What was
\* promoted before leaves the active plans first.
Split(m, finished, i) ==
    LET works(p) == \E x \in ToSet(Of(m, p, i)) : Working(i[x])
        kept(p)  == Of(m, p, i) # <<>> \/ p \in m.inspected
        up       == Only(finished, {p \in Plans : works(p)})
    IN [m EXCEPT
          !.plans    = (@ \ ToSet(m.promoted)) \cup ToSet(up),
          !.promoted = up,
          !.dead     = Only(finished, {p \in Plans : ~works(p) /\ kept(p)}),
          !.history  = Only(finished, {p \in Plans : ~works(p) /\ ~kept(p)})]

\* resplitDead
Resplit(m, i) == Split(m, m.dead \o m.promoted \o m.history, i)

----------------------------------------------------------------------------
(* The operations of the panel *)

Selected(m)     == IF m.rows = <<>> THEN NoInst ELSE m.rows[m.sel].inst
SelectedPlan(m) == IF m.rows = <<>> THEN 0 ELSE m.rows[m.sel].plan

\* computePlanStatuses
Restated(m, i) ==
    LET on(p, rev) == \E x \in ToSet(Of(m, p, i)) :
                        /\ x \in Reviewers <=> rev
                        /\ \/ i[x].status \in {"running", "ready"}
                           \/ rev /\ i[x].notified
    IN [m EXCEPT !.running = {p \in Plans : on(p, FALSE)},
                 !.notes   = {p \in Plans : on(p, TRUE)}]

\* updateNavPanelStatus: SetItems
Restat(m, i) == Rebuild(Restated(m, i), i)

\* What the plan state is asked for.  The plans of the topic include the finished.
PlansByTopic   == {p \in InTopic : stored[p] # "away"}
UngroupedPlans == {p \in Plans \ InTopic : stored[p] \notin {"away", "done"}}
Finished       == Only([k \in Plans |-> NPlans + 1 - k], {p \in Plans : stored[p] = "done"})

\* updateSidebarPlans: the topic's unfinished plans and those without a topic.
Sidebar(m) ==
    LET topic == {p \in PlansByTopic : stored[p] # "done"}
    IN [m EXCEPT !.plans = topic \cup UngroupedPlans, !.topic = topic, !.shown = stored]

\* SetTopicsAndPlans
Refreshed(m, i) == Rebuild(Split(Sidebar(Restated(m, i)), Finished, i), i)

\* Mutant of Added: the finished plans are not partitioned again.
UnsplitAdded(m, x, i) == Rebuild([m EXCEPT !.list = Append(@, x)], i)

\* AddInstance
Added(m, x, i) ==
    LET with == [m EXCEPT !.list = Append(@, x)] IN Rebuild(Resplit(with, i), i)

\* RemoveByTitle: the first instance that has the title.
RemovedTitle(m, title, i) ==
    IF \E x \in ToSet(m.list) : i[x].title = title
    THEN LET left == [m EXCEPT !.list = RemoveFirstMatch(@, LAMBDA x : i[x].title = title)]
         IN Rebuild(Resplit(left, i), i)
    ELSE m

RowOf(m, x) == SelectInSeq(m.rows, LAMBDA r : r.inst = x)

\* SelectInstance: its plan is unfolded when it has no row.
SelectInst(m, x, i) ==
    LET open == Rebuild([m EXCEPT !.folded = @ \ {i[x].plan},
                                  !.overrides = @ \cup {i[x].plan}], i)
    IN IF RowOf(m, x) # 0 THEN [m EXCEPT !.sel = RowOf(m, x)]
       ELSE IF i[x].plan = 0 THEN m
       ELSE IF RowOf(open, x) # 0 THEN [open EXCEPT !.sel = RowOf(open, x)] ELSE open

\* rowMatchesSearch
Matches(m, k) == m.query = 0 \/ m.rows[k].plan = m.query

Steps(m, ks) == {k \in ks : m.rows[k].kind # "solo" /\ Matches(m, k)}

Up(m) ==
    LET above == Steps(m, 1 .. m.sel - 1)
    IN IF above = {} THEN m ELSE [m EXCEPT !.sel = Max(above)]

Down(m) ==
    LET below == Steps(m, m.sel + 1 .. Len(m.rows))
    IN IF below = {} THEN m ELSE [m EXCEPT !.sel = Min(below)]

\* SelectFirst
First(m) ==
    IF m.rows = <<>> THEN m
    ELSE [m EXCEPT !.sel = IF m.rows[1].kind = "solo" /\ Len(m.rows) > 1 THEN 2 ELSE 1]

\* ToggleSelectedExpand
Toggle(m, i) ==
    LET r == m.rows[m.sel] IN
    CASE m.rows = <<>> -> m
      [] m.rows # <<>> /\ r.kind = "plan" ->
            Rebuild([m EXCEPT !.folded = IF r.collapsed THEN @ \ {r.plan} ELSE @ \cup {r.plan},
                              !.overrides = @ \cup {r.plan}], i)
      [] m.rows # <<>> /\ r.kind = "topic" ->
            Rebuild([m EXCEPT !.folded = IF r.collapsed THEN @ \ {0} ELSE @ \cup {0}], i)
      [] m.rows # <<>> /\ r.kind = "dead" -> Rebuild([m EXCEPT !.deadOpen = ~@], i)
      [] m.rows # <<>> /\ r.kind = "history" -> Rebuild([m EXCEPT !.histOpen = ~@], i)
      [] OTHER -> m

\* cycleActive: the unpaused instances from top to bottom, those of folded plans at
\* their header's place, starting from the first when none is selected.
Cycle(m, i, down) ==
    LET awake(list) == Only(list, {x \in Insts : i[x].status # "paused"})
        order == FlattenSeq([k \in 1 .. Len(m.rows) |->
                    LET r == m.rows[k] IN
                    IF r.kind = "inst" THEN awake(<<r.inst>>)
                    ELSE IF r.kind = "plan" /\ r.collapsed THEN awake(Of(m, r.plan, i))
                    ELSE <<>>])
        cur  == SelectInSeq(order, LAMBDA x : x = Selected(m))
        from == IF cur = 0 THEN 0 ELSE cur - 1
        to   == (from + (IF down THEN 1 ELSE Len(order) - 1)) % Len(order)
    IN IF order = <<>> THEN m ELSE SelectInst(m, order[to + 1], i)

\* FindPlanInstance: a working one before any that is not paused.
PlanInstance(m, p, i) ==
    LET awake == Only(Of(m, p, i), {x \in Insts : i[x].status # "paused"})
        busy  == Only(awake, {x \in Insts : Working(i[x])})
    IN IF busy # <<>> THEN busy[1] ELSE IF awake # <<>> THEN awake[1] ELSE NoInst

\* InspectPlan
Inspected(m, p, i) ==
    Rebuild([Resplit([m EXCEPT !.inspected = @ \cup {p}], i) EXCEPT !.deadOpen = TRUE], i)

\* SetSearchQuery: the selection moves to the first row the search shows.
Searched(m, q) ==
    LET asked == [m EXCEPT !.query = q]
        first == Steps(asked, 1 .. Len(m.rows))
    IN IF q # 0 /\ m.rows # <<>> /\ ~Matches(asked, m.sel) /\ first # {}
       THEN [asked EXCEPT !.sel = Min(first)] ELSE asked

----------------------------------------------------------------------------
(* What changes under the panel *)

Fresh(x) == [title |-> IF x = New THEN 0 ELSE TitleOf[x],
             plan |-> IF x = New THEN 0 ELSE PlanOf[x],
             status |-> "new", notified |-> FALSE]

\* Instance.SetStatus: a running one that becomes ready is notified.
WithStatus(a, s) ==
    [a EXCEPT !.status = s,
              !.notified = IF Working([status |-> s]) THEN FALSE
                           ELSE @ \/ (a.status = "running" /\ s = "ready")]

\* instanceChanged: the notification last looked at is cleared when another row is
\* selected.
Changed(m, i) ==
    LET x    == Selected(m)
        gone == seen # NoInst /\ seen # x
        i2   == IF gone THEN [i EXCEPT ![seen].notified = FALSE] ELSE i
    IN /\ n' = IF gone THEN Restat(m, i2) ELSE m
       /\ at' = i2
       /\ seen' = IF x # NoInst /\ i2[x].notified THEN x
                  ELSE IF gone THEN NoInst ELSE seen

\* The plan state changes: agents' signals, the kas plan commands, the user.
PlanChange(p, s) ==
    /\ Affordable("changes")
    /\ s # stored[p]
    /\ stored' = [stored EXCEPT ![p] = s]
    /\ used' = Spend("changes")
    /\ UNCHANGED <<at, n, seen, naming>>

\* The tick refreshes the sidebar with the plan state.
Refresh ==
    /\ n' = Refreshed(n, at)
    /\ UNCHANGED <<stored, at, seen, naming, used>>

\* An agent works, or waits for the user again.
AgentTurns(x) ==
    /\ Affordable("changes")
    /\ x \in ToSet(n.list) /\ at[x].status \in {"running", "ready"}
    /\ at' = [at EXCEPT ![x] = WithStatus(@, IF @.status = "running" THEN "ready"
                                              ELSE "running")]
    /\ used' = Spend("changes")
    /\ UNCHANGED <<stored, n, seen, naming>>

\* A signal or a wave adds an agent; the agents of a wave are not selected.
Spawn(x) ==
    /\ Affordable("changes")
    /\ x \notin ToSet(n.list)
    /\ LET i == [at EXCEPT ![x] = WithStatus(Fresh(x), "loading")]
           m == Added(n, x, i)
       IN /\ at' = i
          /\ n' \in {m, SelectInst(m, x, i)}
    /\ used' = Spend("changes")
    /\ UNCHANGED <<stored, seen, naming>>

\* instanceStartedMsg; an instance that could not start is removed by its title.
StartDone(x) ==
    /\ x \in ToSet(n.list) /\ at[x].status = "loading"
    /\ \/ LET i == [at EXCEPT ![x] = WithStatus(@, "running")]
          IN Changed(Restat(n, i), i)
       \/ /\ n' = Restat(RemovedTitle(n, at[x].title, at), at)
          /\ at' = [at EXCEPT ![x] = Fresh(x)]
          /\ UNCHANGED seen
    /\ UNCHANGED <<stored, naming, used>>

\* killExistingPlanAgent and the like, from a signal.
Replaced(x) ==
    /\ Affordable("changes")
    /\ x \in ToSet(n.list) \ {New}
    /\ n' = Restat(RemovedTitle(n, at[x].title, at), at)
    /\ at' = [at EXCEPT ![x] = Fresh(x)]
    /\ used' = Spend("changes")
    /\ UNCHANGED <<stored, seen, naming>>

----------------------------------------------------------------------------
(* The user *)

\* A key in the default state; search has its own, and naming an instance too.
Key == /\ Affordable("moves") /\ ~naming
       /\ used' = Spend("moves")
       /\ UNCHANGED <<stored, naming>>

Move(m) == Key /\ Changed(m, at)

MoveUp   == Move(Up(n))
MoveDown == Move(Down(n))

CycleActive == n.query = 0 /\ \E down \in BOOLEAN : Move(Cycle(n, at, down))

\* A click on a row.
ClickItem == n.query = 0 /\ \E k \in DOMAIN n.rows : Move([n EXCEPT !.sel = k])

\* Keys that leave the selection to the rows they change.
Reshape(m) == Key /\ n.query = 0 /\ n' = m /\ UNCHANGED <<at, seen>>

ToggleExpand == Reshape(Toggle(n, at))

InspectPlan ==
    /\ n.rows # <<>> /\ n.rows[n.sel].kind = "past"
    /\ Reshape(Inspected(n, SelectedPlan(n), at))

\* KeySendPrompt on a plan's row selects the instance to talk to.
Talk ==
    /\ Selected(n) = NoInst /\ SelectedPlan(n) # 0
    /\ PlanInstance(n, SelectedPlan(n), at) # NoInst
    /\ Reshape(SelectInst(n, PlanInstance(n, SelectedPlan(n), at), at))

\* Typing into the search, and leaving it.
Search(q) ==
    /\ Key
    /\ q # n.query
    /\ n' = IF q = 0 THEN [n EXCEPT !.query = 0]
            ELSE Searched(IF n.query = 0 THEN First(n) ELSE n, q)
    /\ UNCHANGED <<at, seen>>

\* NavigationPanel.Kill and Remove: the selected instance goes, by its title.
Kill(m, i) ==
    IF Selected(m) = NoInst THEN m ELSE RemovedTitle(m, i[Selected(m)].title, i)

\* kill_instance, the abort key, and the delete key on one that does not work.
KillSelected ==
    /\ Selected(n) # NoInst /\ n.query = 0
    /\ Move(Restat(Kill(n, at), at))

PauseSelected ==
    LET x == Selected(n) IN
    /\ Key /\ n.query = 0
    /\ x # NoInst /\ at[x].status \in {"running", "ready"}
    /\ LET i == [at EXCEPT ![x] = WithStatus(@, "paused")] IN Changed(Restat(n, i), i)

\* KeyPrompt, KeyNewSkipPermissions: the new instance is added and selected.
BeginNaming ==
    /\ Affordable("moves") /\ ~naming /\ n.query = 0
    /\ New \notin ToSet(n.list)
    /\ at' = [at EXCEPT ![New] = Fresh(New)]
    /\ n' = SelectInst(Added(n, New, at'), New, at')
    /\ naming' = TRUE
    /\ used' = Spend("moves")
    /\ UNCHANGED <<stored, seen>>

\* A title is typed: the row keeps the one it was built with.
TypeTitle(t) ==
    /\ naming /\ Affordable("moves")
    /\ t \notin {at[x].title : x \in Insts}
    /\ at' = [at EXCEPT ![New].title = t]
    /\ used' = Spend("moves")
    /\ UNCHANGED <<stored, n, seen, naming>>

SubmitTitle ==
    /\ naming /\ at[New].title # 0
    /\ at' = [at EXCEPT ![New] = WithStatus(@, "loading")]
    /\ naming' = FALSE
    /\ UNCHANGED <<stored, n, seen, used>>

\* Esc, Ctrl+C: the instance that is selected is killed.
CancelNaming ==
    /\ naming
    /\ naming' = FALSE
    /\ Changed(Kill(n, at), at)
    /\ UNCHANGED <<stored, used>>

Init ==
    /\ stored \in [Plans -> {"ready", "done"}]
    /\ at = [x \in Insts |-> Fresh(x)]
    /\ n = Refreshed([rows |-> <<>>, sel |-> 1, list |-> <<>>, plans |-> {},
                      topic |-> {}, dead |-> <<>>, promoted |-> <<>>, history |-> <<>>,
                      running |-> {}, notes |-> {}, folded |-> {}, overrides |-> {},
                      inspected |-> {}, deadOpen |-> TRUE, histOpen |-> FALSE,
                      query |-> 0, shown |-> stored], at)
    /\ seen = NoInst
    /\ naming = FALSE
    /\ used = [moves |-> 0, changes |-> 0]

Next ==
    \/ \E p \in Plans, s \in Status : PlanChange(p, s)
    \/ Refresh
    \/ \E x \in Agents : AgentTurns(x) \/ Spawn(x) \/ Replaced(x)
    \/ \E x \in Insts : StartDone(x)
    \/ MoveUp \/ MoveDown \/ CycleActive \/ ClickItem \/ ToggleExpand \/ InspectPlan
    \/ Talk \/ KillSelected \/ PauseSelected
    \/ \E q \in Plans \cup {0} : Search(q)
    \/ BeginNaming \/ SubmitTitle \/ CancelNaming
    \/ \E t \in Titles : TypeTitle(t)

Spec == Init /\ [][Next]_vars

----------------------------------------------------------------------------
(* Properties *)

\* Every agent of a plan the panel lists can be reached: it has a row, or its plan's
\* header, the topic or the dead section can be unfolded to show it; and no plan with
\* agents is put away in the history, where they have no rows at all.  Lists of plans,
\* instances and finished plans are replaced one at a time, by different callers.
AgentsReachable ==
    \A x \in ToSet(n.list) :
       LET p == at[x].plan
           folded(kind, q) == \E r \in ToSet(n.rows) :
                                 r.kind = kind /\ r.plan = q /\ r.collapsed
       IN /\ p = 0 \/ p \in n.plans \cup ToSet(n.dead) =>
                \/ RowOf(n, x) # 0
                \/ folded("plan", p)
                \/ p \in n.topic /\ folded("topic", 0)
                \/ p \in ToSet(n.dead) /\ folded("dead", 0)
          /\ p \notin ToSet(n.history)

\* What the user has selected, an instance or a plan, stays selected while it has a
\* row, whatever ticks and agents do to the rows: the keys act on the selection.  A
\* spawned agent takes it; a row whose instance got its title after the row was built,
\* that of the instance being named, is lost by the next rebuild.
SelectionStays ==
    [][used'.moves = used.moves /\ ToSet(n'.list) \subseteq ToSet(n.list) /\ n.rows # <<>> =>
          LET old == n.rows[n.sel]
              current == old.inst # NoInst => old.title = at[old.inst].title
              same(r) == IF old.inst # NoInst THEN r.inst = old.inst
                         ELSE old.plan # 0 /\ r.inst = NoInst /\ r.plan = old.plan
          IN current /\ (\E r \in ToSet(n'.rows) : same(r)) => same(n'.rows[n'.sel])]_vars
=============================================================================
