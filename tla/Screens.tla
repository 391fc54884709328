------------------------------- MODULE Screens -------------------------------
(***************************************************************************)
(* The screens of the TUI: which one is open, what it was opened for, the  *)
(* fields in which the Update loop keeps that while the user types, and    *)
(* what reaches the loop meanwhile: ticks that open dialogs of their own,  *)
(* agents that are spawned and take the selection, and the answers of      *)
(* commands, which come whenever they are ready (app/app_input.go,         *)
(* app/app_actions.go, app/app.go, app/help.go, ui/overlay).               *)
(*                                                                         *)
(* Abstracted: what is typed, except whether it is empty; the rows between *)
(* which the selection moves (NavPanel) and what the confirmed acts do     *)
(* (PlanClients, AgentSessions, WaveControl); quitting; key presses that   *)
(* only edit or move inside an overlay.                                    *)
(***************************************************************************)
EXTENDS Permissions

CONSTANTS
    Plans,      \* plans of the sidebar
    PlanOf,     \* the plan of an instance, or None
    Running,    \* the instances there are at the start
    MaxWork     \* bound on the user's moves and openings, on what agents do that a tick
                \* reacts to, on permission dialogs and missed captures, all together

ASSUME ScreenAssumption ==
    /\ Plans \cap (Insts \cup {None}) = {} /\ PlanOf \in [Insts -> Plans \cup {None}]
    /\ Running \subseteq Insts /\ MaxWork \in Nat

VARIABLES
    inbox,  \* commands that have not sent their message yet
    used    \* what was used of the bound

vars == <<ui, inbox, used, permVars>>

TextScreens   == {"prompt", "prTitle", "prBody", "renameInst", "renamePlan", "chat",
                  "newPlan", "clickUpSearch"}
PickerScreens == {"topic", "status", "newPlanTopic", "clickUpPicker"}
ScreenNames   == TextScreens \cup PickerScreens \cup
    {"default", "new", "help", "confirm", "search", "deriving", "spawnAgent", "focus",
     "menu", "clickUpFetching", "permission", "tmuxBrowser"}

\* The kinds of screens and acts that keep the plan or instance they are about.
Captured == {"push", "stage", "deed", "planner", "coder", "wave", "waves", "chat",
             "topic", "status"}
\* Those that act on what is selected when they are submitted.
OnSelected == {"abort", "kill", "naming", "prompt", "rename", "renamePlan", "pr"}

Subjects == Insts \cup Plans \cup {None} \cup (0 .. MaxWork)
Act      == [kind : Captured \cup OnSelected \cup
                    {"none", "checkout", "attach", "title", "sessions", "search", "task",
                     "helpStart", "start", "other"},
             on : Subjects]
NoAct    == [kind |-> "none", on |-> None]
A(kind, on) == [kind |-> kind, on |-> on]

\* What an open screen needs, and what must not be left behind by one that closed,
\* unless a message replaced it.
Consistent ==
    /\ ui.screen = "confirm" => ui.confirm # NoAct
    /\ (ui.screen = "permission") => (ui.perm.inst \in Insts)
    /\ ui.chat # None => (ui.screen = "chat" \/ A("chat", ui.chat) \in ui.orphans)
    /\ ui.topic # None => (ui.screen = "topic" \/ A("topic", ui.topic) \in ui.orphans)
    /\ ui.status # None => (ui.screen = "status" \/ A("status", ui.status) \in ui.orphans)
    /\ ui.wave # None => (ui.shown = A("wave", ui.wave) \/ A("wave", ui.wave) \in ui.orphans)
    /\ ui.next # NoAct => (ui.shown = ui.next \/ ui.next \in ui.orphans)

Message == [own : Act, meant : Act]
Plan    == Plans \cup {None}
Ui      == [screen : ScreenNames, sel : Insts \cup Plan, insts : SUBSET Insts, shown : Act,
            confirm : Act, next : Act, abort : Act, callback : Act,
            wave : Plan, planner : Plan, chat : Plan, topic : Plan, status : Plan,
            perm : [inst : Insts \cup {None}, n : 0 .. MaxAsks, key : Keys \cup {NoKey}],
            approve : {<<>>}, handled : SUBSET Insts, deferred : Seq(Plans),
            prompted : SUBSET Plans, name : 0 .. MaxWork, desc : 0 .. MaxWork,
            prompting : BOOLEAN, seen : SUBSET {"start", "attach", "checkout"},
            orphans : SUBSET Act, did : SUBSET Message]

TypeOK ==
    /\ PermTypeOK /\ ui \in Ui
    /\ inbox \subseteq Message /\ used \in 0 .. MaxWork
    /\ Consistent

Spend(k) == used + k <= MaxWork /\ used' = used + k

Init ==
    /\ PermInit
    /\ \E s \in Running \cup Plans \cup {None} :
       ui = [screen |-> "default", sel |-> s, insts |-> Running, shown |-> NoAct,
             confirm |-> NoAct, next |-> NoAct, abort |-> NoAct, callback |-> NoAct,
             wave |-> None, planner |-> None, chat |-> None, topic |-> None,
             status |-> None, perm |-> NoPerm, approve |-> <<>>, handled |-> {},
             deferred |-> <<>>, prompted |-> {}, name |-> 0, desc |-> 0,
             prompting |-> FALSE, seen |-> {}, orphans |-> {}, did |-> {}]
    /\ inbox = {} /\ used = 0

----------------------------------------------------------------------------
(* Opening and closing *)

Fresh == [ui EXCEPT !.did = {}]

\* A ghost: what the last step did to something else than what it was asked for.
Done(m, act, meant) ==
    IF act = meant THEN m ELSE [m EXCEPT !.did = @ \cup {[own |-> act, meant |-> meant]}]
Did(m, act) == Done(m, act, ui.shown)

SelectedInst(m) == IF m.sel \in m.insts THEN m.sel ELSE None
SelectedPlan(m) == IF m.sel \in Plans THEN m.sel ELSE None

\* A ghost: what was shown is replaced before it was closed.
Away(m)   == [m EXCEPT !.orphans = IF m.shown.kind \in Captured THEN @ \cup {m.shown} ELSE @]
Closed(m) == [m EXCEPT !.screen = "default", !.shown = NoAct]
Show(m, screen, act) == [Away(m) EXCEPT !.screen = screen, !.shown = act]

\* confirmAction: it leaves the other fields of the dialogs as they are.
Dialog(m, act) == [Show(m, "confirm", act) EXCEPT !.confirm = act]

\* waveStandardConfirmAction and waveFailedConfirmAction
WaveDialog(m, p)       == [Dialog(m, A("wave", p)) EXCEPT !.wave = p]
WaveFailedDialog(m, p) == [WaveDialog(m, p) EXCEPT !.next = A("wave", p), !.abort = A("wave", p)]

\* isUserInOverlay
InOverlay(m) == m.screen # "default"

\* nav.Kill, Remove and RemoveByTitle; what is selected next is for NavPanel to say.
\* A dialog ends with its agent, and another agent of that name is another instance,
\* but keys on their way and captures go by the name; a prompt that waits is the instance's.
Gone(m, i)  == [m EXCEPT !.insts = @ \ {i}, !.sel = IF @ = i THEN None ELSE @,
                         !.handled = @ \ {i}]
Forget(i)   == /\ pane' = [j \in Insts |-> IF j = i THEN NoAsk ELSE pane[j]]
               /\ queued' = queued \ {i}
               /\ meddled' = meddled \cup {j \in {i} \cap Insts :
                       Open(j) \/ replies # <<>> \/ (capture # NoCapture /\ capture[j] # NoDlg)}
               /\ UNCHANGED <<enters, asked, capture, replies, allowed, misled>>

\* killExistingPlanAgent: the agent of a plan whose planner is to be killed, if it is one.
Planners(p) == {None} \cup {i \in ui.insts : p # None /\ PlanOf[i] = p}

\* The first instance of a plan in the sidebar.
First(m, p) ==
    LET K == {k \in DOMAIN InstSeq : InstSeq[k] \in m.insts /\ PlanOf[InstSeq[k]] = p}
    IN IF K = {} THEN None ELSE InstSeq[CHOOSE k \in K : \A j \in K : k <= j]

\* focusInstanceForOverlay
Focus(m, i) == IF i = None THEN m ELSE [m EXCEPT !.sel = i]

\* How a text overlay closes (a form too, but it does not submit without a name), and
\* how a picker does: one that takes no new text has nothing to pick when nothing
\* matches what was typed.
TextEnds   == {"submitted", "empty", "cancelled"}
FormEnds   == {"submitted", "cancelled"}
PickerEnds == {"picked", "empty", "cancelled"}

\* What a key asks the session browser for.
BrowserActs == {"dismiss", "kill", "killLast", "adopt", "attach"}

----------------------------------------------------------------------------
(* The user opens a screen *)

\* A key or a click in the default screen.
Opening(m) == /\ ui.screen = "default" /\ Spend(1)
              /\ ui' = m /\ UNCHANGED <<inbox, permVars>>

\* Sends a command, from the default screen.
Sending(m, act) == /\ ui.screen = "default" /\ Spend(1)
                   /\ ui' = m /\ inbox' = inbox \cup {[own |-> act, meant |-> act]}
                   /\ UNCHANGED permVars

\* The keys and clicks that move the selection, in the screens that take them.
MoveSelection ==
    /\ ui.screen \in {"default", "search", "focus"}
    /\ \E s \in ui.insts \cup Plans \cup {None} :
          ui.sel # s /\ ui' = [Fresh EXCEPT !.sel = s]
    /\ Spend(1) /\ UNCHANGED <<inbox, permVars>>

KeyHelp      == Opening(Show(Fresh, "help", A("other", None)))
KeySearch    == Opening(Show(Fresh, "search", A("other", None)))
KeyNewPlan   == Opening(Show(Fresh, "newPlan", A("other", None)))
KeySpawnAgent == Opening(Show(Fresh, "spawnAgent", A("other", None)))
KeyImport    == Opening(Show(Fresh, "clickUpSearch", A("other", None)))
KeySendPrompt ==
    /\ \/ SelectedInst(ui) # None
       \/ SelectedPlan(ui) # None /\ First(ui, ui.sel) # None
    /\ Opening(Show([Fresh EXCEPT !.sel = IF ui.sel \in Plans THEN First(ui, ui.sel) ELSE @],
                    "focus", A("other", None)))

\* openContextMenu and openPlanContextMenu
OpenContextMenu == /\ ui.sel # None
                   /\ Opening(Show(Fresh, "menu", A("other", ui.sel)))

KeyAbort    == SelectedInst(ui) # None /\ Opening(Dialog(Fresh, A("abort", ui.sel)))
KeySubmit   == SelectedInst(ui) # None /\ Opening(Dialog(Fresh, A("push", ui.sel)))
KeyCreatePR == SelectedInst(ui) # None /\ Opening(Show(Fresh, "prTitle", A("pr", ui.sel)))

\* discoverTmuxSessions
KeyTmuxBrowser == Sending(Fresh, A("sessions", None))

\* KeyPrompt and KeyNewSkipPermissions: only the first asks for a prompt, and a name
\* that was left with Esc leaves its wish for the next one.
NewInstance ==
    \E i \in Insts \ ui.insts, prompt \in BOOLEAN :
        Opening([Show(Fresh, "new", A("naming", i))
                 EXCEPT !.insts = @ \cup {i}, !.sel = i,
                        !.prompting = prompt \/ ui.prompting])

\* showHelpScreen: a help screen is shown once, then its act is done at once.
HelpThen(m, kind, act) ==
    IF kind \in m.seen THEN m
    ELSE [Show(m, "help", A("other", None)) EXCEPT !.seen = @ \cup {kind}, !.callback = act]

KeyCheckout == /\ SelectedInst(ui) # None
               /\ Opening(HelpThen(Fresh, "checkout", A("checkout", ui.sel)))
KeyAttach   == /\ SelectedInst(ui) # None
               /\ Opening(HelpThen(Fresh, "attach", A("attach", ui.sel)))

----------------------------------------------------------------------------
(* The user answers a screen: one action per branch of handleKeyPress *)

Answering(screen, m) ==
    /\ ui.screen = screen /\ ui' = m /\ UNCHANGED <<inbox, used, permVars>>

AnsweringWith(screen, m, acts) ==
    /\ ui.screen = screen /\ ui' = m
    /\ inbox' = inbox \cup {[own |-> a, meant |-> ui.shown] : a \in acts}
    /\ UNCHANGED <<used, permVars>>

HelpKey ==
    LET act == IF ui.callback.kind = "attach" THEN A("attach", SelectedInst(ui)) ELSE ui.callback
    IN Answering("help", [Done(Closed(Fresh), act, ui.callback) EXCEPT !.callback = NoAct])

\* Enter starts the instance; Esc and Ctrl+C kill the selected one, which the sidebar
\* may have moved away from the one that is named.
SubmitName ==
    AnsweringWith("new",
        IF ui.prompting THEN [Show(Fresh, "prompt", A("prompt", ui.shown.on))
                              EXCEPT !.prompting = FALSE]
        ELSE Closed(Fresh), {A("start", ui.shown.on)})

CancelName ==
    /\ ui.screen = "new"
    /\ \E reset \in BOOLEAN :
          LET i == SelectedInst(ui) IN
          /\ ui' = [IF i = None THEN Closed(Fresh) ELSE Gone(Did(Closed(Fresh), A("naming", i)), i)
                    EXCEPT !.prompting = IF reset THEN FALSE ELSE @]
          /\ Forget(i)
    /\ UNCHANGED <<inbox, used>>

\* Without a selected instance, and when the prompt cannot be sent, the screen stays.
\* SendPrompt types it into the pane at once, and an Enter.
PromptKey ==
    /\ ui.screen = "prompt" /\ SelectedInst(ui) # None
    /\ \/ /\ ui' = Did(Closed(Fresh), A("prompt", ui.sel))
          /\ StrayEnter(ui.sel) /\ UNCHANGED <<queued, enters, asked, capture, replies, allowed>>
       \/ ui' = Closed(Fresh) /\ UNCHANGED permVars
    /\ inbox' = inbox \cup {[own |-> A("helpStart", None), meant |-> ui.shown]}
    /\ UNCHANGED used

PRTitleKey ==
    \E end \in TextEnds :
        Answering("prTitle",
            IF end = "submitted" /\ SelectedInst(ui) # None
            THEN Show(Fresh, "prBody", ui.shown) ELSE Closed(Fresh))

PRBodyKey ==
    \E end \in TextEnds \ {"empty"} :
        Answering("prBody",
            IF end = "submitted" /\ SelectedInst(ui) # None
            THEN Did(Closed(Fresh), A("pr", ui.sel)) ELSE Closed(Fresh))

RenameInstanceKey ==
    \E end \in TextEnds :
        Answering("renameInst",
            IF end = "submitted" /\ SelectedInst(ui) # None
            THEN Did(Closed(Fresh), A("rename", ui.sel)) ELSE Closed(Fresh))

RenamePlanKey ==
    \E end \in TextEnds :
        Answering("renamePlan",
            IF end = "submitted" /\ SelectedPlan(ui) # None
            THEN Did(Closed(Fresh), A("renamePlan", ui.sel)) ELSE Closed(Fresh))

\* An agent is spawned for the plan that was selected when the screen was opened.
Spawned(m) == \E i \in (Insts \ m.insts) \cup {None} :
                 ui' = IF i = None THEN m ELSE [m EXCEPT !.insts = @ \cup {i}, !.sel = i]

ChatKey ==
    /\ ui.screen = "chat"
    /\ \E end \in TextEnds :
          IF end = "submitted"
          THEN Spawned(Did([Closed(Fresh) EXCEPT !.chat = None], A("chat", ui.chat)))
          ELSE ui' = [Closed(Fresh) EXCEPT !.chat = None]
    /\ UNCHANGED <<inbox, used, permVars>>

FocusKey == Answering("focus", Closed(Fresh))

SearchKey == Answering("search", Closed(Fresh))

\* Mutant of ChangeTopicKey: a cancelled picker keeps its plan.
ForgetfulTopicKey ==
    \E end \in PickerEnds :
        Answering("topic",
            IF end = "cancelled" THEN Closed(Fresh)
            ELSE Did([Closed(Fresh) EXCEPT !.topic = None], A("topic", ui.topic)))

\* A picker without a match moves the plan out of its topic.
ChangeTopicKey ==
    \E end \in PickerEnds :
        Answering("topic",
            IF end = "cancelled" THEN [Closed(Fresh) EXCEPT !.topic = None]
            ELSE Did([Closed(Fresh) EXCEPT !.topic = None], A("topic", ui.topic)))

SetStatusKey ==
    \E end \in PickerEnds :
        Answering("status",
            IF end # "picked" THEN [Closed(Fresh) EXCEPT !.status = None]
            ELSE Did([Closed(Fresh) EXCEPT !.status = None], A("status", ui.status)))

SpawnAgentKey ==
    /\ ui.screen = "spawnAgent"
    /\ \E end \in FormEnds :
          IF end = "submitted" THEN Spawned(Closed(Fresh)) ELSE ui' = Closed(Fresh)
    /\ UNCHANGED <<inbox, used, permVars>>

\* aiDerivePlanTitleCmd: another program is asked for a title, for a while.
Titling(d) == A("title", d)

\* Descriptions are numbered, and a name by the description it was made from: by
\* heuristicPlanTitle first, and perhaps by a title that arrives.
HeuristicTitle(d) == d

\* firstLineIsViableSlug: whether no title is asked for; both occur.
ViableSlug == BOOLEAN

NewPlanKey ==
    \E end \in TextEnds, viable \in ViableSlug :
        LET d == used
            m == [Fresh EXCEPT !.name = HeuristicTitle(d), !.desc = d]
        IN IF end # "submitted" THEN Answering("newPlan", Closed(Fresh))
           ELSE IF viable THEN Answering("newPlan", Show(m, "newPlanTopic", A("other", None)))
           ELSE AnsweringWith("newPlan", Show(m, "deriving", A("other", None)), {Titling(d)})

DerivingKey == Answering("deriving", [Closed(Fresh) EXCEPT !.name = 0, !.desc = 0])

\* The plan is made also when the picker is cancelled, then without a topic.
NewPlanTopicKey ==
    \E end \in PickerEnds :
        Answering("newPlanTopic", [Done(Closed(Fresh), A("title", ui.name), A("title", ui.desc))
                                   EXCEPT !.name = 0, !.desc = 0])

ClickUpSearchKey ==
    \E end \in TextEnds :
        IF end = "submitted"
        THEN AnsweringWith("clickUpSearch", Show(Fresh, "clickUpFetching", A("other", None)),
                           {A("search", None)})
        ELSE Answering("clickUpSearch", Closed(Fresh))

ClickUpPickerKey ==
    \E end \in PickerEnds :
        IF end = "picked"
        THEN AnsweringWith("clickUpPicker", Show(Fresh, "clickUpFetching", A("other", None)),
                           {A("task", None)})
        ELSE Answering("clickUpPicker", Closed(Fresh))

\* handleTmuxBrowserAction: a session killed may be the last of the list; an adopted one
\* becomes an instance; attaching only suspends the screen.
TmuxBrowserKey ==
    /\ ui.screen = "tmuxBrowser"
    /\ \E act \in BrowserActs :
          CASE act = "kill"  -> ui' = Fresh
            [] act = "adopt" -> Spawned(Closed(Fresh))
            [] OTHER         -> ui' = Closed(Fresh)
    /\ UNCHANGED <<inbox, used, permVars>>

\* handleMouse: a click outside closes the menu and the browser.
ClickOutside == \E screen \in {"menu", "tmuxBrowser"} : Answering(screen, Closed(Fresh))

----------------------------------------------------------------------------
(* The confirmation dialog *)

NoDialog(m) == [Closed(m) EXCEPT !.confirm = NoAct, !.next = NoAct, !.abort = NoAct]

\* The confirm key runs the act as a command; the fields of a planner's dialog are left
\* for its message to clear.
ConfirmYes == AnsweringWith("confirm", [NoDialog(Fresh) EXCEPT !.wave = None], {ui.confirm})

\* A ghost: an act that a replaced dialog left behind closes the one that is shown.
ClosedBy(act) == [NoDialog(IF act = ui.shown THEN Fresh ELSE Away(Fresh)) EXCEPT !.wave = None]

ConfirmAbort == ui.abort # NoAct /\ AnsweringWith("confirm", ClosedBy(ui.abort), {ui.abort})

\* Mutant of Declined: the planner's plan outlives its dialog.
LingeringDeclined(m) ==
    LET w == IF m.wave = None THEN m ELSE Did(m, A("wave", m.wave))
        d == IF m.planner = None THEN w ELSE Did(w, A("planner", m.planner))
    IN [d EXCEPT !.wave = None,
                 !.prompted = IF m.planner = None THEN @ ELSE @ \cup {m.planner}]

\* No and Esc: the latch of a wave is reset, and the planner of a plan is killed and not
\* asked about again.
Declined(m) ==
    LET w == IF m.wave = None THEN m ELSE Did(m, A("wave", m.wave))
        d == IF m.planner = None THEN w ELSE Did(w, A("planner", m.planner))
    IN [d EXCEPT !.wave = None, !.planner = None,
                 !.prompted = IF m.planner = None THEN @ ELSE @ \cup {m.planner}]

\* Esc, and the cancel key where it does not go on with the next wave.
ConfirmEsc ==
    /\ ui.screen = "confirm"
    /\ \E i \in Planners(ui.planner) : ui' = Gone(NoDialog(Declined(Fresh)), i) /\ Forget(i)
    /\ UNCHANGED <<inbox, used>>

\* The cancel key: the next wave, in the dialog of a failed one.
ConfirmNo == ui.next # NoAct /\ AnsweringWith("confirm", ClosedBy(ui.next), {ui.next})

----------------------------------------------------------------------------
(* The context menu: what is selected when its item is chosen *)

MenuDismissed == Answering("menu", Closed(Fresh))

MenuKill ==
    LET i == SelectedInst(ui) IN
    /\ ui.screen = "menu" /\ i # None
    /\ ui' = Gone(Done(Closed(Fresh), A("kill", i), A("kill", ui.shown.on)), i)
    /\ Forget(i)
    /\ UNCHANGED <<inbox, used>>

\* What opens another screen for the selected instance.
InstanceAction ==
    LET i == SelectedInst(ui)
        m == Closed(Fresh)
    IN /\ i # None
       /\ \/ Answering("menu", Dialog(m, A("push", i)))
          \/ Answering("menu", Show(m, "prTitle", A("pr", i)))
          \/ Answering("menu", Show(m, "renameInst", A("rename", i)))
          \/ Answering("menu", Show(m, "focus", A("other", None)))

\* ... and for the selected plan.
PlanAction ==
    LET p == SelectedPlan(ui)
        m == Closed(Fresh)
        i == First(ui, p)
    IN /\ p # None
       /\ \/ Answering("menu", Show([m EXCEPT !.topic = p], "topic", A("topic", p)))
          \/ Answering("menu", Show([m EXCEPT !.status = p], "status", A("status", p)))
          \/ Answering("menu", Show([m EXCEPT !.chat = p], "chat", A("chat", p)))
          \/ Answering("menu", Show(m, "renamePlan", A("renamePlan", p)))
          \/ Answering("menu", Dialog(m, A("deed", p)))
          \/ i # None /\ Answering("menu", Dialog(m, A("push", i)))
          \/ i # None /\ Answering("menu", Show([m EXCEPT !.sel = i], "prTitle", A("pr", i)))

\* triggerPlanStage: an agent is spawned, or the gate of the topic asks first.
Staged(m, p) == ui' = Dialog(m, A("stage", p)) \/ Spawned(m)

StageAction ==
    /\ ui.screen = "menu" /\ SelectedPlan(ui) # None
    /\ Staged(Closed(Fresh), ui.sel)
    /\ UNCHANGED <<inbox, used, permVars>>

----------------------------------------------------------------------------
(* Messages of commands *)

Arrives(kind, m) ==
    \E x \in inbox :
        /\ x.own.kind = kind /\ inbox' = inbox \ {x} /\ ui' = m
        /\ UNCHANGED <<used, permVars>>

\* clickUpSearchResultMsg, whatever screen is open; the search has a timeout.
SearchResult ==
    \/ Arrives("search", Closed(Away(Fresh)))
    \/ Arrives("search", Show(Fresh, "clickUpPicker", A("other", None)))

\* clickUpTaskFetchedMsg: the task becomes a plan, with a planner.
TaskFetched ==
    \E x \in inbox :
        /\ x.own.kind = "task" /\ inbox' = inbox \ {x}
        /\ Spawned(Closed(Away(Fresh)))
        /\ UNCHANGED <<used, permVars>>

\* tmuxSessionsMsg: the list opens over any screen; a failed or empty one says so.
SessionsArrive ==
    \/ Arrives("sessions", Show(Fresh, "tmuxBrowser", A("other", None)))
    \/ Arrives("sessions", Fresh)

\* The help screen about a started instance is opened by the command itself.
HelpStart ==
    Arrives("helpStart", IF "start" \in ui.seen THEN Fresh
        ELSE [Show(Fresh, "help", A("other", None)) EXCEPT !.seen = @ \cup {"start"},
                                                            !.callback = NoAct])

\* planTitleMsg: while a title is awaited it opens the picker; a later one renames; the
\* description it was made from is not looked at.
TitleArrives ==
    \E x \in inbox, ok \in BOOLEAN :
        LET named == [Fresh EXCEPT !.name = IF ok THEN x.own.on ELSE @] IN
        /\ x.own.kind = "title" /\ inbox' = inbox \ {x}
        /\ ui' = IF ui.screen = "deriving"
                 THEN Show(named, "newPlanTopic", A("other", None))
                 ELSE IF ui.screen = "newPlanTopic" /\ ui.desc # 0 THEN named
                 ELSE Fresh
        /\ UNCHANGED <<used, permVars>>

\* instanceStartedMsg: one that failed is taken out by its title.
StartArrives ==
    \E x \in inbox, ok \in BOOLEAN :
        /\ x.own.kind = "start" /\ inbox' = inbox \ {x}
        /\ ui' = IF ok THEN Fresh ELSE Gone(Fresh, x.own.on)
        /\ Forget(IF ok THEN None ELSE x.own.on)
        /\ UNCHANGED used

\* killInstanceMsg: the checks passed, and the selected instance is killed.
KillArrives ==
    \E x \in inbox :
        LET i == SelectedInst(ui) IN
        /\ x.own.kind = "abort" /\ inbox' = inbox \ {x}
        /\ ui' = IF i = None THEN Fresh
                 ELSE Gone(Done(Fresh, A("abort", i), x.meant), i)
        /\ Forget(i)
        /\ UNCHANGED used

\* plannerCompleteMsg: the planner is killed, the fields of its dialog are cleared,
\* also when they are another dialog's by now, and the plan is implemented.
PlannerComplete ==
    \E x \in inbox :
        /\ x.own.kind = "planner" /\ inbox' = inbox \ {x}
        /\ \E i \in Planners(x.own.on) :
              /\ Staged([Gone(Done(Fresh, x.own, x.meant), i)
                         EXCEPT !.prompted = @ \cup {x.own.on}, !.planner = None], x.own.on)
              /\ Forget(i)
        /\ UNCHANGED used

\* The acts of the other dialogs, of which the screens see nothing but a spawned agent.
ActDone ==
    \E x \in inbox :
        /\ x.own.kind \in Captured \ {"planner"} /\ inbox' = inbox \ {x}
        /\ Spawned(Done(Fresh, x.own, x.meant))
        /\ UNCHANGED <<used, permVars>>

----------------------------------------------------------------------------
(* The metadata tick *)

\* PlannerFinished signals: the dialog of the first, unless a screen is open; the others
\* wait for a later tick.
Signalled(m, p) ==
    IF p \in m.prompted THEN m
    ELSE IF InOverlay(m) THEN [m EXCEPT !.deferred = Append(@, p)]
    ELSE Dialog(Focus([m EXCEPT !.planner = p], First(m, p)), A("planner", p))

\* ... of several, one after the other.
AllSignalled(m, plans) ==
    LET after[k \in 0 .. Len(plans)] ==
            IF k = 0 THEN m ELSE Signalled(after[k - 1], plans[k])
    IN after[Len(plans)]

DeferredDialog(m) ==
    IF m.deferred = <<>> \/ InOverlay(m) THEN m
    ELSE LET p == Head(m.deferred)
             t == [m EXCEPT !.deferred = Tail(@)]
         IN IF p \in m.prompted THEN t
            ELSE Dialog(Focus([t EXCEPT !.planner = p], First(m, p)), A("planner", p))

\* A coder ended: promptPushBranchThenAdvance, unless a screen is open.
CoderExit(m, p) ==
    IF p = None \/ InOverlay(m) \/ First(m, p) = None THEN m
    ELSE Dialog(Focus(m, First(m, p)), A("coder", p))

\* A wave of a plan is over, or the last one is: each waits for the default screen.
WaveOver(m, p, how) ==
    IF p = None \/ InOverlay(m) THEN m
    ELSE LET f == Focus(m, First(m, p)) IN
         CASE how = "last"   -> Dialog(f, A("waves", p))
           [] how = "failed" -> WaveFailedDialog(f, p)
           [] how = "done"   -> WaveDialog(f, p)

\* A signal makes the loop spawn a reviewer or a coder, which takes the selection.
AgentSpawned(m, i) == IF i = None THEN m ELSE [m EXCEPT !.insts = @ \cup {i}, !.sel = i]

\* What happened before a tick, by how much of the bound it takes.
Happened == [k \in 0 .. MaxWork |->
    {e \in [finished : SeqOf(Plans, 2), spawned : Insts \cup {None}, exited : Plans \cup {None},
            over : (Plans \X {"last", "failed", "done"}) \cup {<<None, "last">>},
            idle : SUBSET AutoYes] :
        k = Len(e.finished) + Cardinality({e.spawned, e.exited} \ {None})
                            + Cardinality({e.over[1]} \ {None}) + Cardinality(e.idle)}]

\* A metadataResultMsg: signals, dialogs put off, idle agents, permissions, prompts that
\* waited, coders, waves.  The row of the instance that is being named may lose the
\* selection when rows are rebuilt.
Tick ==
    /\ capture # NoCapture
    /\ \E k \in 0 .. MaxWork - used : \E e \in Happened[k] :
       \E moved \in IF ui.screen = "new" THEN BOOLEAN ELSE {FALSE} :
          LET m0 == [Fresh EXCEPT !.sel = IF moved THEN None ELSE @]
              m1 == AllSignalled(AgentSpawned(m0, e.spawned), e.finished)
              m2 == PermissionSteps(DeferredDialog(m1))
              m3 == WaveOver(CoderExit(m2, e.exited), e.over[1], e.over[2])
          IN /\ e.spawned \notin ui.insts
             /\ Spend(k)
             /\ ui' = [m3 EXCEPT !.approve = <<>>]
             /\ replies' = replies \o m3.approve
             /\ \E ready \in SUBSET (queued \cap m1.insts) : Tapped(e.idle \cap m1.insts, ready)
    /\ capture' = NoCapture
    /\ UNCHANGED <<inbox, pane, asked, allowed, meddled, misled>>

----------------------------------------------------------------------------

Permission ==
    \/ PermSpend /\ Spend(1) /\ UNCHANGED inbox
    \/ PermNext /\ UNCHANGED <<inbox, used>>

UserOpens ==
    \/ MoveSelection \/ KeyHelp \/ KeySearch \/ KeyNewPlan \/ KeySpawnAgent \/ KeyImport
    \/ KeySendPrompt \/ OpenContextMenu \/ KeyAbort \/ KeySubmit \/ KeyCreatePR
    \/ KeyTmuxBrowser \/ NewInstance \/ KeyCheckout \/ KeyAttach

Answer ==
    \/ HelpKey \/ SubmitName \/ CancelName \/ PromptKey \/ PRTitleKey \/ PRBodyKey
    \/ RenameInstanceKey \/ RenamePlanKey \/ ChatKey \/ FocusKey \/ SearchKey
    \/ ChangeTopicKey \/ SetStatusKey \/ SpawnAgentKey \/ NewPlanKey \/ DerivingKey
    \/ NewPlanTopicKey \/ ClickUpSearchKey \/ ClickUpPickerKey \/ TmuxBrowserKey
    \/ ClickOutside \/ ConfirmYes \/ ConfirmAbort \/ ConfirmNo \/ ConfirmEsc
    \/ MenuDismissed \/ MenuKill \/ InstanceAction \/ PlanAction \/ StageAction

Arrival ==
    \/ SearchResult \/ TaskFetched \/ SessionsArrive \/ HelpStart \/ TitleArrives
    \/ StartArrives \/ KillArrives \/ PlannerComplete \/ ActDone

Next == Permission \/ UserOpens \/ Answer \/ Arrival \/ Tick

Spec == Init /\ [][Next]_vars

----------------------------------------------------------------------------
(* Properties *)

\* What a screen or a dialog does is done to the plan or the instance it was opened
\* for, whatever was selected, spawned or asked meanwhile: the kinds of screen that keep
\* what they are about act on that, and declining one dialog answers no other.  Except
\* for a dialog that a late message replaced, whose fields are still there for the next
\* one and may close it without its own being cleared, and for a planner's that was
\* confirmed and whose message is on its way.
ActsOnWhatWasShown ==
    \A d \in ui.did : d.own.kind \in Captured =>
        \/ d.meant = d.own \/ d.own \in ui.orphans
        \/ \E x \in inbox : x.own = d.own
=============================================================================
