----------------------------- MODULE Permissions -----------------------------
(***************************************************************************)
(* An agent's permission dialog, seen by the metadata tick in a capture of *)
(* its pane, answered by the user in a screen of kasmos or by a decision   *)
(* kept earlier, and typed back into the pane key by key while the ticks   *)
(* go on seeing it; and the Enters that kasmos types into the same pane    *)
(* for other reasons: an idle agent with AutoYes, a prompt (app.go,        *)
(* app_input.go, config/permission_store.go, session/instance_session.go,  *)
(* session/permission_prompt.go, session/tmux/tmux_io.go).                 *)
(*                                                                         *)
(* Abstracted: the text of a dialog is the key a decision is kept under;   *)
(* the text of a prompt, which a dialog does not listen to; one project; a *)
(* restart, which forgets the guards, is not modelled.                     *)
(***************************************************************************)
EXTENDS Naturals, FiniteSets, SequencesExt

CONSTANTS
    InstSeq,   \* the instances, in the order of the sidebar
    None,      \* no instance, or no plan
    OpenCode,  \* the instances whose program is opencode, which is recognised asking
    AutoYes,   \* those of them that are told to go on with Enter when they are idle
    Keys,      \* what a decision is kept under
    NoKey,     \* a dialog with neither pattern nor description
    MaxAsks    \* bound on the dialogs of all agents

Insts == ToSet(InstSeq)

ASSUME PermissionAssumption ==
    /\ InstSeq \in Seq(Insts) /\ IsInjective(InstSeq) /\ None \notin Insts /\ NoKey \notin Keys
    /\ OpenCode \subseteq Insts /\ AutoYes \subseteq OpenCode /\ MaxAsks \in Nat

VARIABLES
    ui,        \* the model of the Update loop, of which this module uses
               \*   insts, screen, sel, perm (the dialog the permission screen is for),
               \*   handled (permissionHandled: instances guarded against a re-trigger)
    pane,      \* per agent: its dialog and how far it is answered
    queued,    \* agents that a prompt waits for (QueuedPrompt)
    enters,    \* per agent: the Enters under way to it that answer nothing
    asked,     \* how many dialogs there have been, over all agents
    capture,   \* what the tick in flight saw of each agent, or NoCapture
    replies,   \* answers on their way to a pane
    allowed,   \* the keys kept as allowed always
    meddled,   \* agents whose dialog was answered by hand, got an Enter that was none of
               \*   its answer, ended with its agent, or was hidden from a capture
    misled     \* agents that were given an answer nobody gave to that dialog

permVars == <<pane, queued, enters, asked, capture, replies, allowed, meddled, misled>>

Answers == {"once", "always", "reject"}

\* The buttons of the agent's dialog, from the left.
Buttons == <<"once", "always", "reject">>

\* PermissionChoice of the screen, cast to that of tmux, and the Right keys it takes.
Taps(choice) == CASE choice = "once" -> 0 [] choice = "always" -> 1 [] choice = "reject" -> 2

\* A dialog: its number, 0 for none, and its key.  at: how far right its cursor is.
\* chosen: what was selected in it, and the dialog that answer was meant for.
Dlg     == [n : 0 .. MaxAsks, key : Keys \cup {NoKey}]
NoDlg   == [n |-> 0, key |-> NoKey]
Nothing == [choice |-> "none", meant |-> "none", n |-> 0]
Pane    == [dialog : Dlg, at : 0 .. 2,
            chosen : [choice : Answers \cup {"none"}, meant : Answers \cup {"none"},
                      n : 0 .. MaxAsks]]
NoAsk   == [dialog |-> NoDlg, at |-> 0, chosen |-> Nothing]
NoCapture == [i \in {} |-> NoDlg]

\* An answer on its way, and the Right keys it still takes.
Reply   == [inst : Insts, choice : Answers, n : 1 .. MaxAsks, taps : 0 .. 2,
            step : {"approve", "select", "confirm"}]

PermTypeOK ==
    /\ pane \in [Insts -> Pane] /\ asked \in 0 .. MaxAsks
    /\ queued \subseteq Insts /\ enters \in [Insts -> Nat]
    /\ capture = NoCapture \/ capture \in [Insts -> Dlg]
    /\ replies \in Seq(Reply)
    /\ allowed \subseteq Keys /\ meddled \subseteq Insts /\ misled \subseteq Insts

PermInit ==
    /\ pane = [i \in Insts |-> NoAsk] /\ queued = {} /\ enters = [i \in Insts |-> 0]
    /\ asked = 0 /\ capture = NoCapture /\ replies = <<>>
    /\ allowed = {} /\ meddled = {} /\ misled = {}

----------------------------------------------------------------------------
(* The agent *)

Open(i) == pane[i].dialog.n # 0

\* The agent asks for a permission.
Ask(i, key) ==
    /\ i \in ui.insts \cap OpenCode /\ ~Open(i) /\ asked < MaxAsks
    /\ asked' = asked + 1
    /\ pane' = [pane EXCEPT ![i].dialog = [n |-> asked + 1, key |-> key]]
    /\ UNCHANGED <<ui, queued, enters, capture, replies, allowed, meddled, misled>>

\* The user answers in the agent's own terminal.
AnswerByHand(i) ==
    /\ Open(i)
    /\ pane' = [pane EXCEPT ![i] = NoAsk]
    /\ meddled' = meddled \cup {i}
    /\ UNCHANGED <<ui, queued, enters, asked, capture, replies, allowed, misled>>

----------------------------------------------------------------------------
(* The tick *)

\* CollectMetadata and ParsePermissionPrompt: the dialogs the captured panes show, but
\* for those that are missed.  One in its second step has no buttons any more.
Collect(missed) ==
    /\ capture = NoCapture /\ \A i \in missed : Open(i)
    /\ capture' = [i \in Insts |->
          IF i \in missed \/ pane[i].chosen # Nothing THEN NoDlg ELSE pane[i].dialog]
    /\ meddled' = meddled \cup missed
    /\ UNCHANGED <<ui, pane, queued, enters, asked, replies, allowed, misled>>

\* What an approval without asking needs: a key, kept as allowed.
IsAllowedAlways(key) == key # NoKey /\ key \in allowed

\* One agent's part of the tick, if it is still in the sidebar: no dialog clears its
\* guard; a dialog that is not guarded is approved if its key is kept, or else shown,
\* when no screen is.
PermissionStep(m, i) ==
    LET d == capture[i] IN
    IF d.n = 0 THEN [m EXCEPT !.handled = @ \ {i}]
    ELSE IF m.screen # "default" \/ i \in m.handled THEN m
    ELSE IF IsAllowedAlways(d.key)
    THEN [m EXCEPT !.handled = @ \cup {i},
                   !.approve = Append(@, [inst |-> i, choice |-> "always", n |-> d.n,
                                          taps |-> Taps("always"), step |-> "approve"])]
    ELSE [m EXCEPT !.screen = "permission", !.sel = i,
                   !.perm = [inst |-> i, n |-> d.n, key |-> d.key]]

\* ... and of all of them, in the order of the sidebar.
PermissionSteps(m) ==
    LET after[k \in 0 .. Len(InstSeq)] ==
            IF k = 0 THEN m
            ELSE IF InstSeq[k] \in m.insts THEN PermissionStep(after[k - 1], InstSeq[k])
            ELSE after[k - 1]
    IN after[Len(InstSeq)]

----------------------------------------------------------------------------
(* The screen *)

NoPerm == [inst |-> None, n |-> 0, key |-> NoKey]

\* Mutant of Answered: only a decision to keep guards the dialog.
UnguardedAnswer(m, choice) ==
    [m EXCEPT !.screen = "default", !.perm = NoPerm,
              !.handled = IF choice = "always" THEN @ \cup {m.perm.inst} ELSE @]

\* The screen closes and the dialog it was for is guarded until a capture misses it.
Answered(m, choice) ==
    [m EXCEPT !.screen = "default", !.perm = NoPerm,
              !.handled = @ \cup {m.perm.inst}]

\* Enter: the decision is kept if it is one, and its keys are typed by a command.
AnswerPermission(choice) ==
    /\ ui.screen = "permission"
    /\ ui' = Answered([ui EXCEPT !.did = {}], choice)
    /\ allowed' = IF choice = "always" /\ ui.perm.key # NoKey
                  THEN allowed \cup {ui.perm.key} ELSE allowed
    /\ replies' = Append(replies, [inst |-> ui.perm.inst, choice |-> choice,
                                   n |-> ui.perm.n, taps |-> Taps(choice),
                                   step |-> "select"])
    /\ UNCHANGED <<pane, queued, enters, asked, capture, meddled, misled>>

\* Esc: the dialog is left to the agent's own terminal.
DismissPermission ==
    /\ ui.screen = "permission"
    /\ ui' = Answered([ui EXCEPT !.did = {}], "none")
    /\ UNCHANGED permVars

----------------------------------------------------------------------------
(* The keys of an answer *)

\* permissionAutoApproveMsg: a second command types the keys.
AutoApprove(k) ==
    /\ replies[k].step = "approve"
    /\ replies' = [replies EXCEPT ![k].step = "select"]
    /\ UNCHANGED <<ui, pane, queued, enters, asked, capture, allowed, meddled, misled>>

\* TapRight: the cursor moves in a dialog that has buttons, unless it is at the last one.
TypeRight(k) ==
    LET r == replies[k]
        b == pane[r.inst].at
    IN /\ r.step = "select" /\ r.taps > 0
       /\ replies' = [replies EXCEPT ![k].taps = r.taps - 1]
       /\ pane' = IF Open(r.inst) /\ pane[r.inst].chosen = Nothing /\ b < Len(Buttons) - 1
                  THEN [pane EXCEPT ![r.inst].at = b + 1] ELSE pane
       /\ UNCHANGED <<ui, queued, enters, asked, capture, allowed, meddled, misled>>

\* An Enter in the second step: the dialog closes with what was selected.
Close(i) ==
    LET c == pane[i].chosen IN
    /\ pane' = [pane EXCEPT ![i] = NoAsk]
    /\ misled' = IF c.n = pane[i].dialog.n /\ c.choice = c.meant
                 THEN misled ELSE misled \cup {i}

\* An Enter in the first step: the button at the cursor is selected.
Select(i, meant, n) ==
    /\ pane' = [pane EXCEPT ![i] = [dialog |-> pane[i].dialog, at |-> 0, chosen |->
                   [choice |-> Buttons[pane[i].at + 1], meant |-> meant, n |-> n]]]
    /\ UNCHANGED misled

\* What an Enter does; an agent without a dialog ignores it.
Enter(i, meant, n) ==
    \/ ~Open(i) /\ UNCHANGED <<pane, misled>>
    \/ Open(i) /\ pane[i].chosen = Nothing /\ Select(i, meant, n)
    \/ Open(i) /\ pane[i].chosen # Nothing /\ Close(i)

\* The Enter after the Right keys.
TypeSelection(k) ==
    LET r == replies[k] IN
    /\ r.step = "select" /\ r.taps = 0
    /\ replies' = [replies EXCEPT ![k].step = "confirm"]
    /\ Enter(r.inst, r.choice, r.n)
    /\ UNCHANGED <<ui, queued, enters, asked, capture, allowed, meddled>>

\* The second Enter, after sendKeyDelay.
TypeConfirmation(k) ==
    LET r == replies[k] IN
    /\ r.step = "confirm"
    /\ replies' = RemoveAt(replies, k)
    /\ Enter(r.inst, "none", r.n)
    /\ UNCHANGED <<ui, queued, enters, asked, capture, allowed, meddled>>

\* tmux refuses a key: the rest of the sequence is not typed.
TypingFails(k) ==
    /\ replies[k].step # "approve"
    /\ replies' = RemoveAt(replies, k)
    /\ UNCHANGED <<ui, pane, queued, enters, asked, capture, allowed, meddled, misled>>

----------------------------------------------------------------------------
(* The Enters that answer nothing *)

\* KeySendYes: "yes" waits for an agent that is selected and was seen idle.
KeySendYes ==
    /\ ui.screen = "default" /\ ui.sel \in ui.insts \cap OpenCode
    /\ queued' = queued \cup {ui.sel}
    /\ UNCHANGED <<ui, pane, enters, asked, capture, replies, allowed, meddled, misled>>

\* A tick that finds agents idle taps Enter for those with AutoYes, and prompts that
\* waited are sent to agents that are idle or ready, both by commands.
Tapped(idle, ready) ==
    /\ idle \cap queued \subseteq ready /\ ready \subseteq queued
    /\ queued' = queued \ ready
    /\ enters' = [i \in Insts |-> enters[i] + (IF i \in idle THEN 1 ELSE 0)
                                            + (IF i \in ready THEN 1 ELSE 0)]

\* Such an Enter is typed, whatever the agent shows by then.
StrayEnter(i) ==
    /\ Enter(i, "none", pane[i].dialog.n)
    /\ meddled' = IF Open(i) THEN meddled \cup {i} ELSE meddled

\* TapEnter and the end of SendPrompt, ...
TapEnter(i) ==
    /\ enters[i] > 0 /\ enters' = [enters EXCEPT ![i] = enters[i] - 1]
    /\ StrayEnter(i)
    /\ UNCHANGED <<ui, queued, asked, capture, replies, allowed>>

\* ... or tmux refuses.
TapFails(i) ==
    /\ enters[i] > 0 /\ enters' = [enters EXCEPT ![i] = enters[i] - 1]
    /\ UNCHANGED <<ui, pane, queued, asked, capture, replies, allowed, meddled, misled>>

\* What is bounded: a dialog, a prompt, and a capture that fails or misses a dialog that
\* is not drawn in the last lines of the pane.
PermSpend ==
    \/ \E i \in Insts, key \in Keys \cup {NoKey} : Ask(i, key)
    \/ \E i \in Insts : Collect({i})
    \/ KeySendYes

PermNext ==
    \/ \E i \in Insts : AnswerByHand(i) \/ TapEnter(i) \/ TapFails(i)
    \/ Collect({})
    \/ \E choice \in Answers : AnswerPermission(choice)
    \/ DismissPermission
    \/ \E k \in DOMAIN replies : \/ AutoApprove(k) \/ TypeRight(k) \/ TypeSelection(k)
                                 \/ TypeConfirmation(k) \/ TypingFails(k)

----------------------------------------------------------------------------
(* Properties *)

\* An answer given for one dialog never answers another one, or answers it otherwise:
\* the guard keeps a dialog that is still on the pane while its answer is typed from
\* being answered a second time, by the user or by the kept decision, in the next
\* tick.  Unless it was answered by hand; kasmos typed another Enter into it, for an
\* idle agent with AutoYes or at the end of a prompt, which selects what is at the
\* cursor; its agent was killed and spawned again; or it was hidden from a capture,
\* which clears the guard: the capture fails, or the dialog is not in the last lines of
\* the pane.
AnsweredAsAsked == misled \subseteq meddled
=============================================================================
