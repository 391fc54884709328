---------------------------- MODULE ScreensProofs ----------------------------
(***************************************************************************)
(* Proofs about Screens and Permissions.  A home state is followed through *)
(* the operators a step is composed of: each keeps the fields consistent   *)
(* with the screen that is shown (ScreenOK), and leaves the guards of the  *)
(* permission dialogs alone (Frame), but for the tick.                     *)
(***************************************************************************)
EXTENDS Screens, SharedProofs

(* What is invariant *)

\* An act that may be sent: a planner's is about a plan, a title's about a description.
Deeds == {a \in Act : /\ a.kind = "planner" => a.on \in Plans
                      /\ a.kind = "title" => a.on \in 0 .. MaxWork}

\* The home state, also within a tick, with its acts typed more closely.
Home == [screen : ScreenNames, sel : Insts \cup Plan, insts : SUBSET Insts, shown : Act,
         confirm : Deeds, next : Deeds, abort : Deeds, callback : Deeds,
         wave : Plan, planner : Plan, chat : Plan, topic : Plan, status : Plan,
         perm : [inst : Insts \cup {None}, n : 0 .. MaxAsks, key : Keys \cup {NoKey}],
         approve : Seq(Reply), handled : SUBSET Insts, deferred : Seq(Plans),
         prompted : SUBSET Plans, name : 0 .. MaxWork, desc : 0 .. MaxWork,
         prompting : BOOLEAN, seen : SUBSET {"start", "attach", "checkout"},
         orphans : SUBSET Act, did : SUBSET Message]

\* What a field is set for is on its screen, or a message replaced that screen.
Kept(m, screen, act) == (m.screen = screen /\ m.shown = act) \/ act \in m.orphans

\* A command whose message is still under way.
Sent(q, act) == \E x \in q : x.own = act

\* Every field is set for the screen that is shown, or its screen was replaced, or, for
\* a planner, its message is under way.
FieldsOK(m, q) ==
    /\ m.screen = "confirm" => m.confirm # NoAct /\ m.shown = m.confirm
    /\ m.screen = "chat"    => m.shown = A("chat", m.chat)
    /\ m.screen = "topic"   => m.shown = A("topic", m.topic)
    /\ m.screen = "status"  => m.shown = A("status", m.status)
    /\ m.screen = "permission" => m.perm.inst \in Insts /\ m.perm.n # 0
    /\ m.chat   # None  => Kept(m, "chat", A("chat", m.chat))
    /\ m.topic  # None  => Kept(m, "topic", A("topic", m.topic))
    /\ m.status # None  => Kept(m, "status", A("status", m.status))
    /\ m.wave   # None  => Kept(m, "confirm", A("wave", m.wave))
    /\ m.next   # NoAct => m.next.kind = "wave" /\ Kept(m, "confirm", m.next)
    /\ m.abort  # NoAct => m.abort.kind = "wave" /\ Kept(m, "confirm", m.abort)
    /\ m.planner # None => \/ Kept(m, "confirm", A("planner", m.planner))
                           \/ Sent(q, A("planner", m.planner))

\* A message does what its screen showed, unless that screen was another's by then.
InboxOK(m, q) ==
    /\ q \subseteq Message
    /\ \A x \in q : /\ x.own \in Deeds
                    /\ x.own.kind \in Captured => x.meant = x.own \/ x.own \in m.orphans

\* What was done was done to what was shown.
DidOK(m, q) ==
    \A d \in m.did : d.own.kind \in Captured =>
        d.meant = d.own \/ d.own \in m.orphans \/ Sent(q, d.own)

\* The home state and the commands under way.
ScreenOK(m, q) == m \in Home /\ FieldsOK(m, q) /\ InboxOK(m, q) /\ DidOK(m, q)

\* The instances are what the sidebar lists.
LEMMA InstSeqType ==
    /\ InstSeq \in Seq(Insts) /\ Len(InstSeq) \in Nat /\ DOMAIN InstSeq = 1 .. Len(InstSeq)
    /\ \A k \in DOMAIN InstSeq : InstSeq[k] \in Insts
    /\ \A j, k \in DOMAIN InstSeq : InstSeq[j] = InstSeq[k] => j = k
  <1>1. InstSeq \in Seq(Insts) /\ IsInjective(InstSeq)
    BY PermissionAssumption
  <1>2. \A j, k \in DOMAIN InstSeq : InstSeq[j] = InstSeq[k] => j = k
    BY <1>1 DEF IsInjective
  <1>3. QED
    BY <1>1, <1>2

\* What is left alone: the guards and the dialog of the permission screen.
Frame(m, n) ==
    /\ n.handled = m.handled /\ n.approve = m.approve
    /\ n.screen = "permission" => m.screen = "permission" /\ n.perm = m.perm

----------------------------------------------------------------------------
(* Opening and closing *)

\* A home state whose fields are all of replaced screens: any screen may be opened.
Loose(m, q) ==
    /\ m \in Home /\ InboxOK(m, q) /\ DidOK(m, q)
    /\ m.chat   # None  => A("chat", m.chat) \in m.orphans
    /\ m.topic  # None  => A("topic", m.topic) \in m.orphans
    /\ m.status # None  => A("status", m.status) \in m.orphans
    /\ m.wave   # None  => A("wave", m.wave) \in m.orphans
    /\ m.next   # NoAct => m.next.kind = "wave" /\ m.next \in m.orphans
    /\ m.abort  # NoAct => m.abort.kind = "wave" /\ m.abort \in m.orphans
    /\ m.planner # None => \/ A("planner", m.planner) \in m.orphans
                           \/ Sent(q, A("planner", m.planner))

\* The screens that have a field.
Keeping == {"confirm", "chat", "topic", "status"}

\* Acts that are typed.
LEMMA ActTypes ==
    /\ NoAct \in Deeds /\ Deeds \subseteq Act /\ NoAct.kind \notin Captured
    /\ \A kind \in (Captured \cup OnSelected \cup {"none", "checkout", "attach", "sessions",
             "search", "task", "helpStart", "start", "other"}) \ {"planner"}, on \in Subjects :
          A(kind, on) \in Deeds
    /\ \A p \in Plans : A("planner", p) \in Deeds
    /\ \A d \in 0 .. MaxWork : A("title", d) \in Deeds
    /\ \A kind, on : A(kind, on).kind = kind /\ A(kind, on).on = on
  BY DEF NoAct, Deeds, Act, A, Captured, OnSelected, Subjects

\* What is shown is replaced.
LEMMA AwayLoose ==
    ASSUME NEW m, NEW q, ScreenOK(m, q)
    PROVE  Loose(Away(m), q) /\ Frame(m, Away(m)) /\ Away(m).did = m.did
  <1> DEFINE o == IF m.shown.kind \in Captured THEN m.orphans \cup {m.shown} ELSE m.orphans
             n == [m EXCEPT !.orphans = o]
  <1>1. Away(m) = n
    BY DEF Away, ScreenOK, Home
  <1>2. o \in SUBSET Act /\ m.orphans \subseteq o /\ (m.shown.kind \in Captured => m.shown \in o)
    BY DEF ScreenOK, Home
  <1> HIDE DEF o
  <1>3. n \in Home
    BY <1>2 DEF ScreenOK, Home
  <1>4. /\ n.orphans = o /\ n.did = m.did /\ n.handled = m.handled /\ n.approve = m.approve
        /\ n.screen = m.screen /\ n.perm = m.perm /\ n.chat = m.chat /\ n.topic = m.topic
        /\ n.status = m.status /\ n.wave = m.wave /\ n.next = m.next /\ n.abort = m.abort
        /\ n.planner = m.planner
    BY DEF ScreenOK, Home
  <1> HIDE DEF n
  <1>5. InboxOK(n, q) /\ DidOK(n, q)
    BY <1>2, <1>4 DEF ScreenOK, InboxOK, DidOK
  <1>6. \A screen, act : Kept(m, screen, act) /\ act.kind \in Captured => act \in n.orphans
    BY <1>2, <1>4 DEF Kept
  <1>7. /\ n.chat   # None  => A("chat", n.chat) \in n.orphans
        /\ n.topic  # None  => A("topic", n.topic) \in n.orphans
        /\ n.status # None  => A("status", n.status) \in n.orphans
        /\ n.wave   # None  => A("wave", n.wave) \in n.orphans
    BY <1>4, <1>6, ActTypes DEF ScreenOK, FieldsOK, Captured
  <1>8. /\ n.next   # NoAct => n.next.kind = "wave" /\ n.next \in n.orphans
        /\ n.abort  # NoAct => n.abort.kind = "wave" /\ n.abort \in n.orphans
        /\ n.planner # None => \/ A("planner", n.planner) \in n.orphans
                               \/ Sent(q, A("planner", n.planner))
    BY <1>4, <1>6, ActTypes DEF ScreenOK, FieldsOK, Captured
  <1>9. QED
    BY <1>1, <1>3, <1>4, <1>5, <1>7, <1>8 DEF Loose, Frame

\* A screen without a field.
LEMMA PlainLoose ==
    ASSUME NEW m, NEW q, ScreenOK(m, q), m.screen \notin Keeping
    PROVE  Loose(m, q)
  BY DEF ScreenOK, FieldsOK, Kept, Loose, Keeping

\* The screen and what it shows, and nothing else.
Opened(m, s, act) == [m EXCEPT !.screen = s, !.shown = act]

\* Opening one.
LEMMA LooseShown ==
    ASSUME NEW m, NEW q, Loose(m, q), NEW s \in ScreenNames \ (Keeping \cup {"permission"}),
           NEW act \in Act
    PROVE  /\ ScreenOK(Opened(m, s, act), q) /\ Frame(m, Opened(m, s, act))
           /\ Opened(m, s, act).did = m.did
  <1> DEFINE n == Opened(m, s, act)
  <1>0. n = [m EXCEPT !.screen = s, !.shown = act]
    BY DEF Opened
  <1> HIDE DEF n
  <1>1. n \in Home
    BY <1>0 DEF Loose, Home
  <1>2. /\ n.orphans = m.orphans /\ n.did = m.did /\ n.handled = m.handled
        /\ n.approve = m.approve /\ n.screen = s /\ n.perm = m.perm /\ n.chat = m.chat
        /\ n.topic = m.topic /\ n.status = m.status /\ n.wave = m.wave /\ n.next = m.next
        /\ n.abort = m.abort /\ n.planner = m.planner
    BY <1>0 DEF Loose, Home
  <1>3. FieldsOK(n, q)
    BY <1>2 DEF Loose, FieldsOK, Kept, Keeping
  <1>4. InboxOK(n, q) /\ DidOK(n, q)
    BY <1>2 DEF Loose, InboxOK, DidOK
  <1>5. QED
    BY <1>1, <1>2, <1>3, <1>4 DEF ScreenOK, Frame, n

\* Frames compose.
LEMMA FrameThenFrame ==
    ASSUME NEW m, NEW n, NEW o, Frame(m, n), Frame(n, o)
    PROVE  Frame(m, o)
  BY DEF Frame

\* A screen without a field opens over any other.
LEMMA ShowFacts ==
    ASSUME NEW m, NEW q, ScreenOK(m, q), NEW s \in ScreenNames \ (Keeping \cup {"permission"}),
           NEW act \in Act
    PROVE  /\ ScreenOK(Show(m, s, act), q) /\ Frame(m, Show(m, s, act))
           /\ Show(m, s, act).did = m.did
  <1> DEFINE a == Away(m)
  <1>1. Loose(a, q) /\ Frame(m, a) /\ a.did = m.did
    BY AwayLoose
  <1> DEFINE n == Show(m, s, act)
  <1>2. n = Opened(a, s, act)
    BY DEF Show, Opened
  <1> HIDE DEF a, n
  <1>3. ScreenOK(n, q) /\ Frame(a, n) /\ n.did = a.did
    <2>1. Loose(a, q)
      BY <1>1
    <2>2. QED
      BY ONLY <1>2, <2>1, s \in ScreenNames \ (Keeping \cup {"permission"}), act \in Act,
         LooseShown
  <1>4. QED
    BY <1>1, <1>3, FrameThenFrame DEF n

\* A loose state closes.
LEMMA LooseClosed ==
    ASSUME NEW m, NEW q, Loose(m, q)
    PROVE  /\ ScreenOK(Closed(m), q) /\ Frame(m, Closed(m))
           /\ Closed(m).did = m.did /\ Closed(m).screen = "default"
  <1>1. "default" \in ScreenNames \ (Keeping \cup {"permission"}) /\ NoAct \in Act
    BY ActTypes DEF ScreenNames, Keeping
  <1> DEFINE n == Closed(m)
  <1>2. n = Opened(m, "default", NoAct)
    BY DEF Closed, Opened
  <1>3. n.screen = "default"
    BY DEF Closed, Loose, Home
  <1> HIDE DEF n
  <1>4. ScreenOK(n, q) /\ Frame(m, n) /\ n.did = m.did
    BY <1>1, <1>2, LooseShown
  <1>5. QED
    BY <1>3, <1>4 DEF n

\* A screen without a field closes.
LEMMA ClosedFacts ==
    ASSUME NEW m, NEW q, ScreenOK(m, q), m.screen \notin Keeping
    PROVE  /\ ScreenOK(Closed(m), q) /\ Frame(m, Closed(m))
           /\ Closed(m).did = m.did /\ Closed(m).screen = "default"
  BY PlainLoose, LooseClosed

\* Any screen is replaced by the default one.
LEMMA LeftFacts ==
    ASSUME NEW m, NEW q, ScreenOK(m, q)
    PROVE  /\ ScreenOK(Closed(Away(m)), q) /\ Frame(m, Closed(Away(m)))
           /\ Closed(Away(m)).did = m.did /\ Closed(Away(m)).screen = "default"
  <1>1. Loose(Away(m), q) /\ Frame(m, Away(m)) /\ Away(m).did = m.did
    BY AwayLoose
  <1>2. /\ ScreenOK(Closed(Away(m)), q) /\ Frame(Away(m), Closed(Away(m)))
        /\ Closed(Away(m)).did = Away(m).did /\ Closed(Away(m)).screen = "default"
    BY <1>1, LooseClosed
  <1>3. QED
    BY <1>1, <1>2, FrameThenFrame

\* What the fields of the screens are.
SameFields(m, n) ==
    /\ n.screen = m.screen /\ n.shown = m.shown /\ n.confirm = m.confirm /\ n.next = m.next
    /\ n.abort = m.abort /\ n.wave = m.wave /\ n.planner = m.planner /\ n.chat = m.chat
    /\ n.topic = m.topic /\ n.status = m.status /\ n.perm = m.perm
    /\ n.orphans = m.orphans /\ n.did = m.did

\* The rest may change.
LEMMA SideOK ==
    ASSUME NEW m, NEW n, NEW q, ScreenOK(m, q), n \in Home, SameFields(m, n)
    PROVE  ScreenOK(n, q)
  <1>1. FieldsOK(n, q)
    BY DEF ScreenOK, SameFields, FieldsOK, Kept
  <1>2. InboxOK(n, q) /\ DidOK(n, q)
    BY DEF ScreenOK, SameFields, InboxOK, DidOK
  <1>3. QED
    BY <1>1, <1>2 DEF ScreenOK

\* A step starts with nothing done.
LEMMA FreshFacts ==
    ASSUME NEW q, ScreenOK(ui, q)
    PROVE  /\ ScreenOK(Fresh, q) /\ Frame(ui, Fresh) /\ Fresh.did = {}
           /\ Fresh.screen = ui.screen /\ Fresh.shown = ui.shown /\ Fresh.confirm = ui.confirm
           /\ Fresh.next = ui.next /\ Fresh.abort = ui.abort /\ Fresh.wave = ui.wave
           /\ Fresh.planner = ui.planner /\ Fresh.chat = ui.chat /\ Fresh.topic = ui.topic
           /\ Fresh.status = ui.status /\ Fresh.orphans = ui.orphans /\ Fresh.insts = ui.insts
           /\ Fresh.sel = ui.sel /\ Fresh.approve = ui.approve /\ Fresh.handled = ui.handled
           /\ Fresh.perm = ui.perm /\ Fresh.prompting = ui.prompting /\ Fresh.seen = ui.seen
           /\ Fresh.deferred = ui.deferred /\ Fresh.prompted = ui.prompted
  <1> DEFINE n == [ui EXCEPT !.did = {}]
  <1>1. Fresh = n
    BY DEF Fresh
  <1>2. n \in Home
    BY DEF ScreenOK, Home
  <1>3. /\ n.did = {}
        /\ n.screen = ui.screen /\ n.shown = ui.shown /\ n.confirm = ui.confirm
        /\ n.next = ui.next /\ n.abort = ui.abort /\ n.wave = ui.wave
        /\ n.planner = ui.planner /\ n.chat = ui.chat /\ n.topic = ui.topic
        /\ n.status = ui.status /\ n.orphans = ui.orphans /\ n.insts = ui.insts
        /\ n.sel = ui.sel /\ n.approve = ui.approve /\ n.handled = ui.handled
        /\ n.perm = ui.perm /\ n.prompting = ui.prompting /\ n.seen = ui.seen
        /\ n.deferred = ui.deferred /\ n.prompted = ui.prompted
    BY DEF ScreenOK, Home
  <1> HIDE DEF n
  <1>4. FieldsOK(n, q)
    BY <1>3 DEF ScreenOK, FieldsOK, Kept
  <1>5. InboxOK(n, q) /\ DidOK(n, q)
    BY <1>3 DEF ScreenOK, InboxOK, DidOK
  <1>6. QED
    BY <1>1, <1>2, <1>3, <1>4, <1>5 DEF ScreenOK, Frame

\* Something is done.
LEMMA DoneFacts ==
    ASSUME NEW m, NEW q, ScreenOK(m, q), NEW act \in Act, NEW meant \in Act,
           act.kind \in Captured => meant = act \/ act \in m.orphans \/ Sent(q, act)
    PROVE  LET n == Done(m, act, meant)
           IN  /\ ScreenOK(n, q) /\ Frame(m, n)
               /\ n.screen = m.screen /\ n.shown = m.shown /\ n.wave = m.wave
               /\ n.planner = m.planner /\ n.orphans = m.orphans /\ n.insts = m.insts
               /\ n.sel = m.sel /\ n.prompted = m.prompted
  <1>1. CASE act = meant
    BY <1>1 DEF Done, Frame
  <1>2. CASE act # meant
    <2> DEFINE x == [own |-> act, meant |-> meant]
               D == m.did \cup {x}
               n == [m EXCEPT !.did = D]
    <2>1. Done(m, act, meant) = n
      BY <1>2 DEF Done, ScreenOK, Home
    <2>2. x \in Message /\ x.own = act /\ x.meant = meant
      BY DEF Message
    <2> HIDE DEF x
    <2>3. D \in SUBSET Message
      BY <2>2 DEF ScreenOK, Home
    <2>4. n \in Home
      <3> HIDE DEF D
      <3> QED
        BY <2>3 DEF ScreenOK, Home
    <2>5. /\ n.did = D /\ n.screen = m.screen /\ n.shown = m.shown /\ n.confirm = m.confirm
          /\ n.next = m.next /\ n.abort = m.abort /\ n.wave = m.wave
          /\ n.planner = m.planner /\ n.chat = m.chat /\ n.topic = m.topic
          /\ n.status = m.status /\ n.orphans = m.orphans /\ n.perm = m.perm
          /\ n.handled = m.handled /\ n.approve = m.approve /\ n.insts = m.insts
          /\ n.sel = m.sel /\ n.prompted = m.prompted
      BY DEF ScreenOK, Home
    <2> HIDE DEF n
    <2>6. FieldsOK(n, q)
      BY <2>5 DEF ScreenOK, FieldsOK, Kept
    <2>7. InboxOK(n, q)
      BY <2>5 DEF ScreenOK, InboxOK
    <2>8. DidOK(n, q)
      <3>1. \A d \in m.did : d.own.kind \in Captured =>
               d.meant = d.own \/ d.own \in m.orphans \/ Sent(q, d.own)
        BY DEF ScreenOK, DidOK
      <3>2. \A d \in n.did : d.own.kind \in Captured =>
               d.meant = d.own \/ d.own \in n.orphans \/ Sent(q, d.own)
        BY <2>2, <2>5, <3>1
      <3>3. QED
        BY <3>2 DEF DidOK
    <2>9. QED
      BY <2>1, <2>4, <2>5, <2>6, <2>7, <2>8 DEF ScreenOK, Frame
  <1>3. QED
    BY <1>1, <1>2

\* A command is sent.
LEMMA SentFacts ==
    ASSUME NEW m, NEW q, NEW r, ScreenOK(m, q), InboxOK(m, r)
    PROVE  ScreenOK(m, q \cup r)
  BY DEF ScreenOK, FieldsOK, InboxOK, DidOK, Sent

\* A message arrives that is not a planner's, before anything is done.
LEMMA ArrivedFacts ==
    ASSUME NEW m, NEW q, NEW x \in q, ScreenOK(m, q), m.did = {}, x.own.kind # "planner"
    PROVE  ScreenOK(m, q \ {x})
  <1>1. \A p : Sent(q, A("planner", p)) => Sent(q \ {x}, A("planner", p))
    BY ActTypes DEF Sent
  <1>2. FieldsOK(m, q \ {x})
    BY <1>1 DEF ScreenOK, FieldsOK
  <1>3. InboxOK(m, q \ {x}) /\ DidOK(m, q \ {x})
    BY DEF ScreenOK, InboxOK, DidOK
  <1>4. QED
    BY <1>2, <1>3 DEF ScreenOK

----------------------------------------------------------------------------
(* Dialogs and the screens with a field *)

\* A dialog opens over a loose state.
LEMMA LooseDialog ==
    ASSUME NEW m, NEW q, Loose(m, q), NEW act \in Deeds \ {NoAct},
           NEW n, n = [m EXCEPT !.screen = "confirm", !.shown = act, !.confirm = act]
    PROVE  ScreenOK(n, q) /\ Frame(m, n) /\ n.did = m.did
  <1>1. "confirm" \in ScreenNames /\ act \in Act
    BY DEF ScreenNames, Deeds
  <1>2. n \in Home
    BY <1>1 DEF Loose, Home
  <1>3. /\ n.orphans = m.orphans /\ n.did = m.did /\ n.handled = m.handled
        /\ n.approve = m.approve /\ n.screen = "confirm" /\ n.shown = act /\ n.confirm = act
        /\ n.perm = m.perm /\ n.chat = m.chat /\ n.topic = m.topic
        /\ n.status = m.status /\ n.wave = m.wave /\ n.next = m.next
        /\ n.abort = m.abort /\ n.planner = m.planner
    BY DEF Loose, Home
  <1>4. FieldsOK(n, q)
    BY <1>3 DEF Loose, FieldsOK, Kept
  <1>5. InboxOK(n, q) /\ DidOK(n, q)
    BY <1>3 DEF Loose, InboxOK, DidOK
  <1>6. QED
    BY <1>2, <1>3, <1>4, <1>5 DEF ScreenOK, Frame

\* A dialog opens.
LEMMA DialogFacts ==
    ASSUME NEW m, NEW q, ScreenOK(m, q), NEW act \in Deeds \ {NoAct}
    PROVE  LET n == Dialog(m, act)
           IN  /\ ScreenOK(n, q) /\ Frame(m, n) /\ n.did = m.did
               /\ n.screen = "confirm" /\ n.shown = act
  <1> DEFINE a == Away(m)
             n == Dialog(m, act)
  <1>1. Loose(a, q) /\ Frame(m, a) /\ a.did = m.did
    BY AwayLoose
  <1>2. n = [[a EXCEPT !.screen = "confirm", !.shown = act] EXCEPT !.confirm = act]
    BY DEF Dialog, Show
  <1> HIDE DEF a, n
  <1>3. n = [a EXCEPT !.screen = "confirm", !.shown = act, !.confirm = act]
    BY <1>1, <1>2 DEF Loose, Home
  <1>4. n.screen = "confirm" /\ n.shown = act
    BY <1>1, <1>3 DEF Loose, Home
  <1>5. ScreenOK(n, q) /\ Frame(a, n) /\ n.did = a.did
    <2>1. Loose(a, q)
      BY <1>1
    <2>2. QED
      BY ONLY <1>3, <2>1, act \in Deeds \ {NoAct}, LooseDialog
  <1>6. QED
    BY <1>1, <1>4, <1>5, FrameThenFrame DEF n

\* The act of the dialog of a wave.
LEMMA WaveActs ==
    ASSUME NEW p \in Plans
    PROVE  /\ A("wave", p) \in Deeds \ {NoAct} /\ p \in Plan
           /\ A("wave", p).kind = "wave" /\ A("wave", p).on = p
  <1>1. A("wave", p).kind = "wave" /\ A("wave", p).on = p
    BY ActTypes
  <1>2. NoAct.kind = "none"
    BY DEF NoAct
  <1>3. p \in Subjects /\ p \in Plan
    BY DEF Subjects, Plan
  <1>4. A("wave", p) \in Deeds
    BY <1>3, ActTypes DEF Captured
  <1>5. QED
    BY <1>1, <1>2, <1>3, <1>4

\* The dialog of a wave that is over.
LEMMA WaveDialogFacts ==
    ASSUME NEW m, NEW q, ScreenOK(m, q), NEW p \in Plans
    PROVE  LET n == WaveDialog(m, p)
           IN  /\ ScreenOK(n, q) /\ Frame(m, n) /\ n.did = m.did
               /\ n.screen = "confirm" /\ n.shown = A("wave", p)
  <1> DEFINE act == A("wave", p)
             d == Dialog(m, act)
             n == WaveDialog(m, p)
  <1>1. act \in Deeds \ {NoAct} /\ p \in Plan /\ act.kind = "wave" /\ act.on = p
    BY WaveActs
  <1> HIDE DEF act
  <1>2. /\ ScreenOK(d, q) /\ Frame(m, d) /\ d.did = m.did
        /\ d.screen = "confirm" /\ d.shown = act
    BY <1>1, DialogFacts
  <1>3. n = [d EXCEPT !.wave = p]
    BY DEF WaveDialog, act
  <1> HIDE DEF d, n
  <1>4. n \in Home
    BY <1>1, <1>2, <1>3, ZenonT(30) DEF ScreenOK, Home
  <1>5. /\ n.screen = d.screen /\ n.shown = d.shown /\ n.confirm = d.confirm /\ n.next = d.next
        /\ n.abort = d.abort /\ n.wave = p /\ n.planner = d.planner /\ n.chat = d.chat
        /\ n.topic = d.topic /\ n.status = d.status /\ n.perm = d.perm
        /\ n.orphans = d.orphans /\ n.did = d.did
        /\ n.handled = d.handled /\ n.approve = d.approve
    BY <1>2, <1>3 DEF ScreenOK, Home
  <1>6. FieldsOK(n, q)
    BY <1>2, <1>5 DEF ScreenOK, FieldsOK, Kept, act
  <1>7. InboxOK(n, q) /\ DidOK(n, q)
    BY <1>2, <1>5 DEF ScreenOK, InboxOK, DidOK
  <1>8. ScreenOK(n, q) /\ Frame(d, n)
    BY <1>4, <1>5, <1>6, <1>7 DEF ScreenOK, Frame
  <1>9. QED
    BY <1>2, <1>5, <1>8, FrameThenFrame DEF n, act

\* That of a failed one, with its acts for the other keys.
LEMMA WaveFailedFacts ==
    ASSUME NEW m, NEW q, ScreenOK(m, q), NEW p \in Plans
    PROVE  LET n == WaveFailedDialog(m, p)
           IN  ScreenOK(n, q) /\ Frame(m, n) /\ n.did = m.did /\ n.screen = "confirm"
  <1> DEFINE act == A("wave", p)
             d == WaveDialog(m, p)
             n == WaveFailedDialog(m, p)
  <1>1. act \in Deeds \ {NoAct} /\ p \in Plan /\ act.kind = "wave" /\ act.on = p
    BY WaveActs
  <1> HIDE DEF act
  <1>2. /\ ScreenOK(d, q) /\ Frame(m, d) /\ d.did = m.did
        /\ d.screen = "confirm" /\ d.shown = act
    BY WaveDialogFacts DEF act
  <1>3. n = [d EXCEPT !.next = act, !.abort = act]
    BY DEF WaveFailedDialog, act
  <1> HIDE DEF d, n
  <1>4. n \in Home
    BY <1>1, <1>2, <1>3, ZenonT(30) DEF ScreenOK, Home
  <1>5. /\ n.screen = d.screen /\ n.shown = d.shown /\ n.confirm = d.confirm /\ n.next = act
        /\ n.abort = act /\ n.wave = d.wave /\ n.planner = d.planner /\ n.chat = d.chat
        /\ n.topic = d.topic /\ n.status = d.status /\ n.perm = d.perm
        /\ n.orphans = d.orphans /\ n.did = d.did
        /\ n.handled = d.handled /\ n.approve = d.approve
    BY <1>2, <1>3 DEF ScreenOK, Home
  <1>6. FieldsOK(n, q)
    BY <1>1, <1>2, <1>5 DEF ScreenOK, FieldsOK, Kept
  <1>7. InboxOK(n, q) /\ DidOK(n, q)
    BY <1>2, <1>5 DEF ScreenOK, InboxOK, DidOK
  <1>8. ScreenOK(n, q) /\ Frame(d, n)
    BY <1>4, <1>5, <1>6, <1>7 DEF ScreenOK, Frame
  <1>9. QED
    BY <1>2, <1>5, <1>8, FrameThenFrame DEF n

\* A plan's instance, if it has one.
LEMMA FirstType ==
    ASSUME NEW m, NEW p
    PROVE  /\ First(m, p) \in Insts \cup {None}
           /\ First(m, p) # None => First(m, p) \in m.insts
  <1> DEFINE K == {k \in DOMAIN InstSeq : InstSeq[k] \in m.insts /\ PlanOf[InstSeq[k]] = p}
             i == CHOOSE k \in K : \A j \in K : k <= j
  <1>1. CASE K = {}
    BY <1>1 DEF First
  <1>2. CASE K # {}
    <2>1. K \in SUBSET Nat /\ \A k \in K : InstSeq[k] \in Insts /\ InstSeq[k] \in m.insts
      BY InstSeqType DEF Insts
    <2>2. \E k \in K : \A j \in K : k <= j
      <3> HIDE DEF K
      <3> QED
        BY <1>2, <2>1, NatMin
    <2>3. i \in K
      <3> HIDE DEF K
      <3> QED
        BY <2>2
    <2>4. First(m, p) = InstSeq[i]
      BY <1>2 DEF First
    <2>5. QED
      BY <2>1, <2>3, <2>4
  <1>3. QED
    BY <1>1, <1>2

\* A planner's dialog opens in the default screen, with its plan in the field.
LEMMA PlannerDialogFacts ==
    ASSUME NEW m, NEW q, ScreenOK(m, q), m.screen = "default", NEW p \in Plans,
           NEW i \in Insts \cup {None}
    PROVE  LET n == Dialog(Focus([m EXCEPT !.planner = p], i), A("planner", p))
           IN  ScreenOK(n, q) /\ Frame(m, n) /\ n.did = m.did /\ n.screen = "confirm"
  <1> DEFINE act == A("planner", p)
             g == [m EXCEPT !.planner = p]
             f == Focus(g, i)
             o == IF f.shown.kind \in Captured THEN f.orphans \cup {f.shown} ELSE f.orphans
             n == Dialog(f, act)
  <1>1. act \in Deeds \ {NoAct} /\ p \in Plan /\ act.kind = "planner" /\ act.on = p
    BY ActTypes DEF Plan, NoAct
  <1>2. Loose(m, q)
    BY PlainLoose DEF Keeping
  <1>3. g \in Home
    BY <1>1, <1>2 DEF Loose, Home
  <1>4. f \in Home
    BY <1>3, ZenonT(30) DEF Focus, Home
  <1>5. /\ f.shown = m.shown /\ f.orphans = m.orphans /\ f.did = m.did /\ f.planner = p
        /\ f.chat = m.chat /\ f.topic = m.topic /\ f.status = m.status /\ f.wave = m.wave
        /\ f.next = m.next /\ f.abort = m.abort /\ f.handled = m.handled
        /\ f.approve = m.approve /\ f.perm = m.perm
    BY <1>2 DEF Focus, Loose, Home
  <1> HIDE DEF g, f, act
  <1>6. o \in SUBSET Act /\ m.orphans \subseteq o
    BY <1>4, <1>5 DEF Home
  <1>7. n = [f EXCEPT !.orphans = o, !.screen = "confirm", !.shown = act, !.confirm = act]
    BY <1>4 DEF Dialog, Show, Away, Home
  <1> HIDE DEF o, n
  <1>8. n \in Home
    <2>1. "confirm" \in ScreenNames /\ act \in Act
      BY <1>1 DEF ScreenNames, Deeds
    <2>2. QED
      BY <1>1, <1>4, <1>6, <1>7, <2>1 DEF Home
  <1>9. /\ n.orphans = o /\ n.did = m.did /\ n.planner = p
        /\ n.chat = m.chat /\ n.topic = m.topic /\ n.status = m.status /\ n.wave = m.wave
        /\ n.next = m.next /\ n.abort = m.abort /\ n.handled = m.handled
        /\ n.approve = m.approve /\ n.perm = m.perm
        /\ n.screen = "confirm" /\ n.shown = act /\ n.confirm = act
    BY <1>4, <1>5, <1>7 DEF Home
  <1>10. FieldsOK(n, q)
    BY <1>1, <1>2, <1>6, <1>9 DEF Loose, FieldsOK, Kept, act
  <1>11. InboxOK(n, q) /\ DidOK(n, q)
    BY <1>2, <1>6, <1>9 DEF Loose, InboxOK, DidOK
  <1>12. QED
    BY <1>8, <1>9, <1>10, <1>11 DEF ScreenOK, Frame, n, f, g, act

\* The topic picker opens in the place of a menu.
LEMMA TopicOpens ==
    ASSUME NEW m, NEW q, ScreenOK(m, q), m.screen \notin Keeping, NEW p \in Plans,
           NEW n, n = Show([m EXCEPT !.topic = p], "topic", A("topic", p))
    PROVE  ScreenOK(n, q) /\ Frame(m, n) /\ n.did = m.did
  <1> DEFINE act == A("topic", p)
             o == IF m.shown.kind \in Captured THEN m.orphans \cup {m.shown} ELSE m.orphans
  <1>1. act \in Deeds \ {NoAct} /\ p \in Plan /\ act \in Act
    <2>1. act.kind = "topic" /\ NoAct.kind = "none"
      BY ActTypes DEF NoAct
    <2>2. act \in Deeds /\ p \in Plan
      BY ActTypes DEF Plan, Captured, Subjects
    <2>3. QED
      BY <2>1, <2>2, ActTypes
  <1>2. Loose(m, q) /\ "topic" \in ScreenNames
    BY PlainLoose DEF ScreenNames, PickerScreens, TextScreens
  <1>3. n = [m EXCEPT !.topic = p, !.orphans = o, !.screen = "topic", !.shown = act]
    BY <1>1, <1>2 DEF Show, Away, Loose, Home
  <1>4. o \in SUBSET Act /\ m.orphans \subseteq o
    BY <1>2 DEF Loose, Home
  <1> HIDE DEF act, o
  <1>5. n \in Home
    <2>1. m \in Home /\ o \in SUBSET Act /\ act \in Act
      BY <1>1, <1>2, <1>4 DEF Loose
    <2>2. QED
      BY ONLY <1>1, <1>2, <1>3, <2>1 DEF Home
  <1>6. /\ n.orphans = o /\ n.did = m.did /\ n.handled = m.handled
        /\ n.approve = m.approve /\ n.screen = "topic" /\ n.shown = act /\ n.perm = m.perm
        /\ n.chat = m.chat
        /\ n.topic = p
        /\ n.status = m.status
        /\ n.wave = m.wave
        /\ n.next = m.next
        /\ n.abort = m.abort
        /\ n.planner = m.planner
    BY <1>2, <1>3, ZenonT(30) DEF Loose, Home
  <1>7. FieldsOK(n, q)
    BY <1>2, <1>4, <1>6 DEF Loose, FieldsOK, Kept, act
  <1>8. InboxOK(n, q) /\ DidOK(n, q)
    BY <1>2, <1>4, <1>6 DEF Loose, InboxOK, DidOK
  <1>9. QED
    BY <1>5, <1>6, <1>7, <1>8 DEF ScreenOK, Frame

\* ... and closes: its plan is the one that was shown, and the field is cleared.
LEMMA TopicCloses ==
    ASSUME NEW m, NEW q, ScreenOK(m, q), m.screen = "topic",
           NEW n, n = [Closed(m) EXCEPT !.topic = None]
    PROVE  /\ ScreenOK(n, q) /\ Frame(m, n) /\ n.did = m.did /\ n.screen = "default"
           /\ m.shown = A("topic", m.topic)
  <1> DEFINE c == [m EXCEPT !.topic = None]
  <1>1. Loose(c, q) /\ Frame(m, c) /\ c.did = m.did
    <2>1. c \in Home
      BY DEF ScreenOK, Home, Plan
    <2>2. /\ c.orphans = m.orphans /\ c.did = m.did /\ c.handled = m.handled
          /\ c.approve = m.approve /\ c.screen = m.screen /\ c.perm = m.perm
          /\ c.chat = m.chat
          /\ c.topic = None
          /\ c.status = m.status
          /\ c.wave = m.wave
          /\ c.next = m.next
          /\ c.abort = m.abort
          /\ c.planner = m.planner
      BY DEF ScreenOK, Home
    <2> HIDE DEF c
    <2>3. InboxOK(c, q) /\ DidOK(c, q)
      BY <2>2 DEF ScreenOK, InboxOK, DidOK
    <2>4. QED
      BY <2>1, <2>2, <2>3 DEF ScreenOK, FieldsOK, Kept, Loose, Frame
  <1>2. n = Closed(c)
    BY DEF Closed, ScreenOK, Home
  <1>3. m.shown = A("topic", m.topic)
    BY DEF ScreenOK, FieldsOK
  <1> HIDE DEF c
  <1>4. /\ ScreenOK(Closed(c), q) /\ Frame(c, Closed(c))
        /\ Closed(c).did = c.did /\ Closed(c).screen = "default"
    BY <1>1, LooseClosed
  <1>5. QED
    BY <1>1, <1>2, <1>3, <1>4, FrameThenFrame

\* The status picker opens in the place of a menu.
LEMMA StatusOpens ==
    ASSUME NEW m, NEW q, ScreenOK(m, q), m.screen \notin Keeping, NEW p \in Plans,
           NEW n, n = Show([m EXCEPT !.status = p], "status", A("status", p))
    PROVE  ScreenOK(n, q) /\ Frame(m, n) /\ n.did = m.did
  <1> DEFINE act == A("status", p)
             o == IF m.shown.kind \in Captured THEN m.orphans \cup {m.shown} ELSE m.orphans
  <1>1. act \in Deeds \ {NoAct} /\ p \in Plan /\ act \in Act
    <2>1. act.kind = "status" /\ NoAct.kind = "none"
      BY ActTypes DEF NoAct
    <2>2. act \in Deeds /\ p \in Plan
      BY ActTypes DEF Plan, Captured, Subjects
    <2>3. QED
      BY <2>1, <2>2, ActTypes
  <1>2. Loose(m, q) /\ "status" \in ScreenNames
    BY PlainLoose DEF ScreenNames, PickerScreens, TextScreens
  <1>3. n = [m EXCEPT !.status = p, !.orphans = o, !.screen = "status", !.shown = act]
    BY <1>1, <1>2 DEF Show, Away, Loose, Home
  <1>4. o \in SUBSET Act /\ m.orphans \subseteq o
    BY <1>2 DEF Loose, Home
  <1> HIDE DEF act, o
  <1>5. n \in Home
    <2>1. m \in Home /\ o \in SUBSET Act /\ act \in Act
      BY <1>1, <1>2, <1>4 DEF Loose
    <2>2. QED
      BY ONLY <1>1, <1>2, <1>3, <2>1 DEF Home
  <1>6. /\ n.orphans = o /\ n.did = m.did /\ n.handled = m.handled
        /\ n.approve = m.approve /\ n.screen = "status" /\ n.shown = act /\ n.perm = m.perm
        /\ n.chat = m.chat
        /\ n.topic = m.topic
        /\ n.status = p
        /\ n.wave = m.wave
        /\ n.next = m.next
        /\ n.abort = m.abort
        /\ n.planner = m.planner
    BY <1>2, <1>3, ZenonT(30) DEF Loose, Home
  <1>7. FieldsOK(n, q)
    BY <1>2, <1>4, <1>6 DEF Loose, FieldsOK, Kept, act
  <1>8. InboxOK(n, q) /\ DidOK(n, q)
    BY <1>2, <1>4, <1>6 DEF Loose, InboxOK, DidOK
  <1>9. QED
    BY <1>5, <1>6, <1>7, <1>8 DEF ScreenOK, Frame

\* ... and closes: its plan is the one that was shown, and the field is cleared.
LEMMA StatusCloses ==
    ASSUME NEW m, NEW q, ScreenOK(m, q), m.screen = "status",
           NEW n, n = [Closed(m) EXCEPT !.status = None]
    PROVE  /\ ScreenOK(n, q) /\ Frame(m, n) /\ n.did = m.did /\ n.screen = "default"
           /\ m.shown = A("status", m.status)
  <1> DEFINE c == [m EXCEPT !.status = None]
  <1>1. Loose(c, q) /\ Frame(m, c) /\ c.did = m.did
    <2>1. c \in Home
      BY DEF ScreenOK, Home, Plan
    <2>2. /\ c.orphans = m.orphans /\ c.did = m.did /\ c.handled = m.handled
          /\ c.approve = m.approve /\ c.screen = m.screen /\ c.perm = m.perm
          /\ c.chat = m.chat
          /\ c.topic = m.topic
          /\ c.status = None
          /\ c.wave = m.wave
          /\ c.next = m.next
          /\ c.abort = m.abort
          /\ c.planner = m.planner
      BY DEF ScreenOK, Home
    <2> HIDE DEF c
    <2>3. InboxOK(c, q) /\ DidOK(c, q)
      BY <2>2 DEF ScreenOK, InboxOK, DidOK
    <2>4. QED
      BY <2>1, <2>2, <2>3 DEF ScreenOK, FieldsOK, Kept, Loose, Frame
  <1>2. n = Closed(c)
    BY DEF Closed, ScreenOK, Home
  <1>3. m.shown = A("status", m.status)
    BY DEF ScreenOK, FieldsOK
  <1> HIDE DEF c
  <1>4. /\ ScreenOK(Closed(c), q) /\ Frame(c, Closed(c))
        /\ Closed(c).did = c.did /\ Closed(c).screen = "default"
    BY <1>1, LooseClosed
  <1>5. QED
    BY <1>1, <1>2, <1>3, <1>4, FrameThenFrame

\* The chat screen opens in the place of a menu.
LEMMA ChatOpens ==
    ASSUME NEW m, NEW q, ScreenOK(m, q), m.screen \notin Keeping, NEW p \in Plans,
           NEW n, n = Show([m EXCEPT !.chat = p], "chat", A("chat", p))
    PROVE  ScreenOK(n, q) /\ Frame(m, n) /\ n.did = m.did
  <1> DEFINE act == A("chat", p)
             o == IF m.shown.kind \in Captured THEN m.orphans \cup {m.shown} ELSE m.orphans
  <1>1. act \in Deeds \ {NoAct} /\ p \in Plan /\ act \in Act
    <2>1. act.kind = "chat" /\ NoAct.kind = "none"
      BY ActTypes DEF NoAct
    <2>2. act \in Deeds /\ p \in Plan
      BY ActTypes DEF Plan, Captured, Subjects
    <2>3. QED
      BY <2>1, <2>2, ActTypes
  <1>2. Loose(m, q) /\ "chat" \in ScreenNames
    BY PlainLoose DEF ScreenNames, PickerScreens, TextScreens
  <1>3. n = [m EXCEPT !.chat = p, !.orphans = o, !.screen = "chat", !.shown = act]
    BY <1>1, <1>2 DEF Show, Away, Loose, Home
  <1>4. o \in SUBSET Act /\ m.orphans \subseteq o
    BY <1>2 DEF Loose, Home
  <1> HIDE DEF act, o
  <1>5. n \in Home
    <2>1. m \in Home /\ o \in SUBSET Act /\ act \in Act
      BY <1>1, <1>2, <1>4 DEF Loose
    <2>2. QED
      BY ONLY <1>1, <1>2, <1>3, <2>1 DEF Home
  <1>6. /\ n.orphans = o /\ n.did = m.did /\ n.handled = m.handled
        /\ n.approve = m.approve /\ n.screen = "chat" /\ n.shown = act /\ n.perm = m.perm
        /\ n.chat = p
        /\ n.topic = m.topic
        /\ n.status = m.status
        /\ n.wave = m.wave
        /\ n.next = m.next
        /\ n.abort = m.abort
        /\ n.planner = m.planner
    BY <1>2, <1>3, ZenonT(30) DEF Loose, Home
  <1>7. FieldsOK(n, q)
    BY <1>2, <1>4, <1>6 DEF Loose, FieldsOK, Kept, act
  <1>8. InboxOK(n, q) /\ DidOK(n, q)
    BY <1>2, <1>4, <1>6 DEF Loose, InboxOK, DidOK
  <1>9. QED
    BY <1>5, <1>6, <1>7, <1>8 DEF ScreenOK, Frame

\* ... and closes: its plan is the one that was shown, and the field is cleared.
LEMMA ChatCloses ==
    ASSUME NEW m, NEW q, ScreenOK(m, q), m.screen = "chat",
           NEW n, n = [Closed(m) EXCEPT !.chat = None]
    PROVE  /\ ScreenOK(n, q) /\ Frame(m, n) /\ n.did = m.did /\ n.screen = "default"
           /\ m.shown = A("chat", m.chat)
  <1> DEFINE c == [m EXCEPT !.chat = None]
  <1>1. Loose(c, q) /\ Frame(m, c) /\ c.did = m.did
    <2>1. c \in Home
      BY DEF ScreenOK, Home, Plan
    <2>2. /\ c.orphans = m.orphans /\ c.did = m.did /\ c.handled = m.handled
          /\ c.approve = m.approve /\ c.screen = m.screen /\ c.perm = m.perm
          /\ c.chat = None
          /\ c.topic = m.topic
          /\ c.status = m.status
          /\ c.wave = m.wave
          /\ c.next = m.next
          /\ c.abort = m.abort
          /\ c.planner = m.planner
      BY DEF ScreenOK, Home
    <2> HIDE DEF c
    <2>3. InboxOK(c, q) /\ DidOK(c, q)
      BY <2>2 DEF ScreenOK, InboxOK, DidOK
    <2>4. QED
      BY <2>1, <2>2, <2>3 DEF ScreenOK, FieldsOK, Kept, Loose, Frame
  <1>2. n = Closed(c)
    BY DEF Closed, ScreenOK, Home
  <1>3. m.shown = A("chat", m.chat)
    BY DEF ScreenOK, FieldsOK
  <1> HIDE DEF c
  <1>4. /\ ScreenOK(Closed(c), q) /\ Frame(c, Closed(c))
        /\ Closed(c).did = c.did /\ Closed(c).screen = "default"
    BY <1>1, LooseClosed
  <1>5. QED
    BY <1>1, <1>2, <1>3, <1>4, FrameThenFrame

\* A dialog closes: the fields of a wave's go with it, a planner's must be accounted for.
LEMMA DialogCloses ==
    ASSUME NEW m, NEW q, ScreenOK(m, q), m.screen = "confirm",
           m.planner # None => A("planner", m.planner) \in m.orphans
                               \/ Sent(q, A("planner", m.planner)),
           NEW n, n = [NoDialog(m) EXCEPT !.wave = None]
    PROVE  ScreenOK(n, q) /\ Frame(m, n) /\ n.did = m.did /\ n.screen = "default"
  <1> DEFINE c == [m EXCEPT !.wave = None, !.confirm = NoAct, !.next = NoAct, !.abort = NoAct]
  <1>1. Loose(c, q) /\ Frame(m, c) /\ c.did = m.did
    <2>1. c \in Home
      BY ActTypes DEF ScreenOK, Home, Plan
    <2>2. /\ c.orphans = m.orphans /\ c.did = m.did /\ c.handled = m.handled
          /\ c.approve = m.approve /\ c.screen = m.screen /\ c.perm = m.perm
          /\ c.chat = m.chat /\ c.topic = m.topic /\ c.status = m.status
          /\ c.wave = None /\ c.next = NoAct /\ c.abort = NoAct /\ c.planner = m.planner
      BY DEF ScreenOK, Home
    <2> HIDE DEF c
    <2>3. InboxOK(c, q) /\ DidOK(c, q)
      BY <2>2 DEF ScreenOK, InboxOK, DidOK
    <2>4. QED
      BY <2>1, <2>2, <2>3 DEF ScreenOK, FieldsOK, Kept, Loose, Frame
  <1>2. n = Closed(c)
    BY DEF NoDialog, Closed, ScreenOK, Home
  <1> HIDE DEF c
  <1>3. /\ ScreenOK(Closed(c), q) /\ Frame(c, Closed(c))
        /\ Closed(c).did = c.did /\ Closed(c).screen = "default"
    BY <1>1, LooseClosed
  <1>4. QED
    BY <1>1, <1>2, <1>3, FrameThenFrame

\* What is left alone but for the guard of an instance that goes.
FrameBut(m, n, i) ==
    /\ n.handled = m.handled \ {i} /\ n.approve = m.approve
    /\ n.screen = "permission" => m.screen = "permission" /\ n.perm = m.perm

\* Frames compose with these, too.
LEMMA FrameThenFrameBut ==
    ASSUME NEW m, NEW n, NEW o, NEW i
    PROVE  /\ Frame(m, n) /\ FrameBut(n, o, i) => FrameBut(m, o, i)
           /\ FrameBut(m, n, i) /\ Frame(n, o) => FrameBut(m, o, i)
           /\ Frame(m, n) => FrameBut(m, n, None) \/ None \in m.handled
  BY DEF Frame, FrameBut

\* An instance goes.
LEMMA GoneFacts ==
    ASSUME NEW m, NEW q, ScreenOK(m, q), NEW i
    PROVE  LET n == Gone(m, i)
           IN  /\ ScreenOK(n, q) /\ FrameBut(m, n, i) /\ n.did = m.did
               /\ n.screen = m.screen /\ n.orphans = m.orphans /\ n.planner = m.planner
  <1> DEFINE s == IF m.sel = i THEN None ELSE m.sel
             I == m.insts \ {i}
             H == m.handled \ {i}
             n == Gone(m, i)
  <1>1. n = [m EXCEPT !.insts = I, !.sel = s, !.handled = H]
    BY DEF Gone, ScreenOK, Home
  <1>2. s \in Insts \cup Plan /\ I \in SUBSET Insts /\ H \in SUBSET Insts
    BY DEF ScreenOK, Home, Plan
  <1>3. FrameBut(m, n, i) /\ SameFields(m, n)
    BY <1>1 DEF FrameBut, SameFields, ScreenOK, Home
  <1> HIDE DEF s, I, H, n
  <1>4. n \in Home
    BY <1>1, <1>2 DEF ScreenOK, Home
  <1>5. ScreenOK(n, q)
    BY <1>3, <1>4, SideOK
  <1>6. QED
    BY <1>3, <1>5 DEF n, SameFields

----------------------------------------------------------------------------
(* The user opens a screen *)

\* The screens' invariant.
ScreenInv == ScreenOK(ui, inbox) /\ used \in 0 .. MaxWork /\ ui.approve = << >>

\* A step that keeps it, and the permission dialogs.
Went == /\ ScreenOK(ui', inbox') /\ Frame(ui, ui') /\ used' \in 0 .. MaxWork
        /\ UNCHANGED permVars

\* One that types an Enter into the pane of an agent.
WentTyping(i) ==
    /\ ScreenOK(ui', inbox') /\ Frame(ui, ui') /\ used' \in 0 .. MaxWork
    /\ i \in Insts /\ StrayEnter(i)
    /\ UNCHANGED <<queued, enters, asked, capture, replies, allowed>>

\* What has to be shown for a step that keeps it.
LEMMA WentTo ==
    ASSUME ScreenInv, NEW m, NEW q, ScreenOK(m, q), Frame(Fresh, m),
           ui' = m, inbox' = q, Spend(1) \/ used' = used, UNCHANGED permVars
    PROVE  Went
  <1>1. Frame(ui, Fresh)
    BY FreshFacts DEF ScreenInv
  <1>2. Frame(ui, m)
    BY <1>1, FrameThenFrame
  <1>3. used' \in 0 .. MaxWork
    BY ScreenAssumption DEF ScreenInv, Spend
  <1>4. QED
    BY <1>2, <1>3 DEF Went

\* The screens without a field, but for the permission's.
PlainScreens == ScreenNames \ (Keeping \cup {"permission"})

\* One of them opens.
LEMMA WentToPlain ==
    ASSUME ScreenInv, NEW s \in PlainScreens, NEW act \in Act,
           ui' = Show(Fresh, s, act), inbox' = inbox, Spend(1) \/ used' = used,
           UNCHANGED permVars
    PROVE  Went
  <1> DEFINE m == Show(Fresh, s, act)
  <1>1. ScreenOK(Fresh, inbox)
    BY FreshFacts DEF ScreenInv
  <1>2. ScreenOK(m, inbox) /\ Frame(Fresh, m)
    BY <1>1, ShowFacts DEF PlainScreens
  <1> HIDE DEF m
  <1>3. ui' = m
    BY DEF m
  <1>4. QED
    BY <1>2, <1>3, WentTo

\* A dialog does.
LEMMA WentToDialog ==
    ASSUME ScreenInv, NEW act \in Deeds \ {NoAct},
           ui' = Dialog(Fresh, act), inbox' = inbox, Spend(1) \/ used' = used,
           UNCHANGED permVars
    PROVE  Went
  <1> DEFINE m == Dialog(Fresh, act)
  <1>1. ScreenOK(Fresh, inbox)
    BY FreshFacts DEF ScreenInv
  <1>2. ScreenOK(m, inbox) /\ Frame(Fresh, m)
    BY <1>1, DialogFacts
  <1> HIDE DEF m
  <1>3. ui' = m
    BY DEF m
  <1>4. QED
    BY <1>2, <1>3, WentTo

\* What is selected.
LEMMA SelectionTypes ==
    ASSUME NEW m \in Home
    PROVE  /\ SelectedInst(m) \in Insts \cup {None} /\ SelectedPlan(m) \in Plans \cup {None}
           /\ SelectedInst(m) # None => m.sel \in m.insts /\ SelectedInst(m) = m.sel
           /\ SelectedPlan(m) # None => m.sel \in Plans /\ SelectedPlan(m) = m.sel
           /\ m.sel \in Subjects /\ m.insts \subseteq Insts
           /\ SelectedInst(m) \in Subjects /\ SelectedPlan(m) \in Subjects
  BY DEF Home, SelectedInst, SelectedPlan, Subjects, Plan

\* What the home state's parts are.
LEMMA UiIsHome ==
    ASSUME ScreenInv
    PROVE  ui \in Home /\ ScreenOK(Fresh, inbox) /\ Fresh \in Home
  BY FreshFacts DEF ScreenInv, ScreenOK

\* The acts of dialogs that are no act of a planner, and all acts that are typed.
LEMMA DialogActs ==
    /\ \A on \in Subjects, kind \in {"abort", "push", "stage", "deed", "coder", "waves", "wave"} :
          A(kind, on) \in Deeds \ {NoAct}
    /\ \A on \in Subjects, kind \in {"other", "pr", "naming", "prompt", "rename", "renamePlan",
             "abort", "attach", "checkout", "chat", "topic", "status", "start", "sessions",
             "kill", "search", "task", "helpStart"} :
          A(kind, on) \in Act /\ A(kind, on) \in Deeds
    /\ None \in Subjects /\ Plans \subseteq Subjects /\ Insts \subseteq Subjects
  <1>1. \A kind, on : A(kind, on) = NoAct => kind = "none"
    BY DEF A, NoAct
  <1>2. None \in Subjects /\ Plans \subseteq Subjects /\ Insts \subseteq Subjects
    BY DEF Subjects
  <1>3. \A on \in Subjects, kind \in {"abort", "push", "stage", "deed", "coder", "waves", "wave"} :
          A(kind, on) \in Deeds
    BY ActTypes DEF Captured, OnSelected
  <1>4. \A on \in Subjects, kind \in {"other", "pr", "naming", "prompt", "rename", "renamePlan",
             "abort", "attach", "checkout", "chat", "topic", "status", "start", "sessions",
             "kill", "search", "task", "helpStart"} :
          A(kind, on) \in Deeds
    BY ActTypes DEF Captured, OnSelected
  <1>5. QED
    BY <1>1, <1>2, <1>3, <1>4, ActTypes

\* The names of the plain screens.
LEMMA PlainNames ==
    \A s \in {"help", "search", "newPlan", "spawnAgent", "clickUpSearch", "focus", "menu",
              "prTitle", "prBody", "renameInst", "renamePlan", "new", "prompt", "newPlanTopic",
              "deriving", "clickUpFetching", "clickUpPicker", "tmuxBrowser", "default"} :
        s \in PlainScreens /\ s \notin Keeping
  BY DEF PlainScreens, ScreenNames, TextScreens, PickerScreens, Keeping

\* A help screen that is shown once.
LEMMA HelpThenFacts ==
    ASSUME NEW m, NEW q, ScreenOK(m, q), NEW kind \in {"start", "attach", "checkout"},
           NEW act \in Deeds
    PROVE  ScreenOK(HelpThen(m, kind, act), q) /\ Frame(m, HelpThen(m, kind, act))
  <1>1. CASE kind \in m.seen
    BY <1>1 DEF HelpThen, Frame
  <1>2. CASE kind \notin m.seen
    <2> DEFINE h == Show(m, "help", A("other", None))
               n == [h EXCEPT !.seen = h.seen \cup {kind}, !.callback = act]
    <2>1. ScreenOK(h, q) /\ Frame(m, h)
      BY ShowFacts, PlainNames, DialogActs DEF PlainScreens
    <2>2. HelpThen(m, kind, act) = n
      BY <1>2, <2>1 DEF HelpThen, ScreenOK, Home
    <2> HIDE DEF h
    <2>3. n \in Home /\ SameFields(h, n) /\ Frame(h, n)
      BY <2>1 DEF ScreenOK, Home, SameFields, Frame
    <2> HIDE DEF n
    <2>4. QED
      BY <2>1, <2>2, <2>3, SideOK, FrameThenFrame
  <1>3. QED
    BY <1>1, <1>2

\* The selection moves.
LEMMA MoveWent ==
    ASSUME ScreenInv, MoveSelection
    PROVE  Went
  <1>1. PICK s \in ui.insts \cup Plans \cup {None} : ui' = [Fresh EXCEPT !.sel = s]
    BY DEF MoveSelection
  <1> DEFINE n == [Fresh EXCEPT !.sel = s]
  <1>2. s \in Insts \cup Plan
    BY UiIsHome, SelectionTypes DEF Plan
  <1> HIDE DEF Fresh
  <1>3. n \in Home /\ SameFields(Fresh, n) /\ Frame(Fresh, n)
    BY <1>2, UiIsHome DEF Home, SameFields, Frame
  <1> HIDE DEF n
  <1>4. ui' = n
    BY <1>1 DEF n
  <1>5. ScreenOK(n, inbox)
    BY <1>3, UiIsHome, SideOK
  <1>6. QED
    BY <1>3, <1>4, <1>5, WentTo DEF MoveSelection

\* A name is asked for.
LEMMA NewInstanceWent ==
    ASSUME ScreenInv, NewInstance
    PROVE  Went
  <1> DEFINE sh(i) == Show(Fresh, "new", A("naming", i))
  <1>1. PICK i \in Insts \ ui.insts, prompt \in BOOLEAN :
            Opening([sh(i) EXCEPT !.insts = @ \cup {i}, !.sel = i,
                                  !.prompting = prompt \/ ui.prompting])
    BY DEF NewInstance
  <1> DEFINE s == sh(i)
             wish == prompt \/ ui.prompting
             n == [s EXCEPT !.insts = s.insts \cup {i}, !.sel = i, !.prompting = wish]
  <1>2. ScreenOK(s, inbox) /\ Frame(Fresh, s)
    BY UiIsHome, ShowFacts, PlainNames, DialogActs DEF PlainScreens
  <1>3. /\ ui' = n /\ inbox' = inbox /\ Spend(1) /\ UNCHANGED permVars
    BY <1>1 DEF Opening
  <1>4. wish \in BOOLEAN
    BY <1>1, UiIsHome DEF Home
  <1> HIDE DEF s, wish
  <1>5. n \in Home /\ SameFields(s, n) /\ Frame(s, n)
    <2>1. s \in Home /\ i \in Insts
      BY <1>1, <1>2 DEF ScreenOK
    <2>2. n \in Home
      BY <2>1, <1>4 DEF Home
    <2>3. SameFields(s, n) /\ Frame(s, n)
      BY <2>1 DEF Home, SameFields, Frame
    <2> QED BY <2>2, <2>3
  <1> HIDE DEF n
  <1>6. ScreenOK(n, inbox) /\ Frame(Fresh, n)
    BY <1>2, <1>5, SideOK, FrameThenFrame
  <1>7. QED
    BY <1>3, <1>6, WentTo

\* The step of a user who opens something.
LEMMA OpensWent ==
    ASSUME ScreenInv, UserOpens
    PROVE  Went
  <1>1. CASE KeyHelp
    BY <1>1, WentToPlain, PlainNames, DialogActs DEF KeyHelp, Opening
  <1>2. CASE KeySearch
    BY <1>2, WentToPlain, PlainNames, DialogActs DEF KeySearch, Opening
  <1>3. CASE KeyNewPlan
    BY <1>3, WentToPlain, PlainNames, DialogActs DEF KeyNewPlan, Opening
  <1>4. CASE KeySpawnAgent
    BY <1>4, WentToPlain, PlainNames, DialogActs DEF KeySpawnAgent, Opening
  <1>5. CASE KeyImport
    BY <1>5, WentToPlain, PlainNames, DialogActs DEF KeyImport, Opening
  <1>6. CASE OpenContextMenu
    BY <1>6, WentToPlain, PlainNames, DialogActs, UiIsHome, SelectionTypes
       DEF OpenContextMenu, Opening
  <1>7. CASE KeyCreatePR
    BY <1>7, WentToPlain, PlainNames, DialogActs, UiIsHome, SelectionTypes
       DEF KeyCreatePR, Opening
  <1>8. CASE KeyAbort
    BY <1>8, WentToDialog, DialogActs, UiIsHome, SelectionTypes DEF KeyAbort, Opening
  <1>9. CASE KeySubmit
    BY <1>9, WentToDialog, DialogActs, UiIsHome, SelectionTypes DEF KeySubmit, Opening
  <1>10. CASE KeySendPrompt
    <2> DEFINE s == IF ui.sel \in Plans THEN First(ui, ui.sel) ELSE ui.sel
               f == [Fresh EXCEPT !.sel = s]
               n == Show(f, "focus", A("other", None))
    <2>1. s \in Insts \cup Plan
      BY FirstType, UiIsHome DEF Home, Plan
    <2>2. f.sel = s /\ [Fresh EXCEPT !.sel = IF ui.sel \in Plans THEN First(ui, ui.sel) ELSE @] = f
      BY UiIsHome, FreshFacts DEF Home, ScreenInv
    <2>3. ui' = n /\ inbox' = inbox /\ Spend(1) /\ UNCHANGED permVars
      BY <1>10, <2>2 DEF KeySendPrompt, Opening
    <2> HIDE DEF s
    <2>4. f \in Home /\ SameFields(Fresh, f) /\ Frame(Fresh, f)
      BY <2>1, UiIsHome DEF Home, SameFields, Frame
    <2> HIDE DEF f
    <2>5. ScreenOK(f, inbox)
      BY <2>4, UiIsHome, SideOK
    <2>6. ScreenOK(n, inbox) /\ Frame(f, n)
      BY <2>5, ShowFacts, PlainNames, DialogActs DEF PlainScreens
    <2> HIDE DEF n
    <2>7. QED
      BY <2>3, <2>4, <2>6, FrameThenFrame, WentTo
  <1>11. CASE KeyTmuxBrowser
    <2> DEFINE x == [own |-> A("sessions", None), meant |-> A("sessions", None)]
    <2>1. x \in Message /\ x.own = A("sessions", None) /\ x.meant = A("sessions", None)
      BY DialogActs DEF Message
    <2>2. /\ ui' = Fresh /\ inbox' = inbox \cup {x} /\ Spend(1) /\ UNCHANGED permVars
      BY <1>11 DEF KeyTmuxBrowser, Sending
    <2> HIDE DEF x
    <2>3. InboxOK(Fresh, {x})
      BY <2>1, DialogActs DEF InboxOK
    <2>4. ScreenOK(Fresh, inbox \cup {x})
      BY <2>3, UiIsHome, SentFacts
    <2>5. QED
      BY <2>2, <2>4, WentTo DEF Frame
  <1>12. CASE KeyCheckout
    <2> DEFINE n == HelpThen(Fresh, "checkout", A("checkout", ui.sel))
    <2>1. ui' = n /\ inbox' = inbox /\ Spend(1) /\ UNCHANGED permVars
      BY <1>12 DEF KeyCheckout, Opening
    <2>2. A("checkout", ui.sel) \in Deeds
      BY DialogActs, UiIsHome, SelectionTypes
    <2>3. ScreenOK(n, inbox) /\ Frame(Fresh, n)
      BY <2>2, UiIsHome, HelpThenFacts
    <2> HIDE DEF n
    <2>4. QED
      BY <2>1, <2>3, WentTo
  <1>13. CASE KeyAttach
    <2> DEFINE n == HelpThen(Fresh, "attach", A("attach", ui.sel))
    <2>1. ui' = n /\ inbox' = inbox /\ Spend(1) /\ UNCHANGED permVars
      BY <1>13 DEF KeyAttach, Opening
    <2>2. A("attach", ui.sel) \in Deeds
      BY DialogActs, UiIsHome, SelectionTypes
    <2>3. ScreenOK(n, inbox) /\ Frame(Fresh, n)
      BY <2>2, UiIsHome, HelpThenFacts
    <2> HIDE DEF n
    <2>4. QED
      BY <2>1, <2>3, WentTo
  <1>14. QED
    BY <1>1, <1>2, <1>3, <1>4, <1>5, <1>6, <1>7, <1>8, <1>9, <1>10, <1>11, <1>12, <1>13,
       MoveWent, NewInstanceWent DEF UserOpens

----------------------------------------------------------------------------
(* The user answers a screen *)

\* A step that keeps the screens' invariant, with which an agent goes.
WentWithout(i) ==
    /\ ScreenOK(ui', inbox') /\ FrameBut(ui, ui', i) /\ used' \in 0 .. MaxWork
    /\ Forget(i)

\* What has to be shown for one.
LEMMA WentWithoutTo ==
    ASSUME ScreenInv, NEW i, NEW m, NEW q, ScreenOK(m, q), FrameBut(Fresh, m, i),
           ui' = m, inbox' = q, used' = used, Forget(i)
    PROVE  WentWithout(i)
  <1>1. Frame(ui, Fresh)
    BY FreshFacts DEF ScreenInv
  <1>2. FrameBut(ui, m, i)
    BY <1>1, FrameThenFrameBut
  <1>3. QED
    BY <1>2 DEF WentWithout, ScreenInv

\* A screen without a field closes.
LEMMA FreshCloses ==
    ASSUME ScreenInv, ui.screen \in PlainScreens
    PROVE  ScreenOK(Closed(Fresh), inbox) /\ Frame(Fresh, Closed(Fresh))
           /\ Closed(Fresh).screen = "default"
  <1>1. Fresh.screen \notin Keeping
    BY FreshFacts DEF ScreenInv, PlainScreens
  <1>2. QED
    BY <1>1, UiIsHome, ClosedFacts

\* ... in a step.
LEMMA WentToClosed ==
    ASSUME ScreenInv, ui.screen \in PlainScreens, ui' = Closed(Fresh), inbox' = inbox,
           used' = used, UNCHANGED permVars
    PROVE  Went
  <1> DEFINE m == Closed(Fresh)
  <1>1. ScreenOK(m, inbox) /\ Frame(Fresh, m) /\ ui' = m
    BY FreshCloses
  <1> HIDE DEF m
  <1>2. QED
    BY <1>1, WentTo

\* ... and acts on what is selected.
LEMMA WentToDone ==
    ASSUME ScreenInv, ui.screen \in PlainScreens, NEW act \in Act, act.kind \notin Captured,
           ui' = Did(Closed(Fresh), act), inbox' = inbox, used' = used, UNCHANGED permVars
    PROVE  Went
  <1> DEFINE c == Closed(Fresh)
             m == Done(c, act, ui.shown)
  <1>1. ScreenOK(c, inbox) /\ Frame(Fresh, c)
    BY FreshCloses
  <1>2. ui.shown \in Act
    BY UiIsHome DEF Home
  <1>3. ui' = m
    BY DEF Did
  <1> HIDE DEF c
  <1>4. ScreenOK(m, inbox) /\ Frame(c, m)
    BY <1>1, <1>2, DoneFacts
  <1> HIDE DEF m
  <1>5. QED
    BY <1>1, <1>3, <1>4, FrameThenFrame, WentTo

\* A command is sent with it.
LEMMA ScreensSending ==
    ASSUME ScreenInv, NEW m, ScreenOK(m, inbox), Frame(Fresh, m), NEW a \in Deeds,
           a.kind \in Captured => ui.shown = a \/ a \in m.orphans,
           ui' = m, inbox' = inbox \cup {[own |-> b, meant |-> ui.shown] : b \in {a}},
           used' = used
    PROVE  ScreenOK(ui', inbox') /\ Frame(ui, ui') /\ used' \in 0 .. MaxWork
  <1> DEFINE x == [own |-> a, meant |-> ui.shown]
  <1>1. {[own |-> b, meant |-> ui.shown] : b \in {a}} = {x}
    OBVIOUS
  <1>2. x \in Message /\ x.own = a /\ x.meant = ui.shown
    BY UiIsHome, ActTypes DEF Message, Home
  <1> HIDE DEF x
  <1>3. InboxOK(m, {x})
    BY <1>2 DEF InboxOK
  <1>4. ScreenOK(m, inbox \cup {x})
    BY <1>3, SentFacts
  <1>5. Frame(ui, m)
    BY FreshFacts, FrameThenFrame DEF ScreenInv
  <1>6. QED
    BY <1>1, <1>4, <1>5 DEF ScreenInv

\* ... and nothing is typed into a pane.
LEMMA WentSending ==
    ASSUME ScreenInv, NEW m, ScreenOK(m, inbox), Frame(Fresh, m), NEW a \in Deeds,
           a.kind \in Captured => ui.shown = a \/ a \in m.orphans,
           ui' = m, inbox' = inbox \cup {[own |-> b, meant |-> ui.shown] : b \in {a}},
           used' = used, UNCHANGED permVars
    PROVE  Went
  BY ScreensSending DEF Went

\* An agent is spawned.
LEMMA AgentSpawnedFacts ==
    ASSUME NEW m, NEW q, ScreenOK(m, q), NEW i \in Insts \cup {None}
    PROVE  LET n == AgentSpawned(m, i)
           IN  ScreenOK(n, q) /\ Frame(m, n) /\ n.did = m.did /\ n.screen = m.screen
  <1>1. CASE i = None
    BY <1>1 DEF AgentSpawned, Frame
  <1>2. CASE i # None
    <2> DEFINE n == [m EXCEPT !.insts = m.insts \cup {i}, !.sel = i]
    <2>1. AgentSpawned(m, i) = n
      BY <1>2 DEF AgentSpawned, ScreenOK, Home
    <2>2. n \in Home /\ SameFields(m, n) /\ Frame(m, n)
      BY <1>2 DEF ScreenOK, Home, SameFields, Frame
    <2> HIDE DEF n
    <2>3. ScreenOK(n, q)
      BY <2>2, SideOK
    <2>4. QED
      BY <2>1, <2>2, <2>3 DEF SameFields
  <1>3. QED
    BY <1>1, <1>2

\* ... in a step.
LEMMA WentSpawning ==
    ASSUME ScreenInv, NEW m, NEW q, ScreenOK(m, q), Frame(Fresh, m),
           NEW i \in Insts \cup {None}, ui' = AgentSpawned(m, i), inbox' = q,
           Spend(1) \/ used' = used, UNCHANGED permVars
    PROVE  Went
  <1> DEFINE n == AgentSpawned(m, i)
  <1>1. ScreenOK(n, q) /\ Frame(m, n)
    BY AgentSpawnedFacts
  <1> HIDE DEF n
  <1>2. ui' = n
    BY DEF n
  <1>3. QED
    BY <1>1, <1>2, FrameThenFrame, WentTo

\* A help screen is left.
LEMMA HelpKeyWent ==
    ASSUME ScreenInv, HelpKey
    PROVE  Went
  <1> DEFINE act == IF ui.callback.kind = "attach" THEN A("attach", SelectedInst(ui))
                    ELSE ui.callback
             c == Closed(Fresh)
             d == Done(c, act, ui.callback)
             n == [d EXCEPT !.callback = NoAct]
  <1>1. /\ ui' = n /\ inbox' = inbox /\ used' = used /\ UNCHANGED permVars
        /\ ui.screen \in PlainScreens
    BY PlainNames DEF HelpKey, Answering
  <1>2. ScreenOK(c, inbox) /\ Frame(Fresh, c)
    BY <1>1, FreshCloses
  <1>3. ui.callback \in Act /\ act \in Act /\ (act.kind \in Captured => ui.callback = act)
    <2>1. ui.callback \in Act
      BY UiIsHome, ActTypes DEF Home
    <2>2. A("attach", SelectedInst(ui)) \in Act
      BY UiIsHome, SelectionTypes, DialogActs
    <2>3. A("attach", SelectedInst(ui)).kind \notin Captured
      BY ActTypes DEF Captured
    <2>4. QED
      BY <2>1, <2>2, <2>3
  <1> HIDE DEF act, c
  <1>4. ScreenOK(d, inbox) /\ Frame(c, d)
    BY <1>2, <1>3, DoneFacts
  <1> HIDE DEF d
  <1>5. n \in Home /\ SameFields(d, n) /\ Frame(d, n)
    BY <1>4, ActTypes DEF ScreenOK, Home, SameFields, Frame
  <1> HIDE DEF n
  <1>6. ScreenOK(n, inbox)
    BY <1>4, <1>5, SideOK
  <1>7. Frame(Fresh, n)
    BY <1>2, <1>4, <1>5, FrameThenFrame
  <1>8. QED
    BY <1>1, <1>6, <1>7, WentTo

\* A name is submitted.
LEMMA SubmitNameWent ==
    ASSUME ScreenInv, SubmitName
    PROVE  Went
  <1> DEFINE p == Show(Fresh, "prompt", A("prompt", ui.shown.on))
             n == [p EXCEPT !.prompting = FALSE]
             m == IF ui.prompting THEN n ELSE Closed(Fresh)
             a == A("start", ui.shown.on)
  <1>1. /\ ui' = m /\ used' = used /\ UNCHANGED permVars /\ ui.screen \in PlainScreens
        /\ inbox' = inbox \cup {[own |-> b, meant |-> ui.shown] : b \in {a}}
    BY PlainNames DEF SubmitName, AnsweringWith
  <1>2. ui.shown.on \in Subjects
    BY UiIsHome DEF Home, Act
  <1>3. a \in Deeds /\ a.kind \notin Captured
    BY <1>2, ActTypes, DialogActs DEF Captured
  <1>4. ScreenOK(p, inbox) /\ Frame(Fresh, p)
    BY <1>2, UiIsHome, ShowFacts, PlainNames, DialogActs DEF PlainScreens
  <1> HIDE DEF p, a
  <1>5. n \in Home /\ SameFields(p, n) /\ Frame(p, n)
    BY <1>4 DEF ScreenOK, Home, SameFields, Frame
  <1> HIDE DEF n
  <1>6. ScreenOK(n, inbox) /\ Frame(Fresh, n)
    BY <1>4, <1>5, SideOK, FrameThenFrame
  <1>7. ScreenOK(m, inbox) /\ Frame(Fresh, m)
    BY <1>1, <1>6, FreshCloses
  <1> HIDE DEF m
  <1>8. QED
    BY <1>1, <1>3, <1>7, WentSending

\* A name is cancelled.
LEMMA CancelNameWent ==
    ASSUME ScreenInv, CancelName
    PROVE  WentWithout(SelectedInst(ui))
  <1> DEFINE i == SelectedInst(ui)
             c == Closed(Fresh)
             d == Done(c, A("naming", i), ui.shown)
             g == IF i = None THEN c ELSE Gone(d, i)
  <1>1. PICK reset \in BOOLEAN :
            /\ ui' = [g EXCEPT !.prompting = IF reset THEN FALSE ELSE @]
            /\ Forget(i)
    BY DEF CancelName, Did
  <1>2. ui.screen \in PlainScreens /\ inbox' = inbox /\ used' = used
    BY PlainNames DEF CancelName
  <1>3. ScreenOK(c, inbox) /\ Frame(Fresh, c)
    BY <1>2, FreshCloses
  <1>4. A("naming", i) \in Act /\ A("naming", i).kind \notin Captured /\ ui.shown \in Act
    <2>1. i \in Subjects /\ ui.shown \in Act
      BY UiIsHome, SelectionTypes DEF Home
    <2> HIDE DEF i
    <2>2. A("naming", i) \in Act
      BY <2>1, DialogActs
    <2>3. A("naming", i).kind = "naming"
      BY ActTypes
    <2>4. QED
      BY <2>1, <2>2, <2>3 DEF Captured
  <1> HIDE DEF c
  <1>5. ScreenOK(d, inbox) /\ Frame(c, d)
    BY <1>3, <1>4, DoneFacts
  <1> HIDE DEF d
  <1>6. ScreenOK(Gone(d, i), inbox) /\ FrameBut(d, Gone(d, i), i)
    BY <1>5, GoneFacts
  <1>7. ScreenOK(g, inbox) /\ FrameBut(Fresh, g, i)
    <2>1. CASE i = None
      <3>1. None \notin Fresh.handled
        BY UiIsHome, PermissionAssumption DEF Home
      <3>2. QED
        BY <2>1, <1>3, <3>1, FrameThenFrameBut
    <2>2. CASE i # None
      <3>1. FrameBut(c, Gone(d, i), i)
        BY <1>5, <1>6, FrameThenFrameBut
      <3>2. FrameBut(Fresh, Gone(d, i), i)
        BY <1>3, <3>1, FrameThenFrameBut
      <3>3. QED
        BY <2>2, <1>6, <3>2
    <2>3. QED
      BY <2>1, <2>2
  <1> HIDE DEF g
  <1> DEFINE b == IF reset THEN FALSE ELSE g.prompting
             n == [g EXCEPT !.prompting = b]
  <1>8. ui' = n
    BY <1>1, <1>7 DEF ScreenOK, Home
  <1>9. b \in BOOLEAN
    BY <1>7 DEF ScreenOK, Home
  <1> HIDE DEF b
  <1>10. n \in Home /\ SameFields(g, n) /\ Frame(g, n)
    BY <1>7, <1>9 DEF ScreenOK, Home, SameFields, Frame
  <1> HIDE DEF n, i
  <1>11. ScreenOK(n, inbox) /\ FrameBut(Fresh, n, i)
    BY <1>7, <1>10, SideOK, FrameThenFrameBut
  <1>12. WentWithout(i)
    BY <1>1, <1>2, <1>8, <1>11, WentWithoutTo
  <1>13. QED
    BY <1>12 DEF i

\* A screen with a field closes, and does what it was opened for.
LEMMA FieldScreensWent ==
    ASSUME ScreenInv, ChatKey \/ ChangeTopicKey \/ SetStatusKey
    PROVE  Went
  <1>1. CASE ChatKey
    <2> DEFINE c == [Closed(Fresh) EXCEPT !.chat = None]
               act == A("chat", ui.chat)
    <2>1. ui.screen = "chat" /\ inbox' = inbox /\ used' = used /\ UNCHANGED permVars
      BY <1>1 DEF ChatKey
    <2>2. ScreenOK(c, inbox) /\ Frame(Fresh, c) /\ Fresh.shown = A("chat", Fresh.chat)
      BY <2>1, FreshFacts, ChatCloses DEF ScreenInv
    <2>3. ui.shown = act
      BY <2>2, FreshFacts DEF ScreenInv
    <2> HIDE DEF act, c
    <2>4. Did(c, act) = c
      BY <2>3 DEF Did, Done
    <2>5. \E i \in Insts \cup {None} : ui' = AgentSpawned(c, i)
      <3>1. PICK end \in TextEnds :
                IF end = "submitted" THEN Spawned(Did(c, act)) ELSE ui' = c
        BY <1>1 DEF ChatKey, c, act
      <3>2. CASE end = "submitted"
        <4>1. PICK i \in (Insts \ c.insts) \cup {None} :
                  ui' = IF i = None THEN c ELSE [c EXCEPT !.insts = @ \cup {i}, !.sel = i]
          BY <2>4, <3>1, <3>2 DEF Spawned
        <4>2. QED
          BY <4>1 DEF AgentSpawned
      <3>3. CASE end # "submitted"
        BY <3>1, <3>3 DEF AgentSpawned
      <3>4. QED
        BY <3>2, <3>3
    <2>6. QED
      BY <2>1, <2>2, <2>5, WentSpawning
  <1>2. CASE ChangeTopicKey
    <2> DEFINE c == [Closed(Fresh) EXCEPT !.topic = None]
               act == A("topic", ui.topic)
    <2>1. /\ ui.screen = "topic" /\ inbox' = inbox /\ used' = used /\ UNCHANGED permVars
          /\ ui' = c \/ ui' = Did(c, act)
      BY <1>2 DEF ChangeTopicKey, Answering
    <2>2. ScreenOK(c, inbox) /\ Frame(Fresh, c) /\ Fresh.shown = A("topic", Fresh.topic)
      BY <2>1, FreshFacts, TopicCloses DEF ScreenInv
    <2>3. ui.shown = act
      BY <2>2, FreshFacts DEF ScreenInv
    <2> HIDE DEF act, c
    <2>4. ui' = c
      BY <2>1, <2>3 DEF Did, Done
    <2>5. QED
      BY <2>1, <2>2, <2>4, WentTo
  <1>3. CASE SetStatusKey
    <2> DEFINE c == [Closed(Fresh) EXCEPT !.status = None]
               act == A("status", ui.status)
    <2>1. /\ ui.screen = "status" /\ inbox' = inbox /\ used' = used /\ UNCHANGED permVars
          /\ ui' = c \/ ui' = Did(c, act)
      BY <1>3 DEF SetStatusKey, Answering
    <2>2. ScreenOK(c, inbox) /\ Frame(Fresh, c) /\ Fresh.shown = A("status", Fresh.status)
      BY <2>1, FreshFacts, StatusCloses DEF ScreenInv
    <2>3. ui.shown = act
      BY <2>2, FreshFacts DEF ScreenInv
    <2> HIDE DEF act, c
    <2>4. ui' = c
      BY <2>1, <2>3 DEF Did, Done
    <2>5. QED
      BY <2>1, <2>2, <2>4, WentTo
  <1>4. QED
    BY <1>1, <1>2, <1>3

\* What the texts and forms about what is selected may do.
LEMMA SelectedActs ==
    ASSUME ScreenInv
    PROVE  /\ ui.sel \in Subjects /\ ui.shown \in Act
           /\ \A kind \in {"pr", "prompt", "rename", "renamePlan"} :
                 A(kind, ui.sel) \in Act /\ A(kind, ui.sel).kind \notin Captured
  <1>1. ui.sel \in Subjects /\ ui.shown \in Act
    BY UiIsHome, SelectionTypes DEF Home
  <1>2. \A kind \in {"pr", "prompt", "rename", "renamePlan"} : A(kind, ui.sel) \in Act
    BY <1>1, DialogActs
  <1>3. QED
    BY <1>1, <1>2, ActTypes DEF Captured

\* The prompt is typed into the pane, or it is not.
LEMMA PromptWent ==
    ASSUME ScreenInv, PromptKey
    PROVE  Went \/ \E i : WentTyping(i)
  <1> DEFINE c == Closed(Fresh)
             d == Done(c, A("prompt", ui.sel), ui.shown)
             a == A("helpStart", None)
  <1>1. /\ inbox' = inbox \cup {[own |-> b, meant |-> ui.shown] : b \in {a}}
        /\ ui.screen \in PlainScreens /\ used' = used /\ ui.sel \in Insts
        /\ \/ /\ ui' = d /\ StrayEnter(ui.sel)
              /\ UNCHANGED <<queued, enters, asked, capture, replies, allowed>>
           \/ ui' = c /\ UNCHANGED permVars
    <2>1. ui.insts \subseteq Insts
      BY UiIsHome DEF Home
    <2>2. ui.sel \in Insts
      BY <2>1 DEF PromptKey, SelectedInst
    <2>3. QED
      BY <2>2, PlainNames DEF PromptKey, Did
  <1>2. a \in Deeds /\ a.kind \notin Captured
    <2>1. a \in Deeds
      BY DialogActs
    <2>2. a.kind = "helpStart"
      BY ActTypes
    <2>3. QED
      BY <2>1, <2>2 DEF Captured
  <1>3. ScreenOK(c, inbox) /\ Frame(Fresh, c)
    BY <1>1, FreshCloses
  <1> HIDE DEF c, a
  <1>4. ScreenOK(d, inbox) /\ Frame(c, d)
    BY <1>3, SelectedActs, DoneFacts
  <1> HIDE DEF d
  <1>5. Frame(Fresh, d)
    BY <1>3, <1>4, FrameThenFrame
  <1>6. CASE ui' = c /\ UNCHANGED permVars
    BY <1>1, <1>2, <1>3, <1>6, WentSending
  <1>7. CASE /\ ui' = d /\ StrayEnter(ui.sel)
             /\ UNCHANGED <<queued, enters, asked, capture, replies, allowed>>
    <2>1. ScreenOK(ui', inbox') /\ Frame(ui, ui') /\ used' \in 0 .. MaxWork
      BY <1>1, <1>2, <1>4, <1>5, <1>7, ScreensSending
    <2>2. WentTyping(ui.sel)
      BY <1>1, <1>7, <2>1 DEF WentTyping
    <2>3. QED
      BY <2>2
  <1>8. QED
    BY <1>1, <1>6, <1>7

\* The texts and forms about what is selected.
LEMMA SelectedScreensWent ==
    ASSUME ScreenInv, PRTitleKey \/ PRBodyKey \/ RenameInstanceKey \/ RenamePlanKey
    PROVE  Went
  <1>0. /\ ui.sel \in Subjects /\ ui.shown \in Act
        /\ \A kind \in {"pr", "prompt", "rename", "renamePlan"} :
              A(kind, ui.sel) \in Act /\ A(kind, ui.sel).kind \notin Captured
    BY SelectedActs
  <1>2. CASE PRTitleKey
    <2>1. /\ ui.screen \in PlainScreens /\ inbox' = inbox /\ used' = used /\ UNCHANGED permVars
          /\ ui' = Show(Fresh, "prBody", ui.shown) \/ ui' = Closed(Fresh)
      BY <1>2, PlainNames DEF PRTitleKey, Answering
    <2>2. QED
      BY <1>0, <2>1, WentToPlain, WentToClosed, PlainNames
  <1>3. CASE PRBodyKey
    <2>1. /\ ui.screen \in PlainScreens /\ inbox' = inbox /\ used' = used /\ UNCHANGED permVars
          /\ ui' = Did(Closed(Fresh), A("pr", ui.sel)) \/ ui' = Closed(Fresh)
      BY <1>3, PlainNames DEF PRBodyKey, Answering
    <2>2. QED
      BY <1>0, <2>1, WentToDone, WentToClosed
  <1>4. CASE RenameInstanceKey
    <2>1. /\ ui.screen \in PlainScreens /\ inbox' = inbox /\ used' = used /\ UNCHANGED permVars
          /\ ui' = Did(Closed(Fresh), A("rename", ui.sel)) \/ ui' = Closed(Fresh)
      BY <1>4, PlainNames DEF RenameInstanceKey, Answering
    <2>2. QED
      BY <1>0, <2>1, WentToDone, WentToClosed
  <1>5. CASE RenamePlanKey
    <2>1. /\ ui.screen \in PlainScreens /\ inbox' = inbox /\ used' = used /\ UNCHANGED permVars
          /\ ui' = Did(Closed(Fresh), A("renamePlan", ui.sel)) \/ ui' = Closed(Fresh)
      BY <1>5, PlainNames DEF RenamePlanKey, Answering
    <2>2. QED
      BY <1>0, <2>1, WentToDone, WentToClosed
  <1>6. QED
    BY <1>2, <1>3, <1>4, <1>5

\* A name and a description are set.
LEMMA NamedFacts ==
    ASSUME NEW m, NEW q, ScreenOK(m, q), NEW a \in 0 .. MaxWork, NEW d \in 0 .. MaxWork,
           NEW n, n = [m EXCEPT !.name = a, !.desc = d]
    PROVE  ScreenOK(n, q) /\ Frame(m, n) /\ n.did = m.did
  <1>1. n \in Home /\ SameFields(m, n) /\ Frame(m, n)
    BY DEF ScreenOK, Home, SameFields, Frame
  <1>2. QED
    BY <1>1, SideOK DEF SameFields

\* The screens in which a plan is made.
LEMMA PlanScreensWent ==
    ASSUME ScreenInv, NewPlanKey \/ DerivingKey \/ NewPlanTopicKey
    PROVE  Went
  <1>0. 0 \in 0 .. MaxWork /\ used \in 0 .. MaxWork
    BY ScreenAssumption DEF ScreenInv
  <1>1. CASE NewPlanKey
    <2> DEFINE m == [Fresh EXCEPT !.name = HeuristicTitle(used), !.desc = used]
               p == Show(m, "newPlanTopic", A("other", None))
               d == Show(m, "deriving", A("other", None))
               a == A("title", used)
    <2>1. \/ Answering("newPlan", Closed(Fresh))
          \/ Answering("newPlan", p)
          \/ AnsweringWith("newPlan", d, {a})
      BY <1>1 DEF NewPlanKey, Titling
    <2>2. a \in Deeds /\ a.kind \notin Captured
      <3>1. a \in Deeds /\ a.kind = "title"
        BY <1>0, ActTypes
      <3>2. QED
        BY <3>1 DEF Captured
    <2>3. ScreenOK(m, inbox) /\ Frame(Fresh, m)
      BY <1>0, UiIsHome, NamedFacts DEF HeuristicTitle
    <2> HIDE DEF a, m
    <2>4. ScreenOK(p, inbox) /\ Frame(m, p) /\ ScreenOK(d, inbox) /\ Frame(m, d)
      BY <2>3, ShowFacts, PlainNames, DialogActs DEF PlainScreens
    <2> HIDE DEF p, d
    <2>5. Frame(Fresh, p) /\ Frame(Fresh, d)
      BY <2>3, <2>4, FrameThenFrame
    <2>6. CASE Answering("newPlan", Closed(Fresh))
      BY <2>6, WentToClosed, PlainNames DEF Answering
    <2>7. CASE Answering("newPlan", p)
      BY <2>4, <2>5, <2>7, WentTo DEF Answering
    <2>8. CASE AnsweringWith("newPlan", d, {a})
      BY <2>2, <2>4, <2>5, <2>8, WentSending DEF AnsweringWith
    <2>9. QED
      BY <2>1, <2>6, <2>7, <2>8
  <1>2. CASE DerivingKey
    <2> DEFINE c == Closed(Fresh)
               m == [c EXCEPT !.name = 0, !.desc = 0]
    <2>1. /\ ui.screen \in PlainScreens /\ inbox' = inbox /\ used' = used /\ UNCHANGED permVars
          /\ ui' = m
      BY <1>2, PlainNames DEF DerivingKey, Answering
    <2>2. ScreenOK(c, inbox) /\ Frame(Fresh, c)
      BY <2>1, FreshCloses
    <2> HIDE DEF c
    <2>3. ScreenOK(m, inbox) /\ Frame(c, m)
      BY <1>0, <2>2, NamedFacts
    <2> HIDE DEF m
    <2>4. QED
      BY <2>1, <2>2, <2>3, FrameThenFrame, WentTo
  <1>3. CASE NewPlanTopicKey
    <2> DEFINE c == Closed(Fresh)
               d == Done(c, A("title", ui.name), A("title", ui.desc))
               m == [d EXCEPT !.name = 0, !.desc = 0]
    <2>1. /\ ui.screen \in PlainScreens /\ inbox' = inbox /\ used' = used /\ UNCHANGED permVars
          /\ ui' = m
      BY <1>3, PlainNames DEF NewPlanTopicKey, Answering
    <2>2. ScreenOK(c, inbox) /\ Frame(Fresh, c)
      BY <2>1, FreshCloses
    <2>3. /\ A("title", ui.name) \in Act /\ A("title", ui.desc) \in Act
          /\ A("title", ui.name).kind \notin Captured
      <3>1. ui.name \in 0 .. MaxWork /\ ui.desc \in 0 .. MaxWork
        BY UiIsHome DEF Home
      <3>2. A("title", ui.name) \in Act /\ A("title", ui.desc) \in Act
        BY <3>1, ActTypes
      <3>3. A("title", ui.name).kind = "title"
        BY ActTypes
      <3>4. QED
        BY <3>2, <3>3 DEF Captured
    <2> HIDE DEF c
    <2>4. ScreenOK(d, inbox) /\ Frame(c, d)
      BY <2>2, <2>3, DoneFacts
    <2> HIDE DEF d
    <2>5. ScreenOK(m, inbox) /\ Frame(d, m)
      BY <1>0, <2>4, NamedFacts
    <2> HIDE DEF m
    <2>6. Frame(Fresh, m)
      BY <2>2, <2>4, <2>5, FrameThenFrame
    <2>7. QED
      BY <2>1, <2>5, <2>6, WentTo
  <1>4. QED
    BY <1>1, <1>2, <1>3

\* The import of a task, the session browser, the form for an agent, and what only closes.
LEMMA OtherScreensWent ==
    ASSUME ScreenInv,
           FocusKey \/ SearchKey \/ ClickUpSearchKey \/ ClickUpPickerKey \/ TmuxBrowserKey
               \/ ClickOutside \/ SpawnAgentKey \/ MenuDismissed
    PROVE  Went
  <1>1. CASE FocusKey \/ SearchKey \/ ClickOutside \/ MenuDismissed
    <2>1. "search" \in PlainScreens
      BY PlainNames
    <2>2. /\ ui.screen \in PlainScreens /\ inbox' = inbox /\ used' = used /\ UNCHANGED permVars
          /\ ui' = Closed(Fresh)
      BY <1>1, PlainNames DEF FocusKey, SearchKey, ClickOutside, MenuDismissed, Answering
    <2>3. QED
      BY <2>2, WentToClosed
  <1>2. CASE ClickUpSearchKey \/ ClickUpPickerKey
    <2> DEFINE f == Show(Fresh, "clickUpFetching", A("other", None))
    <2>1. PICK a \in {A("search", None), A("task", None)},
               s \in {"clickUpSearch", "clickUpPicker"} :
              AnsweringWith(s, f, {a}) \/ Answering(s, Closed(Fresh))
      BY <1>2 DEF ClickUpSearchKey, ClickUpPickerKey
    <2>2. ScreenOK(f, inbox) /\ Frame(Fresh, f)
      BY UiIsHome, ShowFacts, PlainNames, DialogActs DEF PlainScreens
    <2>3. a \in Deeds /\ a.kind \notin Captured
      BY <2>1, ActTypes, DialogActs DEF Captured
    <2> HIDE DEF f
    <2>4. CASE Answering(s, Closed(Fresh))
      BY <2>1, <2>4, WentToClosed, PlainNames DEF Answering
    <2>5. CASE AnsweringWith(s, f, {a})
      BY <2>2, <2>3, <2>5, WentSending DEF AnsweringWith
    <2>6. QED
      BY <2>1, <2>4, <2>5
  <1>3. CASE TmuxBrowserKey \/ SpawnAgentKey
    <2> DEFINE c == Closed(Fresh)
    <2>1. ui.screen \in PlainScreens /\ inbox' = inbox /\ used' = used /\ UNCHANGED permVars
      BY <1>3, PlainNames DEF TmuxBrowserKey, SpawnAgentKey
    <2>2. ui' = Fresh \/ ui' = c \/ Spawned(c)
      BY <1>3 DEF TmuxBrowserKey, SpawnAgentKey
    <2>3. ScreenOK(c, inbox) /\ Frame(Fresh, c)
      BY <2>1, FreshCloses
    <2> HIDE DEF c
    <2>4. CASE ui' = Fresh
      BY <2>1, <2>4, UiIsHome, WentTo DEF Frame
    <2>5. CASE ui' = c
      BY <2>1, <2>3, <2>5, WentTo
    <2>6. CASE Spawned(c)
      <3>1. PICK i \in (Insts \ c.insts) \cup {None} :
                ui' = IF i = None THEN c ELSE [c EXCEPT !.insts = @ \cup {i}, !.sel = i]
        BY <2>6 DEF Spawned
      <3>2. i \in Insts \cup {None} /\ ui' = AgentSpawned(c, i)
        BY <3>1 DEF AgentSpawned
      <3>3. QED
        BY <2>1, <2>3, <3>2, WentSpawning
    <2>7. QED
      BY <2>2, <2>4, <2>5, <2>6
  <1>4. QED
    BY <1>1, <1>2, <1>3

----------------------------------------------------------------------------
(* The confirmation dialog and the context menu *)

\* A dialog closes whose fields are loose.
LEMMA LooseDialogCloses ==
    ASSUME NEW m, NEW q, Loose(m, q), NEW n, n = [NoDialog(m) EXCEPT !.wave = None]
    PROVE  ScreenOK(n, q) /\ Frame(m, n) /\ n.did = m.did /\ n.screen = "default"
  <1> DEFINE c == [m EXCEPT !.wave = None, !.confirm = NoAct, !.next = NoAct, !.abort = NoAct]
  <1>1. Loose(c, q) /\ Frame(m, c) /\ c.did = m.did
    <2>1. c \in Home
      BY ActTypes DEF Loose, Home, Plan
    <2>2. /\ c.orphans = m.orphans /\ c.did = m.did /\ c.handled = m.handled
          /\ c.approve = m.approve /\ c.screen = m.screen /\ c.perm = m.perm
          /\ c.chat = m.chat /\ c.topic = m.topic /\ c.status = m.status
          /\ c.wave = None /\ c.next = NoAct /\ c.abort = NoAct /\ c.planner = m.planner
      BY DEF Loose, Home
    <2> HIDE DEF c
    <2>3. InboxOK(c, q) /\ DidOK(c, q)
      BY <2>2 DEF Loose, InboxOK, DidOK
    <2>4. QED
      BY <2>1, <2>2, <2>3 DEF Loose, Frame
  <1>2. n = Closed(c)
    BY DEF NoDialog, Closed, Loose, Home
  <1> HIDE DEF c
  <1>3. /\ ScreenOK(Closed(c), q) /\ Frame(c, Closed(c))
        /\ Closed(c).did = c.did /\ Closed(c).screen = "default"
    BY <1>1, LooseClosed
  <1>4. QED
    BY <1>1, <1>2, <1>3, FrameThenFrame

\* What is sent by a dialog is what it shows, or what a replaced one left.
LEMMA DialogSends ==
    ASSUME ScreenInv, ui.screen = "confirm", NEW act \in Deeds,
           act.kind \in Captured => ui.shown = act \/ act \in ui.orphans
    PROVE  LET r == {[own |-> b, meant |-> ui.shown] : b \in {act}}
           IN  ScreenOK(Fresh, inbox \cup r) /\ Sent(inbox \cup r, act)
  <1> DEFINE x == [own |-> act, meant |-> ui.shown]
  <1>1. {[own |-> b, meant |-> ui.shown] : b \in {act}} = {x}
    OBVIOUS
  <1>2. x \in Message /\ x.own = act /\ x.meant = ui.shown
    BY UiIsHome, ActTypes DEF Message, Home
  <1> HIDE DEF x
  <1>3. Fresh.orphans = ui.orphans
    BY FreshFacts DEF ScreenInv
  <1>4. InboxOK(Fresh, {x})
    BY <1>2, <1>3 DEF InboxOK
  <1>5. ScreenOK(Fresh, inbox \cup {x})
    BY <1>4, UiIsHome, SentFacts
  <1>6. Sent(inbox \cup {x}, act)
    BY <1>2 DEF Sent
  <1>7. QED
    BY <1>1, <1>5, <1>6

\* A dialog is confirmed.
LEMMA ConfirmYesWent ==
    ASSUME ScreenInv, ConfirmYes
    PROVE  Went
  <1> DEFINE q == inbox \cup {[own |-> b, meant |-> ui.shown] : b \in {ui.confirm}}
             n == [NoDialog(Fresh) EXCEPT !.wave = None]
  <1>1. /\ ui.screen = "confirm" /\ used' = used /\ UNCHANGED permVars
        /\ ui' = n /\ inbox' = q
    BY DEF ConfirmYes, AnsweringWith
  <1>2. ui.confirm \in Deeds /\ ui.shown = ui.confirm
    BY <1>1, UiIsHome DEF Home, ScreenInv, ScreenOK, FieldsOK
  <1>3. ScreenOK(Fresh, q) /\ Sent(q, ui.confirm)
    BY <1>1, <1>2, DialogSends
  <1> HIDE DEF q
  <1>4. /\ Fresh.screen = "confirm" /\ Fresh.shown = ui.confirm
    BY <1>1, <1>2, FreshFacts DEF ScreenInv
  <1>5. Fresh.planner # None => A("planner", Fresh.planner) \in Fresh.orphans
                               \/ Sent(q, A("planner", Fresh.planner))
    BY <1>3, <1>4 DEF ScreenOK, FieldsOK, Kept
  <1>6. ScreenOK(n, q) /\ Frame(Fresh, n)
    BY <1>3, <1>4, <1>5, DialogCloses
  <1> HIDE DEF n
  <1>7. QED
    BY <1>1, <1>6, WentTo

\* The abort or the next act of a failed wave's dialog.
LEMMA ClosedByWent ==
    ASSUME ScreenInv, NEW act \in {ui.abort, ui.next}, act # NoAct,
           AnsweringWith("confirm", ClosedBy(act), {act})
    PROVE  Went
  <1> DEFINE q == inbox \cup {[own |-> b, meant |-> ui.shown] : b \in {act}}
             f == IF act = ui.shown THEN Fresh ELSE Away(Fresh)
             n == [NoDialog(f) EXCEPT !.wave = None]
  <1>1. /\ ui.screen = "confirm" /\ used' = used /\ UNCHANGED permVars
        /\ ui' = n /\ inbox' = q
    BY DEF AnsweringWith, ClosedBy
  <1>2. act \in Deeds /\ act.kind = "wave" /\ (ui.shown = act \/ act \in ui.orphans)
    BY UiIsHome DEF Home, ScreenInv, ScreenOK, FieldsOK, Kept
  <1>3. ScreenOK(Fresh, q)
    BY <1>1, <1>2, DialogSends
  <1>4. Fresh.screen = "confirm" /\ Fresh.shown = ui.shown
    BY <1>1, FreshFacts DEF ScreenInv
  <1> HIDE DEF q
  <1>5. ScreenOK(n, q) /\ Frame(Fresh, n)
    <2>1. CASE act = ui.shown
      <3>1. Fresh.planner # None => A("planner", Fresh.planner) \in Fresh.orphans
                                   \/ Sent(q, A("planner", Fresh.planner))
        BY <1>2, <1>3, <1>4, <2>1, ActTypes DEF ScreenOK, FieldsOK, Kept
      <3>2. n = [NoDialog(Fresh) EXCEPT !.wave = None]
        BY <2>1
      <3> HIDE DEF n
      <3>3. QED
        BY <1>3, <1>4, <3>1, <3>2, DialogCloses
    <2>2. CASE act # ui.shown
      <3> DEFINE a == Away(Fresh)
      <3>1. Loose(a, q) /\ Frame(Fresh, a)
        BY <1>3, AwayLoose
      <3>2. n = [NoDialog(a) EXCEPT !.wave = None]
        BY <2>2
      <3> HIDE DEF n, a
      <3>3. ScreenOK(n, q) /\ Frame(a, n)
        BY <3>1, <3>2, LooseDialogCloses
      <3>4. QED
        BY <3>1, <3>3, FrameThenFrame
    <2>3. QED
      BY <2>1, <2>2
  <1> HIDE DEF n
  <1>6. QED
    BY <1>1, <1>5, WentTo

\* A dialog is declined.
LEMMA DeclinedFacts ==
    ASSUME ScreenInv, ui.screen = "confirm"
    PROVE  ScreenOK(NoDialog(Declined(Fresh)), inbox) /\ Frame(Fresh, NoDialog(Declined(Fresh)))
  <1> DEFINE f == Fresh
             w == IF f.wave = None THEN f ELSE Did(f, A("wave", f.wave))
             d == IF f.planner = None THEN w ELSE Did(w, A("planner", f.planner))
             P == IF f.planner = None THEN d.prompted ELSE d.prompted \cup {f.planner}
             e == [d EXCEPT !.wave = None, !.planner = None, !.prompted = P]
             n == NoDialog(Declined(Fresh))
  <1>1. /\ ScreenOK(f, inbox) /\ f.screen = "confirm" /\ f.shown = ui.shown /\ f \in Home
        /\ ui.shown \in Act
    BY UiIsHome, FreshFacts DEF Home, ScreenInv
  <1>2. /\ f.wave # None => /\ A("wave", f.wave) \in Act
                            /\ ui.shown = A("wave", f.wave) \/ A("wave", f.wave) \in f.orphans
        /\ f.planner # None => /\ A("planner", f.planner) \in Act /\ f.planner \in Plans
                               /\ \/ ui.shown = A("planner", f.planner)
                                  \/ A("planner", f.planner) \in f.orphans
                                  \/ Sent(inbox, A("planner", f.planner))
    <2>1. f.wave # None => A("wave", f.wave) \in Act
      BY <1>1, ActTypes, DialogActs DEF Home, Plan
    <2>2. f.planner # None => A("planner", f.planner) \in Act /\ f.planner \in Plans
      BY <1>1, ActTypes DEF Home, Plan
    <2> HIDE DEF f
    <2>3. QED
      BY <1>1, <2>1, <2>2 DEF ScreenOK, FieldsOK, Kept
  <1> HIDE DEF f
  <1>3. /\ ScreenOK(w, inbox) /\ Frame(f, w) /\ w.screen = f.screen /\ w.shown = f.shown
        /\ w.planner = f.planner /\ w.orphans = f.orphans
    <2>1. CASE f.wave = None
      BY <1>1, <2>1 DEF Frame
    <2>2. CASE f.wave # None
      <3> DEFINE z == Done(f, A("wave", f.wave), ui.shown)
      <3>1. /\ ScreenOK(z, inbox) /\ Frame(f, z) /\ z.screen = f.screen /\ z.shown = f.shown
            /\ z.planner = f.planner /\ z.orphans = f.orphans
        BY <1>1, <1>2, <2>2, DoneFacts
      <3>2. w = z
        BY <2>2 DEF Did
      <3> HIDE DEF z, w
      <3>3. QED
        BY <3>1, <3>2
    <2>3. QED
      BY <2>1, <2>2
  <1> HIDE DEF w
  <1>4. /\ ScreenOK(d, inbox) /\ Frame(w, d) /\ d.screen = f.screen /\ d.shown = f.shown
    <2>1. CASE f.planner = None
      BY <1>3, <2>1 DEF Frame
    <2>2. CASE f.planner # None
      <3> DEFINE z == Done(w, A("planner", f.planner), ui.shown)
      <3>1. /\ ScreenOK(z, inbox) /\ Frame(w, z) /\ z.screen = w.screen /\ z.shown = w.shown
        BY <1>1, <1>2, <1>3, <2>2, DoneFacts
      <3>2. d = z
        BY <2>2 DEF Did
      <3> HIDE DEF z, d
      <3>3. QED
        BY <1>3, <3>1, <3>2
    <2>3. QED
      BY <2>1, <2>2
  <1>5. Declined(Fresh) = e
    <2>1. d = IF Fresh.planner = None THEN IF Fresh.wave = None THEN Fresh
                                            ELSE Did(Fresh, A("wave", Fresh.wave))
              ELSE Did(IF Fresh.wave = None THEN Fresh
                       ELSE Did(Fresh, A("wave", Fresh.wave)), A("planner", Fresh.planner))
      BY DEF f, w
    <2> HIDE DEF d
    <2>2. Declined(Fresh) = [d EXCEPT !.wave = None, !.planner = None,
                             !.prompted = IF Fresh.planner = None THEN @
                                          ELSE @ \cup {Fresh.planner}]
      BY <2>1 DEF Declined
    <2>3. QED
      BY <1>4, <2>2 DEF f, ScreenOK, Home
  <1> HIDE DEF d
  <1>6. P \in SUBSET Plans
    BY <1>2, <1>4 DEF ScreenOK, Home
  <1> HIDE DEF P
  <1>7. e \in Home
    BY <1>4, <1>6 DEF ScreenOK, Home, Plan
  <1>8. /\ e.screen = d.screen /\ e.shown = d.shown /\ e.confirm = d.confirm /\ e.next = d.next
        /\ e.abort = d.abort /\ e.wave = None /\ e.planner = None /\ e.chat = d.chat
        /\ e.topic = d.topic /\ e.status = d.status /\ e.perm = d.perm
        /\ e.orphans = d.orphans /\ e.did = d.did
        /\ e.handled = d.handled /\ e.approve = d.approve
    BY <1>4 DEF ScreenOK, Home
  <1>9. NoDialog(e) = [NoDialog(e) EXCEPT !.wave = None]
    BY <1>7, <1>8, ZenonT(30) DEF NoDialog, Closed, Home
  <1> HIDE DEF e
  <1>10. FieldsOK(e, inbox)
    BY <1>4, <1>8 DEF ScreenOK, FieldsOK, Kept
  <1>11. InboxOK(e, inbox) /\ DidOK(e, inbox)
    BY <1>4, <1>8 DEF ScreenOK, InboxOK, DidOK
  <1>12. ScreenOK(e, inbox) /\ Frame(d, e) /\ e.screen = "confirm"
    BY <1>1, <1>4, <1>7, <1>8, <1>10, <1>11 DEF ScreenOK, Frame
  <1> DEFINE g == NoDialog(e)
  <1>13. g = [NoDialog(e) EXCEPT !.wave = None]
    BY <1>9
  <1> HIDE DEF g
  <1>14. ScreenOK(g, inbox) /\ Frame(e, g)
    BY <1>8, <1>12, <1>13, DialogCloses
  <1>15. Frame(f, g)
    BY <1>3, <1>4, <1>12, <1>14, FrameThenFrame
  <1>16. QED
    BY <1>5, <1>14, <1>15 DEF f, g

\* ... in a step: the planner of its plan may go.
LEMMA ConfirmEscWent ==
    ASSUME ScreenInv, ConfirmEsc
    PROVE  \E i : WentWithout(i)
  <1> DEFINE c == NoDialog(Declined(Fresh))
  <1>1. /\ ui.screen = "confirm" /\ inbox' = inbox /\ used' = used
        /\ \E i \in Planners(ui.planner) : ui' = Gone(c, i) /\ Forget(i)
    BY DEF ConfirmEsc
  <1>2. ScreenOK(c, inbox) /\ Frame(Fresh, c)
    BY <1>1, DeclinedFacts
  <1> HIDE DEF c
  <1>3. PICK i \in Planners(ui.planner) : ui' = Gone(c, i) /\ Forget(i)
    BY <1>1
  <1> DEFINE n == Gone(c, i)
  <1>4. ScreenOK(n, inbox) /\ FrameBut(c, n, i) /\ ui' = n
    BY <1>2, <1>3, GoneFacts
  <1> HIDE DEF n
  <1>5. FrameBut(Fresh, n, i)
    BY <1>2, <1>4, FrameThenFrameBut
  <1>6. WentWithout(i)
    BY <1>1, <1>3, <1>4, <1>5, WentWithoutTo
  <1>7. QED
    BY <1>6

\* A screen opens in the place of the menu.
LEMMA WentOn ==
    ASSUME ScreenInv, NEW m, ScreenOK(m, inbox), Frame(Fresh, m),
           \/ \E s \in PlainScreens, act \in Act : ui' = Show(m, s, act)
           \/ \E act \in Deeds \ {NoAct} : ui' = Dialog(m, act),
           inbox' = inbox, used' = used, UNCHANGED permVars
    PROVE  Went
  <1>1. ASSUME NEW s \in PlainScreens, NEW act \in Act, ui' = Show(m, s, act)
        PROVE  Went
    <2> DEFINE n == Show(m, s, act)
    <2>1. ScreenOK(n, inbox) /\ Frame(m, n) /\ ui' = n
      BY <1>1, ShowFacts DEF PlainScreens
    <2> HIDE DEF n
    <2>2. QED
      BY <2>1, FrameThenFrame, WentTo
  <1>2. ASSUME NEW act \in Deeds \ {NoAct}, ui' = Dialog(m, act)
        PROVE  Went
    <2> DEFINE n == Dialog(m, act)
    <2>1. ScreenOK(n, inbox) /\ Frame(m, n) /\ ui' = n
      BY <1>2, DialogFacts
    <2> HIDE DEF n
    <2>2. QED
      BY <2>1, FrameThenFrame, WentTo
  <1>3. QED
    BY <1>1, <1>2

\* The menu kills an instance.
LEMMA MenuKillWent ==
    ASSUME ScreenInv, MenuKill
    PROVE  WentWithout(SelectedInst(ui))
  <1> DEFINE i == SelectedInst(ui)
             c == Closed(Fresh)
             d == Done(c, A("kill", i), A("kill", ui.shown.on))
             n == Gone(d, i)
  <1>1. /\ ui.screen \in PlainScreens /\ inbox' = inbox /\ used' = used /\ ui' = n
        /\ Forget(i)
    BY PlainNames DEF MenuKill
  <1>2. ScreenOK(c, inbox) /\ Frame(Fresh, c)
    BY <1>1, FreshCloses
  <1>3. i \in Subjects /\ ui.shown.on \in Subjects
    BY UiIsHome, SelectionTypes DEF Home, Act
  <1> HIDE DEF i, c
  <1>4. /\ A("kill", i) \in Act /\ A("kill", ui.shown.on) \in Act
        /\ A("kill", i).kind \notin Captured
    <2>1. A("kill", i) \in Act /\ A("kill", ui.shown.on) \in Act
      BY <1>3, DialogActs
    <2>2. A("kill", i).kind = "kill"
      BY ActTypes
    <2>3. QED
      BY <2>1, <2>2 DEF Captured
  <1>5. ScreenOK(d, inbox) /\ Frame(c, d)
    BY <1>2, <1>4, DoneFacts
  <1> HIDE DEF d
  <1>6. ScreenOK(n, inbox) /\ FrameBut(d, n, i)
    BY <1>5, GoneFacts
  <1> HIDE DEF n
  <1>7. FrameBut(c, n, i)
    BY <1>5, <1>6, FrameThenFrameBut
  <1>8. FrameBut(Fresh, n, i)
    BY <1>2, <1>7, FrameThenFrameBut
  <1>9. WentWithout(i)
    BY <1>1, <1>6, <1>8, WentWithoutTo
  <1>10. QED
    BY <1>9 DEF i

\* The other items of the menu.
LEMMA MenuWent ==
    ASSUME ScreenInv, InstanceAction \/ PlanAction \/ StageAction
    PROVE  Went
  <1> DEFINE c == Closed(Fresh)
             i == SelectedInst(ui)
             p == SelectedPlan(ui)
             j == First(ui, p)
  <1>1. ui.screen \in PlainScreens /\ inbox' = inbox /\ used' = used /\ UNCHANGED permVars
    <2>1. ui.screen = "menu" /\ inbox' = inbox /\ used' = used /\ UNCHANGED permVars
      BY DEF InstanceAction, PlanAction, StageAction, Answering
    <2>2. QED
      BY <2>1, PlainNames
  <1>2. ScreenOK(c, inbox) /\ Frame(Fresh, c) /\ c.screen = "default"
    BY <1>1, FreshCloses
  <1>3. /\ i \in Subjects /\ j \in Subjects /\ p \in Subjects /\ j \in Insts \cup {None}
        /\ p \in Plans \cup {None}
    BY UiIsHome, SelectionTypes, FirstType, DialogActs
  <1>4. CASE InstanceAction
    <2>1. \/ ui' = Dialog(c, A("push", i))
          \/ ui' = Show(c, "prTitle", A("pr", i))
          \/ ui' = Show(c, "renameInst", A("rename", i))
          \/ ui' = Show(c, "focus", A("other", None))
      BY <1>4 DEF InstanceAction, Answering
    <2> HIDE DEF c, i
    <2>2. \/ \E s \in PlainScreens, act \in Act : ui' = Show(c, s, act)
          \/ \E act \in Deeds \ {NoAct} : ui' = Dialog(c, act)
      BY <1>3, <2>1, PlainNames, DialogActs
    <2>3. QED
      BY <1>1, <1>2, <2>2, WentOn
  <1>5. CASE PlanAction
    <2> DEFINE tc == Show([c EXCEPT !.topic = p], "topic", A("topic", p))
               sc == Show([c EXCEPT !.status = p], "status", A("status", p))
               cc == Show([c EXCEPT !.chat = p], "chat", A("chat", p))
               f == [c EXCEPT !.sel = j]
    <2>1. /\ p # None
          /\ \/ ui' = tc \/ ui' = sc \/ ui' = cc
             \/ ui' = Show(c, "renamePlan", A("renamePlan", p))
             \/ ui' = Dialog(c, A("deed", p)) \/ ui' = Dialog(c, A("push", j))
             \/ ui' = Show(f, "prTitle", A("pr", j))
      BY <1>5 DEF PlanAction, Answering
    <2>2. p \in Plans /\ c.screen \notin Keeping
      BY <1>2, <1>3, <2>1 DEF Keeping
    <2> HIDE DEF c, p, j
    <2>3. CASE ui' = tc
      <3>1. ScreenOK(tc, inbox) /\ Frame(c, tc)
        BY <1>2, <2>2, TopicOpens
      <3> HIDE DEF tc
      <3>2. QED
        BY <1>1, <1>2, <2>3, <3>1, FrameThenFrame, WentTo
    <2>4. CASE ui' = sc
      <3>1. ScreenOK(sc, inbox) /\ Frame(c, sc)
        BY <1>2, <2>2, StatusOpens
      <3> HIDE DEF sc
      <3>2. QED
        BY <1>1, <1>2, <2>4, <3>1, FrameThenFrame, WentTo
    <2>5. CASE ui' = cc
      <3>1. ScreenOK(cc, inbox) /\ Frame(c, cc)
        BY <1>2, <2>2, ChatOpens
      <3> HIDE DEF cc
      <3>2. QED
        BY <1>1, <1>2, <2>5, <3>1, FrameThenFrame, WentTo
    <2>6. CASE \/ ui' = Show(c, "renamePlan", A("renamePlan", p))
               \/ ui' = Dialog(c, A("deed", p)) \/ ui' = Dialog(c, A("push", j))
      <3>1. \/ \E s \in PlainScreens, act \in Act : ui' = Show(c, s, act)
            \/ \E act \in Deeds \ {NoAct} : ui' = Dialog(c, act)
        BY <1>3, <2>6, PlainNames, DialogActs
      <3>2. QED
        BY <1>1, <1>2, <3>1, WentOn
    <2>7. CASE ui' = Show(f, "prTitle", A("pr", j))
      <3>1. f \in Home /\ SameFields(c, f) /\ Frame(c, f)
        BY <1>2, <1>3, ZenonT(30) DEF ScreenOK, Home, SameFields, Frame, Plan
      <3> HIDE DEF f
      <3>2. ScreenOK(f, inbox) /\ Frame(Fresh, f)
        BY <1>2, <3>1, SideOK, FrameThenFrame
      <3>3. \E s \in PlainScreens, act \in Act : ui' = Show(f, s, act)
        BY <1>3, <2>7, PlainNames, DialogActs
      <3>4. QED
        BY <1>1, <3>2, <3>3, WentOn
    <2>8. QED
      BY <2>1, <2>3, <2>4, <2>5, <2>6, <2>7
  <1>6. CASE StageAction
    <2>1. ui.sel \in Subjects /\ (ui' = Dialog(c, A("stage", ui.sel)) \/ Spawned(c))
      BY <1>6, UiIsHome, SelectionTypes DEF StageAction, Staged
    <2> HIDE DEF c
    <2>2. CASE ui' = Dialog(c, A("stage", ui.sel))
      <3>1. \E act \in Deeds \ {NoAct} : ui' = Dialog(c, act)
        BY <2>1, <2>2, DialogActs
      <3>2. QED
        BY <1>1, <1>2, <3>1, WentOn
    <2>3. CASE Spawned(c)
      <3>1. PICK k \in (Insts \ c.insts) \cup {None} :
                ui' = IF k = None THEN c ELSE [c EXCEPT !.insts = @ \cup {k}, !.sel = k]
        BY <2>3 DEF Spawned
      <3>2. k \in Insts \cup {None} /\ ui' = AgentSpawned(c, k)
        BY <3>1 DEF AgentSpawned
      <3>3. QED
        BY <1>1, <1>2, <3>2, WentSpawning
    <2>4. QED
      BY <2>1, <2>2, <2>3
  <1>7. QED
    BY <1>4, <1>5, <1>6

\* The step of a user who answers something.
LEMMA AnswerWent ==
    ASSUME ScreenInv, Answer
    PROVE  Went \/ (\E i : WentWithout(i)) \/ \E i : WentTyping(i)
  <1>1. CASE ConfirmAbort
    BY <1>1, ClosedByWent DEF ConfirmAbort
  <1>2. CASE ConfirmNo
    BY <1>2, ClosedByWent DEF ConfirmNo
  <1>3. CASE ConfirmYes \/ ConfirmEsc
    BY <1>3, ConfirmYesWent, ConfirmEscWent
  <1>4. CASE HelpKey \/ SubmitName \/ CancelName \/ MenuKill
    BY <1>4, HelpKeyWent, SubmitNameWent, CancelNameWent, MenuKillWent
  <1>5. CASE InstanceAction \/ PlanAction \/ StageAction
    BY <1>5, MenuWent
  <1>6. CASE ChatKey \/ ChangeTopicKey \/ SetStatusKey \/ PromptKey \/ PRTitleKey \/ PRBodyKey
             \/ RenameInstanceKey \/ RenamePlanKey
    BY <1>6, FieldScreensWent, PromptWent, SelectedScreensWent
  <1>7. CASE NewPlanKey \/ DerivingKey \/ NewPlanTopicKey \/ FocusKey \/ SearchKey
             \/ ClickUpSearchKey \/ ClickUpPickerKey \/ TmuxBrowserKey \/ ClickOutside
             \/ SpawnAgentKey \/ MenuDismissed
    BY <1>7, PlanScreensWent, OtherScreensWent
  <1>8. QED
    BY <1>1, <1>2, <1>3, <1>4, <1>5, <1>6, <1>7 DEF Answer

----------------------------------------------------------------------------
(* Messages of commands *)

\* A message that is not a planner's.
LEMMA FreshArrived ==
    ASSUME ScreenInv, NEW x \in inbox, x.own.kind # "planner"
    PROVE  /\ ScreenOK(Fresh, inbox \ {x}) /\ x.own \in Deeds /\ x.meant \in Act
           /\ x.own.kind \in Captured => x.meant = x.own \/ x.own \in Fresh.orphans
  <1>1. Fresh.did = {} /\ Fresh.orphans = ui.orphans
    BY FreshFacts DEF ScreenInv
  <1>2. ScreenOK(Fresh, inbox \ {x})
    BY <1>1, UiIsHome, ArrivedFacts
  <1>3. QED
    BY <1>1, <1>2 DEF ScreenInv, ScreenOK, InboxOK, Message

\* The session list, a search, a task and a help screen arrive over what is shown.
LEMMA ListsWent ==
    ASSUME ScreenInv, SearchResult \/ TaskFetched \/ SessionsArrive \/ HelpStart
    PROVE  Went
  <1> DEFINE l == Closed(Away(Fresh))
             k == Show(Fresh, "clickUpPicker", A("other", None))
             b == Show(Fresh, "tmuxBrowser", A("other", None))
             h == HelpThen(Fresh, "start", NoAct)
  <1>1. PICK x \in inbox :
          /\ x.own.kind \in {"search", "task", "sessions", "helpStart"}
          /\ inbox' = inbox \ {x} /\ used' = used /\ UNCHANGED permVars
          /\ \/ ui' = l \/ ui' = k \/ ui' = b \/ ui' = Fresh \/ ui' = h
             \/ Spawned(l)
    <2>1. CASE SearchResult
      BY <2>1 DEF SearchResult, Arrives
    <2>2. CASE TaskFetched
      BY <2>2 DEF TaskFetched
    <2>3. CASE SessionsArrive
      BY <2>3 DEF SessionsArrive, Arrives
    <2>4. CASE HelpStart
      <3>1. Fresh.seen = ui.seen
        BY FreshFacts DEF ScreenInv
      <3>2. h = IF "start" \in ui.seen THEN Fresh
                ELSE [Show(Fresh, "help", A("other", None)) EXCEPT !.seen = @ \cup {"start"},
                                                                   !.callback = NoAct]
        BY <3>1 DEF HelpThen
      <3> HIDE DEF h
      <3>3. QED
        BY <2>4, <3>2 DEF HelpStart, Arrives
    <2>5. QED
      BY <2>1, <2>2, <2>3, <2>4
  <1> DEFINE q == inbox \ {x}
  <1>2. ScreenOK(Fresh, q)
    BY <1>1, FreshArrived
  <1> HIDE DEF q
  <1>3. ScreenOK(l, q) /\ Frame(Fresh, l)
    BY <1>2, LeftFacts
  <1>4. ScreenOK(k, q) /\ Frame(Fresh, k) /\ ScreenOK(b, q) /\ Frame(Fresh, b)
    BY <1>2, ShowFacts, PlainNames, DialogActs DEF PlainScreens
  <1>5. ScreenOK(h, q) /\ Frame(Fresh, h)
    BY <1>2, ActTypes, HelpThenFacts
  <1>6. Frame(Fresh, Fresh) /\ inbox' = q
    BY <1>1 DEF Frame, q
  <1> HIDE DEF l, k, b, h
  <1>7. CASE ui' = l \/ ui' = k \/ ui' = b \/ ui' = Fresh \/ ui' = h
    BY <1>1, <1>2, <1>3, <1>4, <1>5, <1>6, <1>7, WentTo
  <1>8. CASE Spawned(l)
    <2>1. PICK i \in (Insts \ l.insts) \cup {None} :
              ui' = IF i = None THEN l ELSE [l EXCEPT !.insts = @ \cup {i}, !.sel = i]
      BY <1>8 DEF Spawned
    <2>2. i \in Insts \cup {None} /\ ui' = AgentSpawned(l, i)
      BY <2>1 DEF AgentSpawned
    <2>3. QED
      BY <1>1, <1>3, <1>6, <2>2, WentSpawning
  <1>9. QED
    BY <1>1, <1>7, <1>8

\* A title arrives.
LEMMA TitleWent ==
    ASSUME ScreenInv, TitleArrives
    PROVE  Went
  <1>1. PICK x \in inbox, ok \in BOOLEAN :
          LET named == [Fresh EXCEPT !.name = IF ok THEN x.own.on ELSE @] IN
          /\ x.own.kind = "title" /\ inbox' = inbox \ {x}
          /\ ui' = IF ui.screen = "deriving"
                   THEN Show(named, "newPlanTopic", A("other", None))
                   ELSE IF ui.screen = "newPlanTopic" /\ ui.desc # 0 THEN named
                   ELSE Fresh
          /\ UNCHANGED <<used, permVars>>
    BY DEF TitleArrives
  <1> DEFINE q == inbox \ {x}
             a == IF ok THEN x.own.on ELSE Fresh.name
             named == [Fresh EXCEPT !.name = a]
             p == Show(named, "newPlanTopic", A("other", None))
  <1>2. /\ ui' = p \/ ui' = named \/ ui' = Fresh
        /\ inbox' = q /\ used' = used /\ UNCHANGED permVars
    <2>1. [Fresh EXCEPT !.name = IF ok THEN x.own.on ELSE @] = named
      BY UiIsHome DEF Home
    <2> HIDE DEF named
    <2>2. QED
      BY <1>1, <2>1
  <1>3. ScreenOK(Fresh, q) /\ x.own \in Deeds
    BY <1>1, FreshArrived
  <1>4. a \in 0 .. MaxWork
    BY <1>1, <1>3, UiIsHome DEF Deeds, Home
  <1> HIDE DEF q, a
  <1>5. named \in Home /\ SameFields(Fresh, named) /\ Frame(Fresh, named)
    <2>1. Fresh \in Home
      BY UiIsHome
    <2> HIDE DEF Fresh
    <2>2. QED
      BY <1>4, <2>1 DEF Home, SameFields, Frame
  <1> HIDE DEF named
  <1>6. ScreenOK(named, q)
    BY <1>3, <1>5, SideOK
  <1>7. ScreenOK(p, q) /\ Frame(named, p)
    BY <1>6, ShowFacts, PlainNames, DialogActs DEF PlainScreens
  <1>8. Frame(Fresh, p) /\ Frame(Fresh, Fresh)
    BY <1>5, <1>7, FrameThenFrame DEF Frame
  <1> HIDE DEF p
  <1>9. QED
    BY <1>2, <1>3, <1>5, <1>6, <1>7, <1>8, WentTo

\* A started instance, or one that failed and goes.
LEMMA StartWent ==
    ASSUME ScreenInv, StartArrives
    PROVE  Went \/ \E i : WentWithout(i)
  <1>1. PICK x \in inbox, ok \in BOOLEAN :
          /\ x.own.kind = "start" /\ inbox' = inbox \ {x}
          /\ ui' = IF ok THEN Fresh ELSE Gone(Fresh, x.own.on)
          /\ Forget(IF ok THEN None ELSE x.own.on)
          /\ UNCHANGED used
    BY DEF StartArrives
  <1> DEFINE q == inbox \ {x}
  <1>2. ScreenOK(Fresh, q)
    BY <1>1, FreshArrived
  <1> HIDE DEF q
  <1>3. inbox' = q
    BY <1>1 DEF q
  <1>4. CASE ok
    <2>1. None \notin Fresh.handled
      BY UiIsHome, PermissionAssumption DEF Home
    <2>2. FrameBut(Fresh, Fresh, None)
      BY <2>1 DEF FrameBut
    <2>3. WentWithout(None)
      BY <1>1, <1>2, <1>3, <1>4, <2>2, WentWithoutTo
    <2>4. QED
      BY <2>3
  <1>5. CASE ~ok
    <2> DEFINE n == Gone(Fresh, x.own.on)
               i == x.own.on
    <2>1. ScreenOK(n, q) /\ FrameBut(Fresh, n, i)
      BY <1>2, GoneFacts
    <2>2. ui' = n /\ Forget(i) /\ used' = used
      BY <1>1, <1>5
    <2> HIDE DEF n, i
    <2>3. WentWithout(i)
      BY <1>3, <2>1, <2>2, WentWithoutTo
    <2>4. QED
      BY <2>3
  <1>6. QED
    BY <1>4, <1>5

\* An instance to abort goes.
LEMMA KillWent ==
    ASSUME ScreenInv, KillArrives
    PROVE  \E i : WentWithout(i)
  <1> DEFINE i == SelectedInst(ui)
  <1>1. PICK x \in inbox :
          /\ x.own.kind = "abort" /\ inbox' = inbox \ {x}
          /\ ui' = IF i = None THEN Fresh ELSE Gone(Done(Fresh, A("abort", i), x.meant), i)
          /\ Forget(i)
          /\ UNCHANGED used
    BY DEF KillArrives
  <1> DEFINE q == inbox \ {x}
             d == Done(Fresh, A("abort", i), x.meant)
             n == Gone(d, i)
  <1>2. ScreenOK(Fresh, q) /\ x.meant \in Act
    BY <1>1, FreshArrived
  <1>3. inbox' = q
    BY <1>1
  <1> HIDE DEF q
  <1>4. i \in Subjects
    BY UiIsHome, SelectionTypes
  <1> HIDE DEF i
  <1>5. A("abort", i) \in Act /\ A("abort", i).kind \notin Captured
    BY <1>4, DialogActs, ActTypes DEF Captured
  <1>6. ScreenOK(d, q) /\ Frame(Fresh, d)
    BY <1>2, <1>5, DoneFacts
  <1> HIDE DEF d
  <1>7. ScreenOK(n, q) /\ FrameBut(d, n, i)
    BY <1>6, GoneFacts
  <1>8. FrameBut(Fresh, n, i)
    BY <1>6, <1>7, FrameThenFrameBut
  <1>9. CASE i = None
    <2>1. None \notin Fresh.handled
      BY UiIsHome, PermissionAssumption DEF Home
    <2>2. FrameBut(Fresh, Fresh, i)
      BY <1>9, <2>1 DEF FrameBut
    <2>3. WentWithout(i)
      BY <1>1, <1>2, <1>3, <1>9, <2>2, WentWithoutTo
    <2>4. QED
      BY <2>3
  <1>10. CASE i # None
    <2>1. ui' = n /\ Forget(i) /\ used' = used
      BY <1>1, <1>10 DEF d
    <2> HIDE DEF n
    <2>2. WentWithout(i)
      BY <1>3, <1>7, <1>8, <2>1, WentWithoutTo
    <2>3. QED
      BY <2>2
  <1>11. QED
    BY <1>9, <1>10

\* A planner's dialog was confirmed: its field is cleared with the message.
LEMMA PlannerWent ==
    ASSUME ScreenInv, PlannerComplete
    PROVE  \E i : WentWithout(i)
  <1>1. PICK x \in inbox :
          /\ x.own.kind = "planner" /\ inbox' = inbox \ {x}
          /\ \E i \in Planners(x.own.on) :
                /\ Staged([Gone(Done(Fresh, x.own, x.meant), i)
                           EXCEPT !.prompted = @ \cup {x.own.on}, !.planner = None], x.own.on)
                /\ Forget(i)
          /\ UNCHANGED used
    BY DEF PlannerComplete
  <1> DEFINE d == Done(Fresh, x.own, x.meant)
             q == inbox \ {x}
  <1>2. PICK i \in Planners(x.own.on) :
                /\ Staged([Gone(d, i) EXCEPT !.prompted = @ \cup {x.own.on}, !.planner = None],
                          x.own.on)
                /\ Forget(i)
    BY <1>1
  <1>3. /\ x.own \in Deeds /\ x.own \in Act /\ x.meant \in Act /\ x.own.on \in Plans
        /\ x.meant = x.own \/ x.own \in ui.orphans
    BY <1>1 DEF ScreenInv, ScreenOK, InboxOK, Message, Deeds, Captured
  <1>4. ScreenOK(Fresh, inbox) /\ Fresh.did = {} /\ Fresh.orphans = ui.orphans
    BY FreshFacts DEF ScreenInv
  <1>5. ScreenOK(d, inbox) /\ Frame(Fresh, d) /\ d.orphans = ui.orphans
    BY <1>3, <1>4, DoneFacts
  <1>6. \A z \in d.did : z.meant = z.own \/ z.own \in ui.orphans
    <2> DEFINE z == [own |-> x.own, meant |-> x.meant]
    <2>1. z.own = x.own /\ z.meant = x.meant
      OBVIOUS
    <2> HIDE DEF z
    <2>2. d.did \subseteq {z}
      <3>1. CASE x.own = x.meant
        BY <1>4, <3>1 DEF Done
      <3>2. CASE x.own # x.meant
        <4>1. d = [Fresh EXCEPT !.did = @ \cup {z}]
          BY <3>2 DEF Done, z
        <4>2. d.did = Fresh.did \cup {z}
          BY <4>1, UiIsHome DEF Home
        <4>3. QED
          BY <1>4, <4>2
      <3>3. QED
        BY <3>1, <3>2
    <2>3. QED
      BY <1>3, <2>1, <2>2
  <1> HIDE DEF d
  <1> DEFINE g == Gone(d, i)
             P == g.prompted \cup {x.own.on}
             e == [g EXCEPT !.prompted = P, !.planner = None]
  <1>7. /\ ScreenOK(g, inbox) /\ FrameBut(d, g, i) /\ g.did = d.did /\ g.orphans = ui.orphans
    BY <1>5, GoneFacts
  <1> HIDE DEF g
  <1>8. P \in SUBSET Plans /\ Staged(e, x.own.on)
    <2>1. P \in SUBSET Plans
      BY <1>3, <1>7 DEF ScreenOK, Home
    <2>2. e = [g EXCEPT !.prompted = @ \cup {x.own.on}, !.planner = None]
      BY <1>7 DEF ScreenOK, Home
    <2> HIDE DEF e, P
    <2>3. QED
      BY <1>2, <2>1, <2>2 DEF g
  <1> HIDE DEF P
  <1>9. e \in Home
    BY <1>7, <1>8 DEF ScreenOK, Home, Plan
  <1>10. /\ e.screen = g.screen /\ e.shown = g.shown /\ e.confirm = g.confirm /\ e.next = g.next
         /\ e.abort = g.abort /\ e.wave = g.wave /\ e.planner = None /\ e.chat = g.chat
         /\ e.topic = g.topic /\ e.status = g.status /\ e.perm = g.perm
         /\ e.orphans = g.orphans /\ e.did = g.did
         /\ e.handled = g.handled /\ e.approve = g.approve
    BY <1>7 DEF ScreenOK, Home
  <1> HIDE DEF e
  <1>11. FieldsOK(e, q)
    BY <1>7, <1>10 DEF ScreenOK, FieldsOK, Kept
  <1>12. InboxOK(e, q)
    BY <1>7, <1>10 DEF ScreenOK, InboxOK
  <1>13. DidOK(e, q)
    BY <1>6, <1>7, <1>10 DEF DidOK
  <1>14. ScreenOK(e, q) /\ Frame(g, e)
    BY <1>9, <1>10, <1>11, <1>12, <1>13 DEF ScreenOK, Frame
  <1>15. FrameBut(Fresh, e, i)
    <2>1. FrameBut(Fresh, g, i)
      BY <1>5, <1>7, FrameThenFrameBut
    <2>2. QED
      BY <1>14, <2>1, FrameThenFrameBut
  <1>16. inbox' = q /\ used' = used /\ Forget(i)
    BY <1>1, <1>2
  <1> HIDE DEF q
  <1>17. ASSUME NEW n, ui' = n, ScreenOK(n, q), Frame(e, n)
         PROVE  WentWithout(i)
    <2>1. FrameBut(Fresh, n, i)
      BY <1>15, <1>17, FrameThenFrameBut
    <2>2. QED
      BY <1>16, <1>17, <2>1, WentWithoutTo
  <1>18. WentWithout(i)
    <2>1. CASE ui' = Dialog(e, A("stage", x.own.on))
      <3> DEFINE n == Dialog(e, A("stage", x.own.on))
      <3>1. ScreenOK(n, q) /\ Frame(e, n)
        BY <1>3, <1>14, DialogFacts, DialogActs
      <3>2. ui' = n
        BY <2>1
      <3> HIDE DEF n
      <3>3. QED
        BY <1>17, <3>1, <3>2
    <2>2. CASE Spawned(e)
      <3>1. PICK k \in (Insts \ e.insts) \cup {None} :
                ui' = IF k = None THEN e ELSE [e EXCEPT !.insts = @ \cup {k}, !.sel = k]
        BY <2>2 DEF Spawned
      <3> DEFINE n == AgentSpawned(e, k)
      <3>2. ui' = n
        BY <3>1 DEF AgentSpawned
      <3>3. ScreenOK(n, q) /\ Frame(e, n)
        BY <1>14, <3>1, AgentSpawnedFacts
      <3> HIDE DEF n
      <3>4. QED
        BY <1>17, <3>2, <3>3
    <2>3. QED
      BY <1>8, <2>1, <2>2 DEF Staged
  <1>19. QED
    BY <1>18

\* The act of another dialog is done.
LEMMA ActWent ==
    ASSUME ScreenInv, ActDone
    PROVE  Went
  <1>1. PICK x \in inbox :
          /\ x.own.kind \in Captured \ {"planner"} /\ inbox' = inbox \ {x}
          /\ Spawned(Done(Fresh, x.own, x.meant))
          /\ UNCHANGED <<used, permVars>>
    BY DEF ActDone
  <1> DEFINE q == inbox \ {x}
             d == Done(Fresh, x.own, x.meant)
  <1>2. /\ ScreenOK(Fresh, q) /\ x.own \in Act /\ x.meant \in Act
        /\ x.meant = x.own \/ x.own \in Fresh.orphans
    BY <1>1, FreshArrived, ActTypes
  <1>3. inbox' = q
    BY <1>1
  <1> HIDE DEF q
  <1>4. ScreenOK(d, q) /\ Frame(Fresh, d)
    BY <1>2, DoneFacts
  <1> HIDE DEF d
  <1>5. Spawned(d)
    BY <1>1 DEF d
  <1>6. PICK k \in (Insts \ d.insts) \cup {None} :
            ui' = IF k = None THEN d ELSE [d EXCEPT !.insts = @ \cup {k}, !.sel = k]
    BY <1>5 DEF Spawned
  <1>7. k \in Insts \cup {None} /\ ui' = AgentSpawned(d, k)
    BY <1>6 DEF AgentSpawned
  <1>8. QED
    BY <1>1, <1>3, <1>4, <1>7, WentSpawning

\* A step in which a message arrives.
LEMMA ArrivalWent ==
    ASSUME ScreenInv, Arrival
    PROVE  Went \/ \E i : WentWithout(i)
  <1>1. CASE SearchResult \/ TaskFetched \/ SessionsArrive \/ HelpStart
    BY <1>1, ListsWent
  <1>2. CASE TitleArrives \/ StartArrives
    BY <1>2, TitleWent, StartWent
  <1>3. CASE KillArrives \/ PlannerComplete
    BY <1>3, KillWent, PlannerWent
  <1>4. CASE ActDone
    BY <1>4, ActWent
  <1>5. QED
    BY <1>1, <1>2, <1>3, <1>4 DEF Arrival

----------------------------------------------------------------------------
(* The tick: signals, and dialogs that were put off *)

\* A PlannerFinished signal.
LEMMA SignalledFacts ==
    ASSUME NEW m, NEW q, ScreenOK(m, q), NEW p \in Plans
    PROVE  ScreenOK(Signalled(m, p), q) /\ Frame(m, Signalled(m, p))
  <1>1. CASE p \in m.prompted
    BY <1>1 DEF Signalled, Frame
  <1>2. CASE p \notin m.prompted /\ InOverlay(m)
    <2> DEFINE D == Append(m.deferred, p)
               n == [m EXCEPT !.deferred = D]
    <2>1. D \in Seq(Plans)
      BY DEF ScreenOK, Home
    <2>2. Signalled(m, p) = n
      BY <1>2 DEF Signalled, ScreenOK, Home
    <2> HIDE DEF D
    <2>3. n \in Home /\ SameFields(m, n) /\ Frame(m, n)
      BY <2>1 DEF ScreenOK, Home, SameFields, Frame
    <2> HIDE DEF n
    <2>4. QED
      BY <2>2, <2>3, SideOK
  <1>3. CASE p \notin m.prompted /\ ~InOverlay(m)
    <2> DEFINE n == Dialog(Focus([m EXCEPT !.planner = p], First(m, p)), A("planner", p))
    <2>1. Signalled(m, p) = n /\ m.screen = "default"
      BY <1>3 DEF Signalled, InOverlay
    <2>2. ScreenOK(n, q) /\ Frame(m, n)
      BY <2>1, FirstType, PlannerDialogFacts
    <2> HIDE DEF n
    <2>3. QED
      BY <2>1, <2>2
  <1>4. QED
    BY <1>1, <1>2, <1>3

\* Several of them.
LEMMA AllSignalledFacts ==
    ASSUME NEW m, NEW q, ScreenOK(m, q), NEW plans \in Seq(Plans)
    PROVE  ScreenOK(AllSignalled(m, plans), q) /\ Frame(m, AllSignalled(m, plans))
  <1> DEFINE N == Len(plans)
             T == {n \in Home : ScreenOK(n, q) /\ Frame(m, n)}
             next(k, n) == Signalled(n, plans[k])
             step == [k \in 1 .. N |-> [n \in T |-> next(k, n)]]
             Eqn(f) == f = [k \in 0 .. N |-> IF k = 0 THEN m ELSE next(k, f[k - 1])]
  <1>1. N \in Nat /\ \A k \in 1 .. N : plans[k] \in Plans
    OBVIOUS
  <1>2. m \in T
    BY DEF ScreenOK, Frame
  <1>3. \A k \in 1 .. N : \A n \in T : next(k, n) \in T
    <2> SUFFICES ASSUME NEW k \in 1 .. N, NEW n \in T PROVE next(k, n) \in T
      OBVIOUS
    <2> DEFINE o == next(k, n)
    <2>1. ScreenOK(o, q) /\ Frame(n, o)
      BY <1>1, SignalledFacts
    <2> HIDE DEF o
    <2>2. o \in Home /\ Frame(m, o)
      BY <2>1, FrameThenFrame DEF ScreenOK
    <2>3. QED
      BY <2>1, <2>2 DEF o
  <1> HIDE DEF next, N, T
  <1>4. step \in [1 .. N -> [T -> T]]
    BY <1>3
  <1>5. PICK f : DefinedBySteps(f, N, T, m, step)
    <2> HIDE DEF step
    <2> QED
      BY <1>1, <1>2, <1>4, Recursion
  <1>6. /\ f \in [0 .. N -> T] /\ f[0] = m
        /\ \A k \in 1 .. N : f[k] = next(k, f[k - 1])
    <2>1. /\ f \in [0 .. N -> T] /\ f[0] = m
          /\ \A k \in 1 .. N : f[k] = step[k][f[k - 1]]
      BY <1>5 DEF DefinedBySteps
    <2>2. \A k \in 1 .. N : k - 1 \in 0 .. N
      BY <1>1
    <2>3. QED
      BY <2>1, <2>2
  <1>7. Eqn(f)
    <2>1. \A k \in 0 .. N : f[k] = IF k = 0 THEN m ELSE next(k, f[k - 1])
      BY <1>1, <1>6
    <2>2. QED
      BY <1>6, <2>1
  <1> DEFINE after == CHOOSE g : Eqn(g)
  <1>8. Eqn(after)
    <2> HIDE DEF Eqn
    <2> QED
      BY <1>7
  <1>9. AllSignalled(m, plans) = after[N]
    BY DEF AllSignalled, next, N
  <1> HIDE DEF after
  <1>10. after[0] = m /\ \A k \in 1 .. N : after[k] = next(k, after[k - 1])
    BY <1>1, <1>8
  <1>11. after[N] \in T
    <2>1. after[0] \in T /\ \A k \in 1 .. N : after[k - 1] \in T => after[k] \in T
      BY <1>2, <1>3, <1>10
    <2>2. N \in 0 .. N
      BY <1>1
    <2>3. QED
      BY <1>1, <2>1, <2>2, StaysIn
  <1>12. QED
    BY <1>9, <1>11 DEF T

\* A dialog that was put off.
LEMMA DeferredFacts ==
    ASSUME NEW m, NEW q, ScreenOK(m, q)
    PROVE  ScreenOK(DeferredDialog(m), q) /\ Frame(m, DeferredDialog(m))
  <1>1. CASE m.deferred = << >> \/ InOverlay(m)
    BY <1>1 DEF DeferredDialog, Frame
  <1>2. CASE ~(m.deferred = << >> \/ InOverlay(m))
    <2> DEFINE p == Head(m.deferred)
               D == Tail(m.deferred)
               t == [m EXCEPT !.deferred = D]
               n == Dialog(Focus([t EXCEPT !.planner = p], First(m, p)), A("planner", p))
    <2>1. p \in Plans /\ D \in Seq(Plans)
      BY <1>2 DEF ScreenOK, Home
    <2>2. DeferredDialog(m) = IF p \in m.prompted THEN t ELSE n
      BY <1>2 DEF DeferredDialog, ScreenOK, Home
    <2> HIDE DEF p, D
    <2>3. t \in Home /\ SameFields(m, t) /\ Frame(m, t) /\ t.screen = "default"
      BY <1>2, <2>1 DEF ScreenOK, Home, SameFields, Frame, InOverlay
    <2> HIDE DEF t
    <2>4. ScreenOK(t, q)
      BY <2>3, SideOK
    <2>5. ScreenOK(n, q) /\ Frame(t, n)
      BY <2>1, <2>3, <2>4, FirstType, PlannerDialogFacts
    <2> HIDE DEF n
    <2>6. QED
      BY <2>2, <2>3, <2>4, <2>5, FrameThenFrame
  <1>3. QED
    BY <1>1, <1>2

\* An instance takes the selection.
LEMMA FocusFacts ==
    ASSUME NEW m, NEW q, ScreenOK(m, q), NEW i \in Insts \cup {None}
    PROVE  ScreenOK(Focus(m, i), q) /\ Frame(m, Focus(m, i))
  <1>1. CASE i = None
    BY <1>1 DEF Focus, Frame
  <1>2. CASE i # None
    <2> DEFINE n == [m EXCEPT !.sel = i]
    <2>1. Focus(m, i) = n
      BY <1>2 DEF Focus
    <2>2. n \in Home /\ SameFields(m, n) /\ Frame(m, n)
      BY <1>2 DEF ScreenOK, Home, SameFields, Frame
    <2> HIDE DEF n
    <2>3. QED
      BY <2>1, <2>2, SideOK
  <1>3. QED
    BY <1>1, <1>2

\* A coder ended.
LEMMA CoderExitFacts ==
    ASSUME NEW m, NEW q, ScreenOK(m, q), NEW p \in Plans \cup {None}
    PROVE  ScreenOK(CoderExit(m, p), q) /\ Frame(m, CoderExit(m, p))
  <1>1. CASE p = None \/ InOverlay(m) \/ First(m, p) = None
    BY <1>1 DEF CoderExit, Frame
  <1>2. CASE ~(p = None \/ InOverlay(m) \/ First(m, p) = None)
    <2> DEFINE f == Focus(m, First(m, p))
               n == Dialog(f, A("coder", p))
    <2>1. CoderExit(m, p) = n
      BY <1>2 DEF CoderExit
    <2>2. ScreenOK(f, q) /\ Frame(m, f)
      BY FirstType, FocusFacts
    <2> HIDE DEF f
    <2>3. ScreenOK(n, q) /\ Frame(f, n)
      BY <2>2, DialogFacts, DialogActs
    <2> HIDE DEF n
    <2>4. QED
      BY <2>1, <2>2, <2>3, FrameThenFrame
  <1>3. QED
    BY <1>1, <1>2

\* A wave is over.
LEMMA WaveOverFacts ==
    ASSUME NEW m, NEW q, ScreenOK(m, q), NEW p \in Plans \cup {None},
           NEW how \in {"last", "failed", "done"}
    PROVE  ScreenOK(WaveOver(m, p, how), q) /\ Frame(m, WaveOver(m, p, how))
  <1>1. CASE p = None \/ InOverlay(m)
    BY <1>1 DEF WaveOver, Frame
  <1>2. CASE ~(p = None \/ InOverlay(m))
    <2> DEFINE f == Focus(m, First(m, p))
               l == Dialog(f, A("waves", p))
               w == WaveFailedDialog(f, p)
               d == WaveDialog(f, p)
               n == WaveOver(m, p, how)
    <2>1. n = l \/ n = w \/ n = d
      BY <1>2 DEF WaveOver
    <2>2. ScreenOK(f, q) /\ Frame(m, f)
      BY FirstType, FocusFacts
    <2> HIDE DEF f, n
    <2>3. /\ ScreenOK(l, q) /\ Frame(f, l) /\ ScreenOK(w, q) /\ Frame(f, w)
          /\ ScreenOK(d, q) /\ Frame(f, d)
      BY <1>2, <2>2, DialogFacts, DialogActs, WaveFailedFacts, WaveDialogFacts
    <2> HIDE DEF l, w, d
    <2>4. ScreenOK(n, q) /\ Frame(m, n)
      BY <2>1, <2>2, <2>3, FrameThenFrame
    <2>5. QED
      BY <2>4 DEF n
  <1>3. QED
    BY <1>1, <1>2

----------------------------------------------------------------------------
(* The tick: permission dialogs *)

\* The screen of a permission opens or closes in the place of a screen without a field.
LEMMA PermScreenFacts ==
    ASSUME NEW m, NEW q, ScreenOK(m, q), m.screen \notin Keeping, NEW n, n \in Home,
           n.screen \in {"default", "permission"},
           n.screen = "permission" => n.perm.inst \in Insts /\ n.perm.n # 0,
           n.confirm = m.confirm, n.next = m.next,
           n.abort = m.abort, n.wave = m.wave, n.planner = m.planner, n.chat = m.chat,
           n.topic = m.topic, n.status = m.status, n.orphans = m.orphans, n.did = m.did
    PROVE  ScreenOK(n, q)
  <1>1. Loose(m, q)
    BY PlainLoose
  <1>2. FieldsOK(n, q)
    BY <1>1 DEF Loose, FieldsOK, Kept
  <1>3. InboxOK(n, q) /\ DidOK(n, q)
    BY <1>1 DEF Loose, InboxOK, DidOK
  <1>4. QED
    BY <1>2, <1>3 DEF ScreenOK

\* An answer that nothing has been typed of.
Approval(r) == r.step = "approve" /\ r.taps = Taps(r.choice)

\* What the permission part of a tick has done so far, which started with m: guards are
\* lost only without a dialog, and what is approved or shown is a dialog that was seen
\* and not guarded.
Asked(m, n) ==
    /\ \A i \in Insts : i \in m.handled /\ i \notin n.handled => capture[i].n = 0
    /\ \A k \in DOMAIN n.approve :
          /\ Approval(n.approve[k]) /\ n.approve[k].n = capture[n.approve[k].inst].n
          /\ n.approve[k].inst \notin m.handled /\ n.approve[k].inst \in n.handled
    /\ \A j, k \in DOMAIN n.approve : n.approve[j].inst = n.approve[k].inst => j = k
    /\ m.screen # "default" => n.screen = m.screen /\ n.approve = << >>
    /\ n.screen = "permission" =>
          \/ m.screen = "permission" /\ n.perm = m.perm
          \/ /\ n.perm.inst \in Insts /\ n.perm.n = capture[n.perm.inst].n /\ n.perm.n # 0
             /\ n.perm.inst \notin m.handled /\ n.perm.inst \notin n.handled

\* One instance's part.
LEMMA PermissionStepFacts ==
    ASSUME NEW m, NEW q, NEW n, ScreenOK(n, q), Asked(m, n), capture \in [Insts -> Dlg],
           NEW i \in Insts
    PROVE  ScreenOK(PermissionStep(n, i), q) /\ Asked(m, PermissionStep(n, i))
  <1> DEFINE d == capture[i]
             o == PermissionStep(n, i)
  <1>1. d \in Dlg /\ d.n \in 0 .. MaxAsks /\ d.key \in Keys \cup {NoKey} /\ MaxAsks \in Nat
    BY PermissionAssumption DEF Dlg
  <1>2. CASE d.n = 0
    <2> DEFINE H == n.handled \ {i}
    <2>1. o = [n EXCEPT !.handled = H]
      BY <1>2 DEF PermissionStep, ScreenOK, Home
    <2>2. H \in SUBSET Insts
      BY DEF ScreenOK, Home
    <2> HIDE DEF H, d, o
    <2>3. o \in Home /\ SameFields(n, o) /\ o.handled = H /\ o.approve = n.approve
      BY <2>1, <2>2 DEF ScreenOK, Home, SameFields
    <2>4. ScreenOK(o, q)
      BY <2>3, SideOK
    <2>5. \A k \in DOMAIN n.approve : n.approve[k].inst # i
      <3> SUFFICES ASSUME NEW k \in DOMAIN n.approve, n.approve[k].inst = i PROVE FALSE
        OBVIOUS
      <3>1. n.approve[k] \in Reply
        BY DEF ScreenOK, Home
      <3>2. n.approve[k].n \in 1 .. MaxAsks
        BY <3>1 DEF Reply
      <3>3. n.approve[k].n = d.n
        BY DEF Asked, d
      <3>4. QED
        BY <1>2, <3>2, <3>3
    <2>6. \A k \in DOMAIN o.approve : o.approve[k].inst \in o.handled
      BY <2>3, <2>5 DEF Asked, H
    <2>7. Asked(m, o)
      BY <1>2, <2>3, <2>6 DEF Asked, SameFields, H, d
    <2>8. QED
      BY <2>4, <2>7 DEF o
  <1>3. CASE d.n # 0 /\ (n.screen # "default" \/ i \in n.handled)
    BY <1>3 DEF PermissionStep
  <1>4. CASE d.n # 0 /\ n.screen = "default" /\ i \notin n.handled /\ IsAllowedAlways(d.key)
    <2> DEFINE r == [inst |-> i, choice |-> "always", n |-> d.n, taps |-> Taps("always"),
                     step |-> "approve"]
               H == n.handled \cup {i}
               a == Append(n.approve, r)
    <2>1. o = [n EXCEPT !.handled = H, !.approve = a]
      BY <1>4 DEF PermissionStep, ScreenOK, Home
    <2>2. r \in Reply /\ r.inst = i /\ r.n = d.n /\ Approval(r)
      <3>1. Taps("always") \in 0 .. 2
        BY DEF Taps
      <3>2. QED
        BY <1>1, <1>4, <3>1 DEF Reply, Answers, Approval
    <2> HIDE DEF r
    <2>3. n.approve \in Seq(Reply) /\ Len(n.approve) \in Nat
      BY DEF ScreenOK, Home
    <2>4. /\ a \in Seq(Reply) /\ DOMAIN n.approve = 1 .. Len(n.approve)
          /\ DOMAIN a = 1 .. (Len(n.approve) + 1) /\ a[Len(n.approve) + 1] = r
          /\ \A k \in 1 .. Len(n.approve) : a[k] = n.approve[k]
      BY <2>2, <2>3
    <2>5. H \in SUBSET Insts
      BY DEF ScreenOK, Home
    <2> HIDE DEF H, a, o
    <2>6. /\ o \in Home /\ SameFields(n, o) /\ o.handled = H /\ o.approve = a
      BY <2>1, <2>4, <2>5 DEF ScreenOK, Home, SameFields
    <2>7. ScreenOK(o, q)
      BY <2>6, SideOK
    <2>8. i \notin m.handled
      BY <1>4 DEF Asked, d
    <2>9. \A k \in DOMAIN a : k = Len(n.approve) + 1 \/ k \in DOMAIN n.approve
      BY <2>3, <2>4
    <2>10. \A k \in DOMAIN a :
              /\ Approval(a[k]) /\ a[k].n = capture[a[k].inst].n
              /\ a[k].inst \notin m.handled /\ a[k].inst \in H
      <3> SUFFICES ASSUME NEW k \in DOMAIN a
                   PROVE  /\ Approval(a[k]) /\ a[k].n = capture[a[k].inst].n
                          /\ a[k].inst \notin m.handled /\ a[k].inst \in H
        OBVIOUS
      <3>1. CASE k = Len(n.approve) + 1
        BY <2>2, <2>4, <2>8, <3>1 DEF H, d
      <3>2. CASE k \in DOMAIN n.approve
        BY <2>4, <3>2 DEF Asked, H
      <3>3. QED
        BY <2>9, <3>1, <3>2
    <2>11. \A k \in DOMAIN n.approve : a[k].inst # i
      BY <1>4, <2>4 DEF Asked
    <2>12. \A j, k \in DOMAIN a : a[j].inst = a[k].inst => j = k
      <3> SUFFICES ASSUME NEW j \in DOMAIN a, NEW k \in DOMAIN a, a[j].inst = a[k].inst
                   PROVE  j = k
        OBVIOUS
      <3>1. CASE j \in DOMAIN n.approve /\ k \in DOMAIN n.approve
        BY <2>4, <3>1 DEF Asked
      <3>2. CASE j = Len(n.approve) + 1 \/ k = Len(n.approve) + 1
        BY <2>2, <2>4, <2>9, <2>11, <3>2
      <3>3. QED
        BY <2>9, <3>1, <3>2
    <2>13. m.screen # "default" => n.screen = m.screen
      BY DEF Asked
    <2>14. o.screen = "default" /\ m.screen = "default"
      BY <1>4, <2>6, <2>13 DEF SameFields
    <2>15. \A k \in Insts : k \in m.handled /\ k \notin o.handled => capture[k].n = 0
      BY <2>6 DEF Asked, H
    <2>16. Asked(m, o)
      BY <2>6, <2>10, <2>12, <2>14, <2>15 DEF Asked
    <2>17. QED
      BY <2>7, <2>16 DEF o
  <1>5. CASE d.n # 0 /\ n.screen = "default" /\ i \notin n.handled /\ ~IsAllowedAlways(d.key)
    <2> DEFINE p == [inst |-> i, n |-> d.n, key |-> d.key]
    <2>1. o = [n EXCEPT !.screen = "permission", !.sel = i, !.perm = p]
      BY <1>5 DEF PermissionStep
    <2>2. /\ p \in [inst : Insts \cup {None}, n : 0 .. MaxAsks, key : Keys \cup {NoKey}]
          /\ p.inst = i /\ p.n = d.n
      BY <1>1
    <2> HIDE DEF p, o
    <2>3. "permission" \in ScreenNames
      BY DEF ScreenNames
    <2>4. o \in Home
      BY <2>1, <2>2, <2>3, ZenonT(30) DEF ScreenOK, Home
    <2>5. /\ o.screen = "permission" /\ o.perm = p /\ o.confirm = n.confirm /\ o.next = n.next
          /\ o.abort = n.abort /\ o.wave = n.wave /\ o.planner = n.planner /\ o.chat = n.chat
          /\ o.topic = n.topic /\ o.status = n.status /\ o.orphans = n.orphans
          /\ o.did = n.did /\ o.handled = n.handled /\ o.approve = n.approve
      BY <2>1 DEF ScreenOK, Home
    <2>6. n.screen \notin Keeping
      BY <1>5 DEF Keeping
    <2>7. ScreenOK(o, q)
      BY <1>5, <2>2, <2>4, <2>5, <2>6, PermScreenFacts
    <2>8. i \notin m.handled /\ m.screen = "default"
      BY <1>5 DEF Asked, d
    <2>9. Asked(m, o)
      BY <1>5, <2>2, <2>5, <2>8 DEF Asked, d
    <2>10. QED
      BY <2>7, <2>9 DEF o
  <1>6. QED
    BY <1>2, <1>3, <1>4, <1>5

\* The part of all of them.
LEMMA PermissionStepsFacts ==
    ASSUME NEW m, NEW q, ScreenOK(m, q), m.approve = << >>, capture \in [Insts -> Dlg]
    PROVE  ScreenOK(PermissionSteps(m), q) /\ Asked(m, PermissionSteps(m))
  <1> DEFINE N == Len(InstSeq)
             T == {n \in Home : ScreenOK(n, q) /\ Asked(m, n)}
             next(k, n) == IF InstSeq[k] \in m.insts THEN PermissionStep(n, InstSeq[k]) ELSE n
             step == [k \in 1 .. N |-> [n \in T |-> next(k, n)]]
             Eqn(f) == f = [k \in 0 .. N |->
                 IF k = 0 THEN m
                 ELSE IF InstSeq[k] \in m.insts THEN PermissionStep(f[k - 1], InstSeq[k])
                 ELSE f[k - 1]]
  <1>1. N \in Nat /\ \A k \in 1 .. N : InstSeq[k] \in Insts
    BY InstSeqType
  <1>2. m \in T
    <2>1. \A k : k \notin DOMAIN m.approve
      OBVIOUS
    <2>2. Asked(m, m)
      BY <2>1 DEF Asked
    <2>3. QED
      BY <2>2 DEF ScreenOK
  <1>3. \A k \in 1 .. N : \A n \in T : next(k, n) \in T
    <2> SUFFICES ASSUME NEW k \in 1 .. N, NEW n \in T, InstSeq[k] \in m.insts
                 PROVE  PermissionStep(n, InstSeq[k]) \in T
      OBVIOUS
    <2> DEFINE o == PermissionStep(n, InstSeq[k])
    <2>1. ScreenOK(o, q) /\ Asked(m, o)
      BY <1>1, PermissionStepFacts
    <2> HIDE DEF o
    <2>2. o \in T
      BY <2>1 DEF ScreenOK
    <2>3. QED
      BY <2>2 DEF o
  <1> HIDE DEF N, T
  <1>4. step \in [1 .. N -> [T -> T]]
    <2> HIDE DEF next
    <2> QED
      BY <1>3
  <1>5. PICK f : DefinedBySteps(f, N, T, m, step)
    <2> HIDE DEF step
    <2> QED
      BY <1>1, <1>2, <1>4, Recursion
  <1>6. /\ f \in [0 .. N -> T] /\ f[0] = m
        /\ \A k \in 1 .. N : f[k] = next(k, f[k - 1])
    <2>1. /\ f \in [0 .. N -> T] /\ f[0] = m
          /\ \A k \in 1 .. N : f[k] = step[k][f[k - 1]]
      BY <1>5 DEF DefinedBySteps
    <2>2. \A k \in 1 .. N : k - 1 \in 0 .. N
      BY <1>1
    <2> HIDE DEF next
    <2>3. QED
      BY <2>1, <2>2
  <1>7. Eqn(f)
    <2>1. \A k \in 0 .. N : f[k] =
                 IF k = 0 THEN m
                 ELSE IF InstSeq[k] \in m.insts THEN PermissionStep(f[k - 1], InstSeq[k])
                 ELSE f[k - 1]
      BY <1>1, <1>6
    <2>2. QED
      BY <1>6, <2>1
  <1> DEFINE after == CHOOSE g : Eqn(g)
  <1>8. Eqn(after)
    <2> HIDE DEF Eqn
    <2> QED
      BY <1>7
  <1>9. PermissionSteps(m) = after[N]
    BY DEF PermissionSteps, N
  <1> HIDE DEF after
  <1>10. after[0] = m /\ \A k \in 1 .. N : after[k] = next(k, after[k - 1])
    BY <1>1, <1>8
  <1>11. after[N] \in T
    <2> HIDE DEF next
    <2>1. after[0] \in T /\ \A k \in 1 .. N : after[k - 1] \in T => after[k] \in T
      BY <1>2, <1>3, <1>10
    <2>2. N \in 0 .. N
      BY <1>1
    <2>3. QED
      BY <1>1, <2>1, <2>2, StaysIn
  <1>12. QED
    BY <1>9, <1>11 DEF T

\* What a tick does to the guards: a are the approvals it sends.
Ticked(a) ==
    /\ a \in Seq(Reply)
    /\ \A i \in Insts : i \in ui.handled /\ i \notin ui'.handled => capture[i].n = 0
    /\ \A k \in DOMAIN a :
          /\ Approval(a[k]) /\ a[k].n = capture[a[k].inst].n
          /\ a[k].inst \notin ui.handled /\ a[k].inst \in ui'.handled
    /\ \A j, k \in DOMAIN a : a[j].inst = a[k].inst => j = k
    /\ ui'.screen = "permission" =>
          \/ ui.screen = "permission" /\ ui'.perm = ui.perm /\ a = << >>
          \/ /\ ui'.perm.inst \in Insts /\ ui'.perm.n = capture[ui'.perm.inst].n
             /\ ui'.perm.n # 0
             /\ ui'.perm.inst \notin ui.handled /\ ui'.perm.inst \notin ui'.handled

\* A tick keeps the screens' invariant.
LEMMA TickFacts ==
    ASSUME ScreenInv, PermTypeOK, Tick
    PROVE  ScreenInv' /\ \E a : Ticked(a) /\ replies' = replies \o a
  <1> DEFINE m0(moved) == [Fresh EXCEPT !.sel = IF moved THEN None ELSE @]
             m1(moved, e) == AllSignalled(AgentSpawned(m0(moved), e.spawned), e.finished)
             m2(moved, e) == PermissionSteps(DeferredDialog(m1(moved, e)))
             m3(moved, e) == WaveOver(CoderExit(m2(moved, e), e.exited), e.over[1], e.over[2])
  <1>0. PICK c \in 0 .. MaxWork - used : \E e \in Happened[c] :
           \E moved \in IF ui.screen = "new" THEN BOOLEAN ELSE {FALSE} :
               /\ Spend(c)
               /\ ui' = [m3(moved, e) EXCEPT !.approve = << >>]
               /\ replies' = replies \o m3(moved, e).approve
    BY DEF Tick
  <1> HIDE DEF m3
  <1>1. PICK e \in Happened[c], moved \in IF ui.screen = "new" THEN BOOLEAN ELSE {FALSE} :
               /\ Spend(c)
               /\ ui' = [m3(moved, e) EXCEPT !.approve = << >>]
               /\ replies' = replies \o m3(moved, e).approve
    BY <1>0
  <1>2. /\ e.finished \in Seq(Plans) /\ e.spawned \in Insts \cup {None}
        /\ e.exited \in Plans \cup {None} /\ e.over[1] \in Plans \cup {None}
        /\ e.over[2] \in {"last", "failed", "done"}
    <2>1. c \in 0 .. MaxWork
      BY <1>0, <1>1, ScreenAssumption DEF Spend, ScreenInv
    <2>2. e \in [finished : SeqOf(Plans, 2), spawned : Insts \cup {None},
                 exited : Plans \cup {None},
                 over : (Plans \X {"last", "failed", "done"}) \cup {<<None, "last">>},
                 idle : SUBSET AutoYes]
      BY <1>1, <2>1 DEF Happened
    <2>3. \A s \in SeqOf(Plans, 2) : s \in Seq(Plans)
      <3> SUFFICES ASSUME NEW s \in SeqOf(Plans, 2) PROVE s \in Seq(Plans)
        OBVIOUS
      <3>1. PICK l \in 0 .. 2 : s \in [1 .. l -> Plans]
        BY DEF SeqOf
      <3>2. l \in Nat
        OBVIOUS
      <3>3. QED
        BY <3>1, <3>2
    <2>4. QED
      BY <2>2, <2>3
  <1>3. /\ inbox' = inbox /\ capture # NoCapture /\ capture' = NoCapture
        /\ UNCHANGED <<pane, asked, allowed, meddled, misled>> /\ used' \in 0 .. MaxWork
    <2>1. used' \in 0 .. MaxWork
      BY <1>1, ScreenAssumption DEF ScreenInv, Spend
    <2>2. QED
      BY <2>1 DEF Tick
  <1>4. capture \in [Insts -> Dlg]
    BY <1>3 DEF PermTypeOK
  <1> DEFINE a0 == m0(moved)
             a1 == AgentSpawned(a0, e.spawned)
             a2 == AllSignalled(a1, e.finished)
             a3 == DeferredDialog(a2)
             a4 == PermissionSteps(a3)
             a5 == CoderExit(a4, e.exited)
             a6 == WaveOver(a5, e.over[1], e.over[2])
  <1>5. m3(moved, e) = a6
    BY DEF m3
  <1>6. ScreenOK(a0, inbox) /\ Frame(Fresh, a0)
    <2>1. Fresh \in Home /\ None \in Insts \cup Plan
      BY UiIsHome DEF Plan
    <2> DEFINE s == IF moved THEN None ELSE Fresh.sel
               n == [Fresh EXCEPT !.sel = s]
    <2>2. a0 = n /\ s \in Insts \cup Plan
      BY <2>1 DEF Home
    <2> HIDE DEF s, a0, Fresh
    <2>3. n \in Home /\ SameFields(Fresh, n) /\ Frame(Fresh, n)
      BY <2>1, <2>2 DEF Home, SameFields, Frame
    <2> HIDE DEF n
    <2>4. QED
      BY <2>2, <2>3, UiIsHome, SideOK
  <1> HIDE DEF a0
  <1>7. ScreenOK(a1, inbox) /\ Frame(a0, a1)
    BY <1>2, <1>6, AgentSpawnedFacts
  <1> HIDE DEF a1
  <1>8. ScreenOK(a2, inbox) /\ Frame(a1, a2)
    BY <1>2, <1>7, AllSignalledFacts
  <1> HIDE DEF a2
  <1>9. ScreenOK(a3, inbox) /\ Frame(a2, a3)
    BY <1>8, DeferredFacts
  <1> HIDE DEF a3
  <1>10. Frame(ui, a3) /\ a3.approve = << >>
    <2>1. Frame(ui, Fresh) /\ ui.approve = << >>
      BY FreshFacts DEF ScreenInv
    <2>2. Frame(Fresh, a1)
      BY <1>6, <1>7, FrameThenFrame
    <2>3. Frame(Fresh, a3)
      BY <1>8, <1>9, <2>2, FrameThenFrame
    <2>4. QED
      BY <2>1, <2>3, FrameThenFrame DEF Frame
  <1>11. ScreenOK(a4, inbox) /\ Asked(a3, a4)
    BY <1>4, <1>9, <1>10, PermissionStepsFacts
  <1> HIDE DEF a4
  <1>12. ScreenOK(a5, inbox) /\ Frame(a4, a5)
    BY <1>2, <1>11, CoderExitFacts
  <1> HIDE DEF a5
  <1>13. ScreenOK(a6, inbox) /\ Frame(a5, a6)
    BY <1>2, <1>12, WaveOverFacts
  <1> HIDE DEF a6
  <1>14. Frame(a4, a6)
    BY <1>12, <1>13, FrameThenFrame
  <1> DEFINE n == [a6 EXCEPT !.approve = << >>]
  <1>15. ui' = n
    BY <1>1, <1>5
  <1>16. /\ n \in Home /\ SameFields(a6, n) /\ n.handled = a6.handled /\ n.approve = << >>
    <2>1. a6 \in Home /\ << >> \in Seq(Reply)
      BY <1>13 DEF ScreenOK
    <2>2. n \in Home
      BY <2>1 DEF Home
    <2>3. SameFields(a6, n) /\ n.handled = a6.handled /\ n.approve = << >>
      BY <2>1 DEF Home, SameFields
    <2>4. QED
      BY <2>2, <2>3
  <1> HIDE DEF n
  <1>17. ScreenOK(n, inbox)
    BY <1>13, <1>16, SideOK
  <1>18. ScreenInv'
    BY <1>3, <1>15, <1>16, <1>17 DEF ScreenInv
  <1>19. a6.approve \in Seq(Reply) /\ a6.approve = a4.approve
    BY <1>13, <1>14 DEF Frame, ScreenOK, Home
  <1>20. ui'.handled = a4.handled /\ ui.handled = a3.handled
    BY <1>10, <1>14, <1>15, <1>16 DEF Frame
  <1>21. ui'.screen = "permission" =>
           a4.screen = "permission" /\ ui'.perm = a4.perm
    BY <1>14, <1>15, <1>16 DEF Frame, SameFields
  <1>22. a3.screen = "permission" => ui.screen = "permission" /\ a3.perm = ui.perm
    BY <1>10 DEF Frame
  <1>23. Ticked(a6.approve)
    <2>1. \A i \in Insts : i \in ui.handled /\ i \notin ui'.handled => capture[i].n = 0
      BY <1>11, <1>20 DEF Asked
    <2>2. \A k \in DOMAIN a6.approve :
          /\ Approval(a6.approve[k])
          /\ a6.approve[k].n = capture[a6.approve[k].inst].n
          /\ a6.approve[k].inst \notin ui.handled /\ a6.approve[k].inst \in ui'.handled
      BY <1>11, <1>19, <1>20 DEF Asked
    <2>3. \A j, k \in DOMAIN a6.approve : a6.approve[j].inst = a6.approve[k].inst => j = k
      BY <1>11, <1>19 DEF Asked
    <2>4. ui'.screen = "permission" =>
          \/ ui.screen = "permission" /\ ui'.perm = ui.perm /\ a6.approve = << >>
          \/ /\ ui'.perm.inst \in Insts /\ ui'.perm.n = capture[ui'.perm.inst].n
             /\ ui'.perm.n # 0
             /\ ui'.perm.inst \notin ui.handled /\ ui'.perm.inst \notin ui'.handled
      BY <1>11, <1>19, <1>20, <1>21, <1>22 DEF Asked
    <2>5. QED
      BY <1>19, <2>1, <2>2, <2>3, <2>4 DEF Ticked
  <1>24. QED
    BY <1>1, <1>5, <1>18, <1>23

----------------------------------------------------------------------------
(* The permission screen, and the screens' theorem *)

\* The agents and the keys leave the screens alone; an answer closes that of the dialog.
LEMMA PermissionFacts ==
    ASSUME ScreenInv, Permission
    PROVE  ScreenInv'
  <1>1. inbox' = inbox /\ used' \in 0 .. MaxWork
    BY ScreenAssumption DEF Permission, Spend, ScreenInv
  <1>2. CASE ui' = ui
    BY <1>1, <1>2 DEF ScreenInv
  <1>3. CASE \E choice \in Answers \cup {"none"} :
               ui.screen = "permission" /\ ui' = Answered([ui EXCEPT !.did = {}], choice)
    <2> DEFINE H == Fresh.handled \cup {Fresh.perm.inst}
               n == [Fresh EXCEPT !.screen = "default", !.perm = NoPerm, !.handled = H]
    <2>1. Fresh \in Home /\ ScreenOK(Fresh, inbox) /\ Fresh.screen = "permission"
      BY <1>3, UiIsHome, FreshFacts DEF ScreenInv
    <2>2. ui' = n /\ Fresh.approve = << >>
      <3>1. ui' = [Fresh EXCEPT !.screen = "default", !.perm = NoPerm,
                                !.handled = @ \cup {Fresh.perm.inst}]
        BY <1>3 DEF Answered, Fresh
      <3>2. Fresh.approve = << >>
        BY FreshFacts DEF ScreenInv
      <3> HIDE DEF Fresh
      <3>3. QED
        BY <2>1, <3>1, <3>2 DEF Home
    <2> HIDE DEF Fresh
    <2>3. H \in SUBSET Insts
      BY <2>1 DEF ScreenOK, FieldsOK, Home
    <2> HIDE DEF H
    <2>4. /\ NoPerm \in [inst : Insts \cup {None}, n : 0 .. MaxAsks, key : Keys \cup {NoKey}]
          /\ "default" \in ScreenNames
      BY PermissionAssumption DEF NoPerm, ScreenNames
    <2>5. n \in Home
      BY <2>1, <2>3, <2>4 DEF Home
    <2>6. /\ n.screen = "default" /\ n.confirm = Fresh.confirm /\ n.next = Fresh.next
          /\ n.abort = Fresh.abort /\ n.wave = Fresh.wave /\ n.planner = Fresh.planner
          /\ n.chat = Fresh.chat /\ n.topic = Fresh.topic /\ n.status = Fresh.status
          /\ n.orphans = Fresh.orphans /\ n.did = Fresh.did /\ n.approve = << >>
      BY <2>1, <2>2 DEF Home
    <2>7. Fresh.screen \notin Keeping
      BY <2>1 DEF Keeping
    <2> HIDE DEF n
    <2>8. ScreenOK(n, inbox)
      BY <2>1, <2>5, <2>6, <2>7, PermScreenFacts
    <2>9. QED
      BY <1>1, <2>2, <2>6, <2>8 DEF ScreenInv
  <1>4. QED
    BY <1>2, <1>3 DEF Permission, PermSpend, PermNext, Ask, AnswerByHand, Collect,
       AnswerPermission, DismissPermission, AutoApprove, TypeRight, TypeSelection,
       TypeConfirmation, TypingFails, KeySendYes, TapEnter, TapFails, Answers

----------------------------------------------------------------------------
(* The guards of the permission dialogs *)

\* The answers on their way to an agent.
RepliesTo(i) == {k \in DOMAIN replies : replies[k].inst = i}

\* What the last Enter will confirm.
Selected(r) == [choice |-> r.choice, meant |-> r.choice, n |-> r.n]

\* A dialog without an answer, given or under way.
Unanswered(i, n) ==
    /\ n # 0 /\ pane[i].dialog.n = n /\ pane[i].chosen = Nothing /\ pane[i].at = 0
    /\ RepliesTo(i) = {}

\* The dialog of an agent is on the screen.
Shown(i) == ui.screen = "permission" /\ ui.perm.inst = i

\* The keys of an answer that are still to be typed lead from the cursor to its button.
OnCourse(i, r) == pane[i].at + r.taps = Taps(r.choice)

\* At most one answer is on its way, to the dialog that is there; it is guarded until its
\* keys are typed, and the pane shows what was typed.
RepliesOK(i) ==
    /\ \A j, k \in RepliesTo(i) : j = k
    /\ \A k \in RepliesTo(i) :
          /\ pane[i].dialog.n = replies[k].n
          /\ replies[k].step = "confirm" => pane[i].chosen = Selected(replies[k])
          /\ replies[k].step # "confirm" =>
                pane[i].chosen = Nothing /\ i \in ui.handled /\ OnCourse(i, replies[k])

\* What is selected in a dialog was meant, and for it.
ChosenOK(i) ==
    pane[i].chosen # Nothing =>
        /\ pane[i].dialog.n # 0 /\ pane[i].chosen.n = pane[i].dialog.n
        /\ pane[i].chosen.choice = pane[i].chosen.meant

\* What a tick saw: a dialog that is not guarded has no answer; without one there is
\* none to answer, and no keys but the last are under way.
SeenOK(i) ==
    capture # NoCapture =>
        /\ capture[i].n # 0 /\ i \notin ui.handled => Unanswered(i, capture[i].n)
        /\ capture[i].n = 0 => /\ ~Shown(i)
                               /\ \A k \in RepliesTo(i) : replies[k].step = "confirm"

\* A cursor is moved by an answer only: its dialog stays guarded, also when the answer fails.
CursorOK(i) ==
    pane[i].at # 0 =>
        /\ pane[i].dialog.n # 0 /\ pane[i].chosen = Nothing /\ i \in ui.handled
        /\ capture # NoCapture => capture[i].n # 0

\* Nothing happens to its dialog but what the user answered or decided.
Guarded(i) ==
    /\ RepliesOK(i) /\ ChosenOK(i) /\ SeenOK(i) /\ CursorOK(i)
    /\ Shown(i) => Unanswered(i, ui.perm.n)
    /\ i \notin misled

\* ... unless it was meddled with.
GuardInv == \A i \in Insts \ meddled : Guarded(i)

\* An agent that a step does not touch.
LEMMA GuardKept ==
    ASSUME NEW i \in Insts, Guarded(i), pane'[i] = pane[i], capture' = capture,
           i \in misled' => i \in misled,
           i \in ui.handled => i \in ui'.handled,
           ui'.screen = "permission" /\ ui'.perm.inst = i =>
               ui.screen = "permission" /\ ui'.perm = ui.perm,
           NEW h,
           \A k \in RepliesTo(i)' : h[k] \in RepliesTo(i) /\ replies'[k] = replies[h[k]],
           \A j, k \in RepliesTo(i)' : h[j] = h[k] => j = k
    PROVE  Guarded(i)'
  <1>1. RepliesTo(i) = {} => RepliesTo(i)' = {}
    OBVIOUS
  <1>2. RepliesOK(i)'
    <2>1. \A j, k \in RepliesTo(i)' : j = k
      BY DEF Guarded, RepliesOK
    <2>2. \A k \in RepliesTo(i)' :
          /\ pane'[i].dialog.n = replies'[k].n
          /\ replies'[k].step = "confirm" => pane'[i].chosen = Selected(replies'[k])
          /\ replies'[k].step # "confirm" =>
                /\ pane'[i].chosen = Nothing /\ i \in ui'.handled
                /\ pane'[i].at + replies'[k].taps = Taps(replies'[k].choice)
      BY DEF Guarded, RepliesOK, OnCourse
    <2>3. QED
      BY <2>1, <2>2 DEF RepliesOK, Selected, OnCourse
  <1>3. \A n : Unanswered(i, n) => Unanswered(i, n)'
    BY <1>1 DEF Unanswered
  <1>4. ChosenOK(i)'
    BY DEF Guarded, ChosenOK
  <1>5. Shown(i)' => Shown(i) /\ ui'.perm = ui.perm
    BY DEF Shown
  <1>6. SeenOK(i)'
    BY <1>3, <1>5 DEF Guarded, SeenOK
  <1>7. CursorOK(i)'
    BY DEF Guarded, CursorOK
  <1>8. QED
    BY <1>2, <1>3, <1>4, <1>5, <1>6, <1>7 DEF Guarded

\* ... nor the answers on their way.
LEMMA GuardLeftAlone ==
    ASSUME NEW i \in Insts, Guarded(i), pane'[i] = pane[i], capture' = capture,
           i \in misled' => i \in misled,
           i \in ui.handled => i \in ui'.handled,
           ui'.screen = "permission" /\ ui'.perm.inst = i =>
               ui.screen = "permission" /\ ui'.perm = ui.perm,
           replies' = replies
    PROVE  Guarded(i)'
  <1> DEFINE h == [k \in DOMAIN replies |-> k]
  <1>1. RepliesTo(i)' = RepliesTo(i) /\ RepliesTo(i) \subseteq DOMAIN replies
    BY DEF RepliesTo
  <1>2. /\ \A k \in RepliesTo(i)' : h[k] \in RepliesTo(i) /\ replies'[k] = replies[h[k]]
        /\ \A j, k \in RepliesTo(i)' : h[j] = h[k] => j = k
    BY <1>1
  <1> HIDE DEF h
  <1>3. QED
    BY <1>2, GuardKept

\* Where an entry was before the k-th one was taken out.
Skipping(s, k) == [j \in 1 .. (Len(s) - 1) |-> IF j < k THEN j ELSE j + 1]

\* What is left of a sequence after one entry is taken out.
LEMMA RemovedFacts ==
    ASSUME NEW S, NEW s \in Seq(S), NEW k \in DOMAIN s,
           NEW r, r = RemoveAt(s, k), NEW h, h = Skipping(s, k)
    PROVE  /\ r \in Seq(S)
           /\ \A j \in DOMAIN r : h[j] \in DOMAIN s \ {k} /\ r[j] = s[h[j]]
           /\ \A i, j \in DOMAIN r : h[i] = h[j] => i = j
  <1> DEFINE n == Len(s)
             a == SubSeq(s, 1, k - 1)
             b == SubSeq(s, k + 1, n)
  <1>1. n \in Nat /\ k \in 1 .. n /\ DOMAIN s = 1 .. n
    OBVIOUS
  <1>2. /\ a \in Seq(S) /\ Len(a) = k - 1 /\ \A j \in 1 .. (k - 1) : a[j] = s[j]
    BY <1>1
  <1>3. /\ b \in Seq(S) /\ Len(b) = n - k /\ \A j \in 1 .. (n - k) : b[j] = s[k + j]
    BY <1>1
  <1>4. r = a \o b
    BY DEF RemoveAt
  <1>0. h = [j \in 1 .. (n - 1) |-> IF j < k THEN j ELSE j + 1]
    BY DEF Skipping
  <1> HIDE DEF n, a, b
  <1>5. r \in Seq(S) /\ Len(r) = n - 1 /\ DOMAIN r = 1 .. (n - 1)
    <2>0. a \in Seq(S) /\ b \in Seq(S)
      BY <1>2, <1>3
    <2>1. r \in Seq(S) /\ Len(r) = Len(a) + Len(b)
      BY ONLY <2>0, <1>4
    <2>2. Len(r) = n - 1
      BY ONLY <1>1, <1>2, <1>3, <2>1
    <2>3. DOMAIN r = 1 .. Len(r)
      BY <2>1
    <2>4. QED
      BY <2>1, <2>2, <2>3
  <1>6. \A j \in 1 .. (n - 1) : r[j] = IF j < k THEN s[j] ELSE s[j + 1]
    <2> SUFFICES ASSUME NEW j \in 1 .. (n - 1)
                 PROVE  r[j] = IF j < k THEN s[j] ELSE s[j + 1]
      OBVIOUS
    <2>1. CASE j < k
      <3>1. j \in 1 .. Len(a)
        BY <1>1, <1>2, <2>1
      <3>2. r[j] = a[j]
        BY <1>2, <1>3, <1>4, <3>1
      <3>3. QED
        BY <1>2, <2>1, <3>1, <3>2
    <2>2. CASE ~(j < k)
      <3>1. j \in (Len(a) + 1) .. (Len(a) + Len(b)) /\ j - Len(a) \in 1 .. (n - k)
        BY <1>1, <1>2, <1>3, <2>2
      <3>2. r[j] = b[j - Len(a)]
        <4>1. a \in Seq(S) /\ b \in Seq(S)
          BY <1>2, <1>3
        <4>2. QED
          BY ONLY <1>4, <3>1, <4>1
      <3>3. k + (j - Len(a)) = j + 1
        BY <1>1, <1>2
      <3>4. QED
        BY <1>3, <2>2, <3>1, <3>2, <3>3
    <2>3. QED
      BY <2>1, <2>2
  <1>7. \A j \in 1 .. (n - 1) : h[j] \in (1 .. n) \ {k} /\ r[j] = s[h[j]]
    BY <1>0, <1>1, <1>6
  <1>8. \A i, j \in 1 .. (n - 1) : h[i] = h[j] => i = j
    BY <1>0, <1>1
  <1>9. QED
    BY <1>1, <1>5, <1>7, <1>8

\* The types of an agent's pane.
LEMMA PaneTypes ==
    /\ NoDlg \in Dlg /\ NoDlg.n = 0 /\ Nothing.choice = "none"
    /\ NoAsk \in Pane /\ NoAsk.at = 0 /\ NoAsk.chosen = Nothing /\ NoAsk.dialog.n = 0
    /\ MaxAsks \in Nat
  BY PermissionAssumption DEF NoDlg, Dlg, Nothing, NoAsk, Pane, Answers

\* A step of the screens that leaves the agents alone.
LEMMA WentGuards ==
    ASSUME Went, GuardInv
    PROVE  GuardInv'
  <1> SUFFICES ASSUME NEW i \in Insts \ meddled' PROVE Guarded(i)'
    BY DEF GuardInv
  <1>1. i \in Insts \ meddled /\ UNCHANGED permVars
    BY DEF Went, permVars
  <1>2. Guarded(i)
    BY <1>1 DEF GuardInv
  <1>3. QED
    BY <1>1, <1>2, GuardLeftAlone DEF Went, Frame, permVars

\* One in which an agent goes: what was asked of it, or answered, is forgotten with it.
LEMMA ForgetGuards ==
    ASSUME PermTypeOK, NEW a, WentWithout(a), GuardInv
    PROVE  GuardInv' /\ PermTypeOK'
  <1>1. /\ pane' = [j \in Insts |-> IF j = a THEN NoAsk ELSE pane[j]]
        /\ queued' = queued \ {a} /\ enters' = enters
        /\ meddled' = meddled \cup {j \in {a} \cap Insts :
                Open(j) \/ replies # << >> \/ (capture # NoCapture /\ capture[j] # NoDlg)}
        /\ asked' = asked /\ capture' = capture /\ replies' = replies /\ allowed' = allowed
        /\ misled' = misled
    BY DEF WentWithout, Forget
  <1>2. /\ ui'.handled = ui.handled \ {a}
        /\ ui'.screen = "permission" => ui.screen = "permission" /\ ui'.perm = ui.perm
    BY DEF WentWithout, FrameBut
  <1>3. PermTypeOK'
    <2>1. pane' \in [Insts -> Pane]
      BY <1>1, PaneTypes DEF PermTypeOK
    <2>2. meddled' \subseteq Insts
      BY <1>1 DEF PermTypeOK
    <2>3. QED
      BY <1>1, <2>1, <2>2 DEF PermTypeOK
  <1>4. GuardInv'
    <2> SUFFICES ASSUME NEW i \in Insts \ meddled' PROVE Guarded(i)'
      BY DEF GuardInv
    <2>1. i \in Insts \ meddled /\ Guarded(i)
      BY <1>1 DEF GuardInv
    <2>2. CASE i # a
      <3>1. pane'[i] = pane[i]
        BY <1>1, <2>2
      <3>2. QED
        BY <1>1, <1>2, <2>1, <2>2, <3>1, GuardLeftAlone
    <2>3. CASE i = a
      <3>1. ~Open(i) /\ replies = << >> /\ (capture # NoCapture => capture[i] = NoDlg)
        BY <1>1, <2>1, <2>3
      <3>2. pane'[i].chosen = Nothing /\ pane'[i].at = 0
        BY <1>1, <2>1, <2>3, PaneTypes
      <3>3. RepliesTo(i)' = {} /\ RepliesTo(i) = {}
        BY <1>1, <3>1 DEF RepliesTo
      <3>4. ~Shown(i)
        BY <2>1, <3>1 DEF Guarded, Unanswered, Open, Shown
      <3>5. ~Shown(i)'
        BY <1>2, <3>4 DEF Shown
      <3>6. capture' # NoCapture => capture'[i].n = 0
        BY <1>1, <3>1, PaneTypes
      <3>7. RepliesOK(i)' /\ ChosenOK(i)' /\ SeenOK(i)' /\ CursorOK(i)'
        BY <3>2, <3>3, <3>5, <3>6 DEF RepliesOK, ChosenOK, SeenOK, CursorOK
      <3>8. QED
        BY <1>1, <2>1, <3>5, <3>7 DEF Guarded
    <2>4. QED
      BY <2>2, <2>3
  <1>5. QED
    BY <1>3, <1>4

\* A tick.
LEMMA TickGuards ==
    ASSUME PermTypeOK, Tick, NEW a, Ticked(a), replies' = replies \o a, GuardInv
    PROVE  GuardInv' /\ PermTypeOK'
  <1>1. /\ capture # NoCapture /\ capture' = NoCapture
        /\ pane' = pane /\ asked' = asked /\ allowed' = allowed /\ meddled' = meddled
        /\ misled' = misled
    BY DEF Tick
  <1>0. queued' \subseteq Insts /\ enters' \in [Insts -> Nat]
    <2>1. PICK idle, ready : Tapped(idle, ready)
      BY DEF Tick
    <2>2. enters \in [Insts -> Nat] /\ queued \subseteq Insts
      BY DEF PermTypeOK
    <2>3. QED
      BY <2>1, <2>2 DEF Tapped
  <1>2. replies \in Seq(Reply) /\ a \in Seq(Reply) /\ capture \in [Insts -> Dlg]
    BY <1>1 DEF PermTypeOK, Ticked
  <1>3. PermTypeOK'
    <2>1. replies' \in Seq(Reply)
      BY <1>2
    <2>2. QED
      BY <1>0, <1>1, <2>1 DEF PermTypeOK
  <1> DEFINE N == Len(replies)
             M == Len(a)
  <1>4. /\ N \in Nat /\ M \in Nat /\ DOMAIN replies = 1 .. N /\ DOMAIN a = 1 .. M
        /\ DOMAIN replies' = 1 .. (N + M)
        /\ \A k \in 1 .. N : replies'[k] = replies[k]
        /\ \A k \in (N + 1) .. (N + M) : replies'[k] = a[k - N] /\ k - N \in 1 .. M
    <2>1. N \in Nat /\ M \in Nat /\ DOMAIN replies = 1 .. N /\ DOMAIN a = 1 .. M
      BY <1>2
    <2>2. DOMAIN replies' = 1 .. (N + M)
      BY <1>2
    <2>3. \A k \in 1 .. N : replies'[k] = replies[k]
      BY <1>2
    <2>4. \A k \in (N + 1) .. (N + M) : k - N \in 1 .. M
      BY <2>1
    <2>5. \A k \in (N + 1) .. (N + M) : replies'[k] = a[k - N]
      BY <1>2
    <2>6. QED
      BY <2>1, <2>2, <2>3, <2>4, <2>5
  <1> HIDE DEF N, M
  <1>5. \A k \in DOMAIN replies' : \/ k \in DOMAIN replies /\ replies'[k] = replies[k]
                                   \/ k \notin DOMAIN replies /\ k - N \in DOMAIN a
                                      /\ replies'[k] = a[k - N]
    BY <1>4
  <1>6. GuardInv'
    <2> SUFFICES ASSUME NEW i \in Insts \ meddled' PROVE Guarded(i)'
      BY DEF GuardInv
    <2>1. i \in Insts \ meddled /\ Guarded(i)
      BY <1>1 DEF GuardInv
    <2>2. /\ capture[i].n # 0 /\ i \notin ui.handled => Unanswered(i, capture[i].n)
          /\ capture[i].n = 0 => \A k \in RepliesTo(i) : replies[k].step = "confirm"
          /\ capture[i].n = 0 => ~Shown(i)
          /\ RepliesOK(i)
          /\ pane[i].at # 0 => capture[i].n # 0
      BY <1>1, <2>1 DEF Guarded, SeenOK, CursorOK
    <2>3. CASE \E k \in DOMAIN a : a[k].inst = i
      <3>1. PICK k \in DOMAIN a : a[k].inst = i
        BY <2>3
      <3>2. /\ a[k] \in Reply /\ Approval(a[k]) /\ a[k].n = capture[i].n /\ a[k].n # 0
            /\ i \notin ui.handled /\ i \in ui'.handled
        <4>1. a[k] \in Reply
          BY <1>2, <3>1
        <4>2. a[k].n # 0
          BY <4>1, PaneTypes DEF Reply
        <4>3. QED
          BY <3>1, <4>1, <4>2 DEF Ticked
      <3>3. Unanswered(i, capture[i].n)
        BY <2>2, <3>2
      <3>4. \A j \in RepliesTo(i)' : j \notin DOMAIN replies /\ j - N = k
                                     /\ replies'[j] = a[k]
        <4> SUFFICES ASSUME NEW j \in RepliesTo(i)'
                     PROVE  j \notin DOMAIN replies /\ j - N = k /\ replies'[j] = a[k]
          OBVIOUS
        <4>1. j \in DOMAIN replies' /\ replies'[j].inst = i
          BY DEF RepliesTo
        <4>2. j \notin DOMAIN replies
          BY <1>5, <3>3, <4>1 DEF Unanswered, RepliesTo
        <4>3. j - N \in DOMAIN a /\ replies'[j] = a[j - N]
          BY <1>5, <4>1, <4>2
        <4>4. j - N = k
          BY <3>1, <4>1, <4>3 DEF Ticked
        <4>5. QED
          BY <4>2, <4>3, <4>4
      <3>5. \A j, l \in RepliesTo(i)' : j = l
        <4> SUFFICES ASSUME NEW j \in RepliesTo(i)', NEW l \in RepliesTo(i)' PROVE j = l
          OBVIOUS
        <4>1. j - N = l - N
          BY <3>4
        <4>2. j \in Nat /\ l \in Nat /\ N \in Nat
          <5>1. j \in DOMAIN replies' /\ l \in DOMAIN replies'
            BY DEF RepliesTo
          <5>2. QED
            BY <1>4, <5>1
        <4>3. QED
          BY <4>1, <4>2
      <3>6. RepliesOK(i)'
        <4>1. \A j \in RepliesTo(i)' :
              /\ pane'[i].dialog.n = replies'[j].n
              /\ replies'[j].step = "approve"
              /\ pane'[i].chosen = Nothing /\ i \in ui'.handled
              /\ pane'[i].at + replies'[j].taps = Taps(replies'[j].choice)
          <5>1. pane'[i].at = 0 /\ a[k].taps = Taps(a[k].choice) /\ a[k].taps \in Nat
            BY <1>1, <3>2, <3>3 DEF Unanswered, Approval, Reply
          <5>2. pane'[i].at + a[k].taps = Taps(a[k].choice)
            BY <5>1
          <5>3. pane'[i].dialog.n = a[k].n /\ pane'[i].chosen = Nothing
            BY <1>1, <3>2, <3>3 DEF Unanswered
          <5>4. a[k].step = "approve"
            BY <3>2 DEF Approval
          <5>5. QED
            BY <3>2, <3>4, <5>2, <5>3, <5>4
        <4>2. QED
          BY <3>5, <4>1 DEF RepliesOK, OnCourse
      <3>7. ~Shown(i)'
        BY <1>4, <3>1, <3>2 DEF Ticked, Shown
      <3>8. ChosenOK(i)' /\ SeenOK(i)' /\ CursorOK(i)'
        BY <1>1, <2>1, <3>3 DEF Guarded, ChosenOK, SeenOK, CursorOK, Unanswered
      <3>9. QED
        BY <1>1, <2>1, <3>6, <3>7, <3>8 DEF Guarded
    <2>4. CASE ~\E k \in DOMAIN a : a[k].inst = i
      <3>1. \A j \in RepliesTo(i)' : j \in RepliesTo(i) /\ replies'[j] = replies[j]
        <4> SUFFICES ASSUME NEW j \in RepliesTo(i)'
                     PROVE  j \in RepliesTo(i) /\ replies'[j] = replies[j]
          OBVIOUS
        <4>1. j \in DOMAIN replies' /\ replies'[j].inst = i
          BY DEF RepliesTo
        <4>2. j \in DOMAIN replies /\ replies'[j] = replies[j]
          BY <1>5, <2>4, <4>1
        <4>3. QED
          BY <4>1, <4>2 DEF RepliesTo
      <3>2. i \in ui.handled /\ i \notin ui'.handled => capture[i].n = 0
        BY DEF Ticked
      <3>3. RepliesOK(i)'
        <4>1. \A j, k \in RepliesTo(i)' : j = k
          BY <2>2, <3>1 DEF RepliesOK
        <4>2. \A k \in RepliesTo(i)' :
              /\ pane'[i].dialog.n = replies'[k].n
              /\ replies'[k].step = "confirm" => pane'[i].chosen = Selected(replies'[k])
              /\ replies'[k].step # "confirm" =>
                    /\ pane'[i].chosen = Nothing /\ i \in ui'.handled
                    /\ pane'[i].at + replies'[k].taps = Taps(replies'[k].choice)
          BY <1>1, <2>2, <3>1, <3>2 DEF RepliesOK, OnCourse
        <4>3. QED
          BY <4>1, <4>2 DEF RepliesOK, Selected, OnCourse
      <3>4. ChosenOK(i)' /\ SeenOK(i)' /\ CursorOK(i)'
        <4>1. ChosenOK(i)' /\ SeenOK(i)'
          BY <1>1, <2>1 DEF Guarded, ChosenOK, SeenOK
        <4>2. CursorOK(i)'
          BY <1>1, <2>1, <2>2, <3>2 DEF Guarded, CursorOK
        <4>3. QED
          BY <4>1, <4>2
      <3>5. \A n : Unanswered(i, n) => Unanswered(i, n)'
        BY <1>1, <3>1 DEF Unanswered
      <3>6. Shown(i)' => Unanswered(i, ui.perm.n)'
        <4> SUFFICES ASSUME Shown(i)' PROVE Unanswered(i, ui.perm.n)'
          OBVIOUS
        <4>1. CASE ui.screen = "permission" /\ ui'.perm = ui.perm
          <5>1. Shown(i)
            BY <4>1 DEF Shown
          <5>2. Unanswered(i, ui.perm.n)
            BY <2>1, <5>1 DEF Guarded
          <5>3. QED
            BY <3>5, <4>1, <5>2 DEF Unanswered
        <4>2. CASE /\ ui'.perm.inst \in Insts /\ ui'.perm.n = capture[ui'.perm.inst].n
                   /\ ui'.perm.n # 0
                   /\ ui'.perm.inst \notin ui.handled /\ ui'.perm.inst \notin ui'.handled
          <5>1. ui'.perm.inst = i
            BY DEF Shown
          <5>2. Unanswered(i, capture[i].n)
            BY <2>2, <4>2, <5>1
          <5>3. QED
            BY <3>5, <4>2, <5>1, <5>2 DEF Unanswered
        <4>3. QED
          BY <4>1, <4>2 DEF Ticked, Shown
      <3>7. QED
        BY <1>1, <2>1, <3>3, <3>4, <3>6 DEF Guarded
    <2>5. QED
      BY <2>3, <2>4
  <1>7. QED
    BY <1>3, <1>6

----------------------------------------------------------------------------
(* The guards, when agents ask and the user answers *)

\* What is guarded of an agent that no step of another touches.
LEMMA GuardApart ==
    ASSUME PermTypeOK, NEW i \in Insts, Guarded(i), pane'[i] = pane[i], capture' = capture,
           i \in misled' => i \in misled,
           i \in ui.handled => i \in ui'.handled,
           ui'.screen = "permission" /\ ui'.perm.inst = i =>
               ui.screen = "permission" /\ ui'.perm = ui.perm,
           \A k \in RepliesTo(i)' : k \in RepliesTo(i) /\ replies'[k] = replies[k]
    PROVE  Guarded(i)'
  <1> DEFINE h == [k \in RepliesTo(i)' |-> k]
  <1>1. /\ \A k \in RepliesTo(i)' : h[k] \in RepliesTo(i) /\ replies'[k] = replies[h[k]]
        /\ \A j, k \in RepliesTo(i)' : h[j] = h[k] => j = k
    OBVIOUS
  <1> HIDE DEF h
  <1>2. QED
    BY <1>1, GuardKept

\* The types of the answers.
LEMMA ReplyTypes ==
    ASSUME PermTypeOK
    PROVE  /\ replies \in Seq(Reply)
           /\ \A k \in DOMAIN replies :
                 /\ replies[k] \in Reply /\ replies[k].inst \in Insts
                 /\ replies[k].n \in 1 .. MaxAsks /\ replies[k].n # 0
                 /\ replies[k].choice \in Answers /\ replies[k].choice # "none"
                 /\ replies[k].taps \in 0 .. 2
                 /\ Selected(replies[k]) # Nothing
  <1>1. replies \in Seq(Reply)
    BY DEF PermTypeOK
  <1>2. ASSUME NEW k \in DOMAIN replies PROVE replies[k] \in Reply
    BY <1>1
  <1>3. ASSUME NEW r \in Reply
        PROVE  /\ r.inst \in Insts /\ r.n \in 1 .. MaxAsks /\ r.n # 0 /\ r.taps \in 0 .. 2
               /\ r.choice \in Answers /\ r.choice # "none" /\ Selected(r) # Nothing
    <2>1. /\ r.inst \in Insts /\ r.n \in 1 .. MaxAsks /\ r.choice \in Answers
          /\ r.taps \in 0 .. 2
      BY DEF Reply
    <2>2. r.n # 0
      BY <2>1, PaneTypes
    <2>3. r.choice # "none"
      BY <2>1 DEF Answers
    <2>4. Selected(r).choice = r.choice /\ Nothing.choice = "none"
      BY DEF Selected, Nothing
    <2>5. QED
      BY <2>1, <2>2, <2>3, <2>4
  <1>4. QED
    BY <1>1, <1>2, <1>3

\* An agent asks.
LEMMA AskGuards ==
    ASSUME PermTypeOK, NEW a \in Insts, NEW key \in Keys \cup {NoKey}, Ask(a, key), GuardInv
    PROVE  GuardInv' /\ PermTypeOK'
  <1> DEFINE d == [n |-> asked + 1, key |-> key]
  <1>1. /\ ~Open(a) /\ asked < MaxAsks /\ asked' = asked + 1
        /\ pane' = [pane EXCEPT ![a].dialog = d]
        /\ UNCHANGED <<ui, queued, enters, capture, replies, allowed, meddled, misled>>
    BY DEF Ask
  <1>2. asked + 1 \in 0 .. MaxAsks /\ asked + 1 # 0
    BY <1>1, PaneTypes DEF PermTypeOK
  <1>3. d \in Dlg
    BY <1>2 DEF Dlg
  <1>4. d.n # 0
    BY <1>2
  <1> HIDE DEF d
  <1>5. pane \in [Insts -> Pane]
    BY DEF PermTypeOK
  <1>6. /\ pane'[a].dialog = d /\ pane'[a].chosen = pane[a].chosen /\ pane'[a].at = pane[a].at
        /\ \A i \in Insts \ {a} : pane'[i] = pane[i]
    BY <1>1, <1>5 DEF Pane
  <1>7. pane' \in [Insts -> Pane]
    BY <1>1, <1>3, <1>5 DEF Pane
  <1>8. PermTypeOK'
    BY <1>1, <1>2, <1>7 DEF PermTypeOK
  <1>9. ASSUME NEW i \in Insts \ meddled' PROVE Guarded(i)'
    <2>1. i \in Insts \ meddled /\ Guarded(i)
      BY <1>1, <1>9 DEF GuardInv
    <2>2. CASE i # a
      <3>1. pane'[i] = pane[i]
        BY <1>6, <2>1, <2>2
      <3>2. QED
        BY <1>1, <2>1, <3>1, GuardLeftAlone
    <2>3. CASE i = a
      <3>1. pane[a].dialog.n = 0
        BY <1>1 DEF Open
      <3>2. RepliesTo(i) = {}
        BY <2>1, <2>3, <3>1, ReplyTypes DEF Guarded, RepliesOK, RepliesTo
      <3>3. RepliesTo(i)' = {}
        BY <1>1, <3>2 DEF RepliesTo
      <3>4. pane[i].chosen = Nothing /\ \A n : ~Unanswered(i, n)
        BY <2>1, <2>3, <3>1 DEF Guarded, ChosenOK, Unanswered
      <3>5. pane'[i].chosen = Nothing /\ pane'[i].at = 0
        BY <1>6, <2>1, <2>3, <3>1, <3>4 DEF Guarded, CursorOK
      <3>6. ~Shown(i)'
        BY <1>1, <2>1, <3>4 DEF Guarded, Shown
      <3>7. capture' # NoCapture => (capture'[i].n # 0 => i \in ui'.handled)
        BY <1>1, <2>1, <3>4 DEF Guarded, SeenOK
      <3>8. RepliesOK(i)' /\ ChosenOK(i)' /\ SeenOK(i)' /\ CursorOK(i)'
        BY <3>3, <3>5, <3>6, <3>7 DEF RepliesOK, ChosenOK, SeenOK, CursorOK
      <3>9. QED
        BY <1>1, <2>1, <3>6, <3>8 DEF Guarded
    <2>4. QED
      BY <2>2, <2>3
  <1>10. QED
    BY <1>8, <1>9 DEF GuardInv

\* The user answers in the agent's terminal.
LEMMA ByHandGuards ==
    ASSUME PermTypeOK, NEW a \in Insts, AnswerByHand(a), GuardInv
    PROVE  GuardInv' /\ PermTypeOK'
  <1>1. /\ pane' = [pane EXCEPT ![a] = NoAsk]
        /\ meddled' = meddled \cup {a}
        /\ UNCHANGED <<ui, queued, enters, asked, capture, replies, allowed, misled>>
    BY DEF AnswerByHand
  <1>2. pane \in [Insts -> Pane]
    BY DEF PermTypeOK
  <1>3. pane' \in [Insts -> Pane]
    BY <1>1, <1>2, PaneTypes
  <1>4. PermTypeOK'
    BY <1>1, <1>3 DEF PermTypeOK
  <1>5. ASSUME NEW i \in Insts \ meddled' PROVE Guarded(i)'
    <2>1. i \in Insts /\ i # a /\ Guarded(i)
      BY <1>1, <1>5 DEF GuardInv
    <2>2. pane'[i] = pane[i]
      BY <1>1, <1>2, <2>1
    <2>3. QED
      BY <1>1, <2>1, <2>2, GuardLeftAlone
  <1>6. QED
    BY <1>4, <1>5 DEF GuardInv

\* The panes are captured.
LEMMA CollectGuards ==
    ASSUME PermTypeOK, NEW missed \in SUBSET Insts, Collect(missed), GuardInv
    PROVE  GuardInv' /\ PermTypeOK'
  <1>1. /\ capture' = [i \in Insts |->
               IF i \in missed \/ pane[i].chosen # Nothing THEN NoDlg ELSE pane[i].dialog]
        /\ meddled' = meddled \cup missed
        /\ UNCHANGED <<ui, pane, queued, enters, asked, replies, allowed, misled>>
    BY DEF Collect
  <1>2. \A i \in Insts : pane[i] \in Pane /\ pane[i].dialog \in Dlg
    BY DEF PermTypeOK, Pane
  <1>3. capture' \in [Insts -> Dlg]
    BY <1>1, <1>2, PaneTypes
  <1>4. PermTypeOK'
    BY <1>1, <1>3 DEF PermTypeOK
  <1>5. ASSUME NEW i \in Insts \ meddled' PROVE Guarded(i)'
    <2>1. i \in Insts /\ i \notin missed /\ Guarded(i)
      BY <1>1, <1>5 DEF GuardInv
    <2>2. RepliesTo(i)' = RepliesTo(i)
      BY <1>1 DEF RepliesTo
    <2>3. RepliesOK(i)' /\ ChosenOK(i)' /\ CursorOK(i)'
      <3>1. RepliesOK(i)'
        BY <1>1, <2>1, <2>2 DEF Guarded, RepliesOK, Selected, OnCourse
      <3>2. ChosenOK(i)'
        BY <1>1, <2>1 DEF Guarded, ChosenOK
      <3>3. CursorOK(i)'
        BY <1>1, <2>1 DEF Guarded, CursorOK
      <3>4. QED
        BY <3>1, <3>2, <3>3
    <2>4. Shown(i)' <=> Shown(i)
      BY <1>1 DEF Shown
    <2>5. Shown(i) => Unanswered(i, ui.perm.n)
      BY <2>1 DEF Guarded
    <2>6. \A n : Unanswered(i, n) => Unanswered(i, n)'
      BY <1>1, <2>2 DEF Unanswered
    <2>7. \A k \in RepliesTo(i) :
             /\ k \in DOMAIN replies /\ pane[i].dialog.n = replies[k].n /\ replies[k].n # 0
             /\ replies[k].step = "confirm" => pane[i].chosen # Nothing
             /\ replies[k].step # "confirm" => pane[i].chosen = Nothing /\ i \in ui.handled
      <3> SUFFICES ASSUME NEW k \in RepliesTo(i)
                   PROVE
             /\ k \in DOMAIN replies /\ pane[i].dialog.n = replies[k].n /\ replies[k].n # 0
             /\ replies[k].step = "confirm" => pane[i].chosen # Nothing
             /\ replies[k].step # "confirm" => pane[i].chosen = Nothing /\ i \in ui.handled
        OBVIOUS
      <3>1. k \in DOMAIN replies
        BY DEF RepliesTo
      <3>2. replies[k].n # 0 /\ Selected(replies[k]) # Nothing
        BY <3>1, ReplyTypes
      <3>3. QED
        BY <2>1, <3>1, <3>2 DEF Guarded, RepliesOK
    <2>8. ASSUME capture'[i].n # 0, i \notin ui.handled PROVE Unanswered(i, capture'[i].n)
      <3>1. pane[i].chosen = Nothing /\ capture'[i] = pane[i].dialog
        BY <1>1, <2>1, <2>8, PaneTypes
      <3>2. RepliesTo(i) = {}
        BY <2>7, <2>8, <3>1
      <3>3. pane[i].at = 0
        BY <2>1, <2>8 DEF Guarded, CursorOK
      <3>4. QED
        BY <2>8, <3>1, <3>2, <3>3 DEF Unanswered
    <2>9. ASSUME capture'[i].n = 0
          PROVE  ~Shown(i) /\ \A k \in RepliesTo(i) : replies[k].step = "confirm"
      <3>1. pane[i].chosen # Nothing \/ pane[i].dialog.n = 0
        BY <1>1, <2>1, <2>9
      <3>2. ~Shown(i)
        BY <2>5, <3>1 DEF Unanswered
      <3>3. \A k \in RepliesTo(i) : replies[k].step = "confirm"
        BY <2>7, <3>1
      <3>4. QED
        BY <3>2, <3>3
    <2>10. SeenOK(i)'
      <3>1. capture'[i].n # 0 /\ i \notin ui'.handled => Unanswered(i, capture[i].n)'
        BY <1>1, <2>6, <2>8 DEF Unanswered
      <3>2. capture'[i].n = 0 =>
               ~Shown(i)' /\ \A k \in RepliesTo(i)' : replies'[k].step = "confirm"
        BY <1>1, <2>2, <2>4, <2>9
      <3>3. QED
        BY <3>1, <3>2 DEF SeenOK
    <2>11. Shown(i)' => Unanswered(i, ui.perm.n)'
      BY <1>1, <2>2, <2>4, <2>5 DEF Unanswered
    <2>12. QED
      BY <1>1, <2>1, <2>3, <2>10, <2>11 DEF Guarded
  <1>6. QED
    BY <1>4, <1>5 DEF GuardInv

\* What the permission screen leaves when it closes.
LEMMA AnsweredFacts ==
    ASSUME ScreenInv, ui.screen = "permission", NEW choice,
           ui' = Answered([ui EXCEPT !.did = {}], choice)
    PROVE  /\ ui.perm.inst \in Insts /\ ui.perm.n \in 1 .. MaxAsks
           /\ ui'.screen = "default" /\ ui'.handled = ui.handled \cup {ui.perm.inst}
  <1>1. ui \in Home /\ ui.perm.inst \in Insts /\ ui.perm.n # 0
    BY UiIsHome DEF ScreenInv, ScreenOK, FieldsOK
  <1>2. ui.perm.n \in 0 .. MaxAsks
    BY <1>1 DEF Home
  <1>3. ui.perm.n \in 1 .. MaxAsks
    BY <1>1, <1>2, PaneTypes
  <1>4. ui'.screen = "default" /\ ui'.handled = ui.handled \cup {ui.perm.inst}
    <2> DEFINE n == [ui EXCEPT !.did = {}]
    <2>1. n \in Home /\ n.handled = ui.handled /\ n.perm = ui.perm
      BY <1>1 DEF Home
    <2> HIDE DEF n
    <2>2. ui' = [n EXCEPT !.screen = "default", !.perm = NoPerm,
                          !.handled = @ \cup {n.perm.inst}]
      BY DEF Answered, n
    <2>3. QED
      BY <2>1, <2>2, ZenonT(30) DEF Home
  <1>5. QED
    BY <1>1, <1>3, <1>4

\* The taps reach the button of the answer.
LEMMA TapsFacts ==
    \A c \in Answers : Taps(c) \in 0 .. 2 /\ Buttons[Taps(c) + 1] = c
  BY DEF Answers, Buttons, Taps

\* The user answers in the screen: the guard is there before the keys.
LEMMA AnswerGuards ==
    ASSUME ScreenInv, PermTypeOK, NEW choice \in Answers, AnswerPermission(choice), GuardInv
    PROVE  GuardInv' /\ PermTypeOK'
  <1> DEFINE a == ui.perm.inst
             r == [inst |-> a, choice |-> choice, n |-> ui.perm.n, taps |-> Taps(choice),
                   step |-> "select"]
             N == Len(replies)
  <1>1. /\ ui.screen = "permission" /\ ui' = Answered([ui EXCEPT !.did = {}], choice)
        /\ replies' = Append(replies, r)
        /\ UNCHANGED <<pane, queued, enters, asked, capture, meddled, misled>>
        /\ allowed' \subseteq allowed \cup ({ui.perm.key} \ {NoKey})
    <2>1. allowed \subseteq Keys /\ NoKey \notin Keys
      BY PermissionAssumption DEF PermTypeOK
    <2>2. QED
      BY <2>1 DEF AnswerPermission
  <1>2. /\ a \in Insts /\ ui.perm.n \in 1 .. MaxAsks
        /\ ui'.screen = "default" /\ ui'.handled = ui.handled \cup {a}
    BY <1>1, AnsweredFacts
  <1>3. ui.perm.key \in Keys \cup {NoKey}
    BY UiIsHome DEF ScreenInv, ScreenOK, Home
  <1>4. /\ r \in Reply /\ r.inst = a /\ r.n = ui.perm.n /\ r.step = "select"
        /\ r.taps = Taps(r.choice) /\ r.taps \in 0 .. 2
    BY <1>2, TapsFacts DEF Reply
  <1>5. replies \in Seq(Reply)
    BY DEF PermTypeOK
  <1> HIDE DEF r
  <1>6. replies' \in Seq(Reply)
    BY <1>1, <1>4, <1>5
  <1>7. PermTypeOK'
    BY <1>1, <1>3, <1>6 DEF PermTypeOK
  <1>8. /\ DOMAIN replies = 1 .. N /\ DOMAIN replies' = 1 .. (N + 1) /\ N \in Nat
        /\ \A k \in 1 .. N : replies'[k] = replies[k]
        /\ replies'[N + 1] = r
    BY <1>1, <1>5
  <1> HIDE DEF N
  <1>9. \A k \in DOMAIN replies' : \/ k \in DOMAIN replies /\ replies'[k] = replies[k]
                                   \/ k = N + 1 /\ replies'[k] = r
    BY <1>8
  <1>10. ASSUME NEW i \in Insts \ meddled' PROVE Guarded(i)'
    <2>1. i \in Insts \ meddled /\ Guarded(i)
      BY <1>1, <1>10 DEF GuardInv
    <2>2. ~Shown(i)'
      BY <1>2 DEF Shown
    <2>3. CASE i # a
      <3>1. \A k \in RepliesTo(i)' : k \in RepliesTo(i) /\ replies'[k] = replies[k]
        BY <1>4, <1>9, <2>3 DEF RepliesTo
      <3>2. i \in ui.handled => i \in ui'.handled
        BY <1>2
      <3>3. QED
        BY <1>1, <1>2, <2>1, <3>1, <3>2, GuardApart
    <2>4. CASE i = a
      <3>1. Shown(i) /\ Unanswered(i, ui.perm.n)
        BY <1>1, <2>1, <2>4 DEF Guarded, Shown
      <3>2. \A k \in RepliesTo(i)' : k = N + 1 /\ replies'[k] = r
        BY <1>9, <3>1 DEF Unanswered, RepliesTo
      <3>3. i \in ui'.handled
        BY <1>2, <2>4
      <3>4. RepliesOK(i)'
        <4>1. /\ pane'[i].dialog.n = r.n /\ pane'[i].chosen = Nothing
              /\ pane'[i].at + r.taps = Taps(r.choice)
          BY <1>1, <1>4, <3>1 DEF Unanswered
        <4>2. \A k \in RepliesTo(i)' :
              /\ pane'[i].dialog.n = replies'[k].n
              /\ replies'[k].step = "select"
              /\ pane'[i].chosen = Nothing /\ i \in ui'.handled
              /\ pane'[i].at + replies'[k].taps = Taps(replies'[k].choice)
          BY <1>4, <3>2, <3>3, <4>1
        <4>3. QED
          BY <3>2, <4>2 DEF RepliesOK, OnCourse
      <3>5. ChosenOK(i)' /\ CursorOK(i)'
        BY <1>1, <2>1, <3>1 DEF Guarded, ChosenOK, CursorOK, Unanswered
      <3>6. SeenOK(i)'
        BY <1>1, <2>1, <3>1, <3>3 DEF Guarded, SeenOK
      <3>7. QED
        BY <1>1, <2>1, <2>2, <3>4, <3>5, <3>6 DEF Guarded
    <2>5. QED
      BY <2>3, <2>4
  <1>11. QED
    BY <1>7, <1>10 DEF GuardInv

\* ... or leaves the dialog to the agent's terminal.
LEMMA DismissGuards ==
    ASSUME ScreenInv, PermTypeOK, DismissPermission, GuardInv
    PROVE  GuardInv' /\ PermTypeOK'
  <1>1. ui.screen = "permission" /\ ui' = Answered([ui EXCEPT !.did = {}], "none")
        /\ UNCHANGED permVars
    BY DEF DismissPermission
  <1>2. ui'.screen = "default" /\ ui'.handled = ui.handled \cup {ui.perm.inst}
    BY <1>1, AnsweredFacts
  <1>3. PermTypeOK'
    BY <1>1 DEF PermTypeOK, permVars
  <1>4. ASSUME NEW i \in Insts \ meddled' PROVE Guarded(i)'
    <2>1. i \in Insts \ meddled /\ Guarded(i)
      BY <1>1, <1>4 DEF GuardInv, permVars
    <2>2. QED
      BY <1>1, <1>2, <2>1, GuardLeftAlone DEF permVars
  <1>5. QED
    BY <1>3, <1>4 DEF GuardInv

----------------------------------------------------------------------------
(* The guards, while keys are typed *)

\* One answer, at its next step.
LEMMA ReplyStep ==
    ASSUME NEW p \in Reply, NEW step \in {"approve", "select", "confirm"},
           NEW r, r = [p EXCEPT !.step = step]
    PROVE  /\ r \in Reply /\ r.inst = p.inst /\ r.n = p.n /\ r.step = step
           /\ r.choice = p.choice /\ r.taps = p.taps
  <1>1. /\ p.inst \in Insts /\ p.choice \in Answers /\ p.n \in 1 .. MaxAsks
        /\ p.taps \in 0 .. 2
    BY DEF Reply
  <1>2. r = [inst |-> p.inst, choice |-> p.choice, n |-> p.n, taps |-> p.taps, step |-> step]
    BY DEF Reply
  <1>3. QED
    BY <1>1, <1>2 DEF Reply

\* An answer goes on to its next step.
LEMMA StepTaken ==
    ASSUME PermTypeOK, NEW k \in DOMAIN replies,
           NEW step \in {"approve", "select", "confirm"},
           replies' = [replies EXCEPT ![k].step = step]
    PROVE  /\ replies' \in Seq(Reply) /\ DOMAIN replies' = DOMAIN replies
           /\ \A j \in DOMAIN replies \ {k} : replies'[j] = replies[j]
           /\ replies'[k] = [replies[k] EXCEPT !.step = step]
           /\ replies'[k].inst = replies[k].inst /\ replies'[k].n = replies[k].n
           /\ Selected(replies'[k]) = Selected(replies[k]) /\ replies'[k].step = step
           /\ replies'[k].taps = replies[k].taps /\ replies'[k].choice = replies[k].choice
           /\ \A i \in Insts : RepliesTo(i)' = RepliesTo(i)
  <1> DEFINE r == [replies[k] EXCEPT !.step = step]
  <1>1. replies \in Seq(Reply) /\ replies[k] \in Reply
    BY ReplyTypes
  <1>2. /\ r \in Reply /\ r.inst = replies[k].inst /\ r.n = replies[k].n /\ r.step = step
        /\ r.choice = replies[k].choice /\ r.taps = replies[k].taps
    BY <1>1, ReplyStep
  <1>3. replies' = [replies EXCEPT ![k] = r]
    OBVIOUS
  <1>4. r = [replies[k] EXCEPT !.step = step]
    OBVIOUS
  <1> HIDE DEF r
  <1>5. /\ replies' \in Seq(Reply) /\ DOMAIN replies' = DOMAIN replies /\ replies'[k] = r
        /\ \A j \in DOMAIN replies \ {k} : replies'[j] = replies[j]
    BY <1>1, <1>2, <1>3
  <1>6. Selected(replies'[k]) = Selected(replies[k])
    BY <1>2, <1>5 DEF Selected
  <1>7. \A j \in DOMAIN replies : replies'[j].inst = replies[j].inst
    BY <1>2, <1>5
  <1>8. \A i \in Insts : RepliesTo(i)' = RepliesTo(i)
    BY <1>5, <1>7 DEF RepliesTo
  <1>9. QED
    BY <1>2, <1>4, <1>5, <1>6, <1>8

\* An answer is no longer under way.
LEMMA ReplyGone ==
    ASSUME PermTypeOK, NEW k \in DOMAIN replies, replies' = RemoveAt(replies, k)
    PROVE  /\ replies' \in Seq(Reply)
           /\ \E h : \A i \in Insts :
                 /\ \A j \in RepliesTo(i)' :
                       h[j] \in RepliesTo(i) \ {k} /\ replies'[j] = replies[h[j]]
                 /\ \A j, l \in RepliesTo(i)' : h[j] = h[l] => j = l
  <1>1. replies \in Seq(Reply)
    BY DEF PermTypeOK
  <1> DEFINE h == Skipping(replies, k)
  <1>2. /\ replies' \in Seq(Reply)
        /\ \A j \in DOMAIN replies' :
              h[j] \in DOMAIN replies \ {k} /\ replies'[j] = replies[h[j]]
        /\ \A i, j \in DOMAIN replies' : h[i] = h[j] => i = j
    BY <1>1, RemovedFacts
  <1> HIDE DEF h
  <1>3. \A i \in Insts :
           /\ \A j \in RepliesTo(i)' :
                 h[j] \in RepliesTo(i) \ {k} /\ replies'[j] = replies[h[j]]
           /\ \A j, l \in RepliesTo(i)' : h[j] = h[l] => j = l
    BY <1>2 DEF RepliesTo
  <1>4. QED
    BY <1>2, <1>3

\* The decision kept earlier is to be typed.
LEMMA AutoGuards ==
    ASSUME PermTypeOK, NEW k \in DOMAIN replies, AutoApprove(k), GuardInv
    PROVE  GuardInv' /\ PermTypeOK'
  <1>1. /\ replies[k].step = "approve" /\ replies' = [replies EXCEPT ![k].step = "select"]
        /\ UNCHANGED <<ui, pane, queued, enters, asked, capture, allowed, meddled, misled>>
    BY DEF AutoApprove
  <1>2. /\ replies' \in Seq(Reply)
        /\ \A j \in DOMAIN replies \ {k} : replies'[j] = replies[j]
        /\ replies'[k].n = replies[k].n /\ replies'[k].step = "select"
        /\ replies'[k].taps = replies[k].taps /\ replies'[k].choice = replies[k].choice
        /\ \A i \in Insts : RepliesTo(i)' = RepliesTo(i)
    BY <1>1, StepTaken
  <1>3. PermTypeOK'
    BY <1>1, <1>2 DEF PermTypeOK
  <1>4. ASSUME NEW i \in Insts \ meddled' PROVE Guarded(i)'
    <2>1. i \in Insts \ meddled /\ Guarded(i) /\ RepliesTo(i)' = RepliesTo(i)
      BY <1>1, <1>2, <1>4 DEF GuardInv
    <2>2. \A j \in RepliesTo(i) :
             /\ j \in DOMAIN replies /\ replies'[j].n = replies[j].n
             /\ replies'[j].step = "confirm" <=> replies[j].step = "confirm"
             /\ OnCourse(i, replies[j]) => OnCourse(i, replies[j])'
             /\ j # k => replies'[j] = replies[j]
      BY <1>1, <1>2 DEF RepliesTo, OnCourse
    <2>3. RepliesOK(i)'
      <3>1. \A j, l \in RepliesTo(i)' : j = l
        BY <2>1 DEF Guarded, RepliesOK
      <3>2. \A j \in RepliesTo(i)' :
              /\ pane'[i].dialog.n = replies'[j].n
              /\ replies'[j].step = "confirm" => pane'[i].chosen = Selected(replies'[j])
              /\ replies'[j].step # "confirm" =>
                    pane'[i].chosen = Nothing /\ i \in ui'.handled /\ OnCourse(i, replies[j])'
        <4> SUFFICES ASSUME NEW j \in RepliesTo(i)
                     PROVE
              /\ pane'[i].dialog.n = replies'[j].n
              /\ replies'[j].step = "confirm" => pane'[i].chosen = Selected(replies'[j])
              /\ replies'[j].step # "confirm" =>
                    pane'[i].chosen = Nothing /\ i \in ui'.handled /\ OnCourse(i, replies[j])'
          BY <2>1
        <4>1. CASE j = k
          BY <1>1, <1>2, <2>1, <2>2, <4>1 DEF Guarded, RepliesOK
        <4>2. CASE j # k
          BY <1>1, <2>1, <2>2, <4>2 DEF Guarded, RepliesOK
        <4>3. QED
          BY <4>1, <4>2
      <3>3. QED
        BY <3>1, <3>2 DEF RepliesOK, Selected, OnCourse
    <2>4. ChosenOK(i)' /\ CursorOK(i)'
      BY <1>1, <2>1 DEF Guarded, ChosenOK, CursorOK
    <2>5. Shown(i)' <=> Shown(i)
      BY <1>1 DEF Shown
    <2>6. \A n : Unanswered(i, n) => Unanswered(i, n)'
      BY <1>1, <2>1 DEF Unanswered
    <2>7. SeenOK(i)'
      BY <1>1, <2>1, <2>2, <2>5, <2>6 DEF Guarded, SeenOK
    <2>8. Shown(i)' => Unanswered(i, ui.perm.n)'
      BY <1>1, <2>1, <2>5, <2>6 DEF Guarded, Unanswered
    <2>9. QED
      BY <1>1, <2>1, <2>3, <2>4, <2>7, <2>8 DEF Guarded
  <1>5. QED
    BY <1>3, <1>4 DEF GuardInv

\* What a Right key does to the pane.
LEMMA MoveFacts ==
    ASSUME PermTypeOK, NEW a \in Insts, NEW b \in 0 .. 2,
           pane' = [pane EXCEPT ![a].at = b]
    PROVE  /\ pane' \in [Insts -> Pane]
           /\ pane'[a].dialog = pane[a].dialog /\ pane'[a].chosen = pane[a].chosen
           /\ pane'[a].at = b
           /\ \A i \in Insts \ {a} : pane'[i] = pane[i]
  <1>1. pane \in [Insts -> Pane]
    BY DEF PermTypeOK
  <1>2. QED
    BY <1>1 DEF Pane

\* The cursor moves towards the button of the answer.
LEMMA RightGuards ==
    ASSUME PermTypeOK, NEW k \in DOMAIN replies, TypeRight(k), GuardInv
    PROVE  GuardInv' /\ PermTypeOK'
  <1> DEFINE r == replies[k]
             a == r.inst
             b == pane[a].at
             t == r.taps
  <1>1. /\ r.step = "select" /\ t > 0
        /\ replies' = [replies EXCEPT ![k].taps = t - 1]
        /\ pane' = IF Open(a) /\ pane[a].chosen = Nothing /\ b < Len(Buttons) - 1
                   THEN [pane EXCEPT ![a].at = b + 1] ELSE pane
        /\ UNCHANGED <<ui, queued, enters, asked, capture, allowed, meddled, misled>>
    BY DEF TypeRight
  <1>2. /\ replies \in Seq(Reply) /\ r \in Reply /\ a \in Insts /\ t \in 0 .. 2
        /\ r.n # 0 /\ r.choice \in Answers
    BY ReplyTypes
  <1>3. b \in 0 .. 2 /\ Len(Buttons) = 3
    BY <1>2 DEF PermTypeOK, Pane, Buttons
  <1> DEFINE q == [r EXCEPT !.taps = t - 1]
  <1>4. /\ q \in Reply /\ q.inst = a /\ q.n = r.n /\ q.choice = r.choice /\ q.step = "select"
        /\ q.taps = t - 1
    <2> DEFINE u == t - 1
    <2>1. u \in 0 .. 2
      BY <1>1, <1>2
    <2> HIDE DEF u
    <2>2. QED
      BY <1>1, <1>2, <2>1 DEF Reply, u
  <1>5. replies' = [replies EXCEPT ![k] = q]
    BY <1>1
  <1> HIDE DEF q
  <1>6. /\ replies' \in Seq(Reply) /\ DOMAIN replies' = DOMAIN replies /\ replies'[k] = q
        /\ \A j \in DOMAIN replies \ {k} : replies'[j] = replies[j]
    BY <1>2, <1>4, <1>5
  <1>7. \A i \in Insts : RepliesTo(i)' = RepliesTo(i)
    <2>1. \A j \in DOMAIN replies : replies'[j].inst = replies[j].inst
      BY <1>4, <1>6
    <2>2. QED
      BY <1>6, <2>1 DEF RepliesTo
  <1> HIDE DEF r, b, t
  <1>8. pane' \in [Insts -> Pane] /\ \A i \in Insts \ {a} : pane'[i] = pane[i]
    <2>1. CASE pane' = pane
      BY <2>1 DEF PermTypeOK
    <2>2. CASE b < Len(Buttons) - 1 /\ pane' = [pane EXCEPT ![a].at = b + 1]
      <3>1. b + 1 \in 0 .. 2
        BY <1>3, <2>2
      <3>2. QED
        BY <1>2, <2>2, <3>1, MoveFacts
    <2>3. QED
      BY <1>1, <2>1, <2>2
  <1>9. PermTypeOK'
    BY <1>1, <1>6, <1>8 DEF PermTypeOK
  <1>10. ASSUME NEW i \in Insts \ meddled' PROVE Guarded(i)'
    <2>1. i \in Insts \ meddled /\ Guarded(i) /\ RepliesTo(i)' = RepliesTo(i)
      BY <1>1, <1>7, <1>10 DEF GuardInv
    <2>2. CASE i # a
      <3>1. \A j \in RepliesTo(i)' : j \in RepliesTo(i) /\ replies'[j] = replies[j]
        <4>1. k \notin RepliesTo(i)
          BY <2>2 DEF RepliesTo, r
        <4>2. QED
          BY <1>6, <2>1, <4>1 DEF RepliesTo
      <3>2. QED
        BY <1>1, <1>8, <2>1, <2>2, <3>1, GuardApart
    <2>3. CASE i = a
      <3>1. k \in RepliesTo(i) /\ \A j \in RepliesTo(i)' : j = k
        <4>1. k \in RepliesTo(i)
          BY <2>3 DEF RepliesTo, r
        <4>2. QED
          BY <2>1, <4>1 DEF Guarded, RepliesOK
      <3>2. /\ pane[i].dialog.n = r.n /\ pane[i].chosen = Nothing /\ i \in ui.handled
            /\ b + t = Taps(r.choice)
        BY <1>1, <2>1, <2>3, <3>1 DEF Guarded, RepliesOK, OnCourse, r, b, t
      <3>3. b < Len(Buttons) - 1 /\ b + 1 \in 0 .. 2 /\ (b + 1) + (t - 1) = Taps(r.choice)
        BY <1>1, <1>2, <1>3, <3>2, TapsFacts
      <3>4. pane' = [pane EXCEPT ![a].at = b + 1]
        BY <1>1, <1>2, <2>3, <3>2, <3>3 DEF Open
      <3>5. /\ pane'[i].dialog = pane[i].dialog /\ pane'[i].chosen = pane[i].chosen
            /\ pane'[i].at = b + 1
        BY <2>3, <2>1, <3>3, <3>4, MoveFacts
      <3>6. RepliesOK(i)'
        BY <1>1, <1>4, <1>6, <3>1, <3>2, <3>3, <3>5 DEF RepliesOK, OnCourse
      <3>7. ChosenOK(i)'
        BY <3>2, <3>5 DEF ChosenOK
      <3>8. ~Shown(i)' /\ \A n : ~Unanswered(i, n)
        BY <1>1, <2>1, <3>1 DEF Guarded, Shown, Unanswered
      <3>9. capture # NoCapture => capture[i].n # 0
        BY <1>1, <2>1, <3>1 DEF Guarded, SeenOK, r
      <3>10. SeenOK(i)'
        BY <1>1, <3>2, <3>9 DEF SeenOK
      <3>11. CursorOK(i)'
        BY <1>1, <1>2, <3>2, <3>5, <3>9 DEF CursorOK
      <3>12. QED
        BY <1>1, <2>1, <3>6, <3>7, <3>8, <3>10, <3>11 DEF Guarded
    <2>4. QED
      BY <2>2, <2>3
  <1>11. QED
    BY <1>9, <1>10 DEF GuardInv

\* What an Enter selects.
LEMMA SelectFacts ==
    ASSUME PermTypeOK, NEW a \in Insts, NEW m \in Answers \cup {"none"},
           NEW n \in 0 .. MaxAsks, Select(a, m, n)
    PROVE  /\ pane' \in [Insts -> Pane] /\ misled' = misled
           /\ pane'[a].dialog = pane[a].dialog /\ pane'[a].at = 0
           /\ pane'[a].chosen = [choice |-> Buttons[pane[a].at + 1], meant |-> m, n |-> n]
           /\ \A i \in Insts \ {a} : pane'[i] = pane[i]
  <1> DEFINE c == Buttons[pane[a].at + 1]
             d == [choice |-> c, meant |-> m, n |-> n]
             p == [dialog |-> pane[a].dialog, at |-> 0, chosen |-> d]
  <1>1. pane \in [Insts -> Pane] /\ pane[a] \in Pane
    BY DEF PermTypeOK
  <1>2. c \in Answers
    <2>1. pane[a].at \in 0 .. 2
      BY <1>1 DEF Pane
    <2>2. QED
      BY <2>1 DEF Buttons, Answers
  <1>3. pane' = [pane EXCEPT ![a] = p] /\ misled' = misled
    BY DEF Select
  <1> HIDE DEF c
  <1>4. d \in [choice : Answers \cup {"none"}, meant : Answers \cup {"none"},
               n : 0 .. MaxAsks]
    BY <1>2
  <1>5. d = [choice |-> c, meant |-> m, n |-> n]
    OBVIOUS
  <1> HIDE DEF d
  <1>6. p \in Pane /\ p.dialog = pane[a].dialog /\ p.at = 0 /\ p.chosen = d
    BY <1>1, <1>4 DEF Pane
  <1> HIDE DEF p
  <1>7. QED
    BY <1>1, <1>3, <1>5, <1>6 DEF c

\* A dialog that closes is answered as it was meant, or its agent is misled.
LEMMA CloseFacts ==
    ASSUME PermTypeOK, NEW a \in Insts, Close(a)
    PROVE  /\ pane' \in [Insts -> Pane] /\ misled' \subseteq misled \cup {a}
           /\ misled' \subseteq Insts /\ pane'[a] = NoAsk
           /\ \A i \in Insts \ {a} : pane'[i] = pane[i]
           /\ /\ pane[a].chosen.n = pane[a].dialog.n
              /\ pane[a].chosen.choice = pane[a].chosen.meant
              => misled' = misled
  <1>1. pane \in [Insts -> Pane] /\ misled \subseteq Insts
    BY DEF PermTypeOK
  <1>2. pane' = [pane EXCEPT ![a] = NoAsk]
    BY DEF Close
  <1>3. /\ misled' \subseteq misled \cup {a} /\ misled' \subseteq Insts
        /\ /\ pane[a].chosen.n = pane[a].dialog.n
           /\ pane[a].chosen.choice = pane[a].chosen.meant
           => misled' = misled
    BY <1>1 DEF Close
  <1>4. QED
    BY <1>1, <1>2, <1>3, PaneTypes

\* An Enter touches one agent.
LEMMA EnterFacts ==
    ASSUME PermTypeOK, NEW a \in Insts, NEW m \in Answers \cup {"none"},
           NEW n \in 0 .. MaxAsks, Enter(a, m, n)
    PROVE  /\ pane' \in [Insts -> Pane] /\ misled' \subseteq misled \cup {a}
           /\ misled' \subseteq Insts
           /\ \A i \in Insts \ {a} : pane'[i] = pane[i]
           /\ ~Open(a) => UNCHANGED <<pane, misled>>
  <1>1. pane \in [Insts -> Pane] /\ misled \subseteq Insts
    BY DEF PermTypeOK
  <1>2. CASE ~Open(a)
    BY <1>1, <1>2 DEF Enter
  <1>3. CASE Open(a) /\ Select(a, m, n)
    BY <1>1, <1>3, SelectFacts
  <1>4. CASE Open(a) /\ Close(a)
    BY <1>4, CloseFacts
  <1>5. QED
    BY <1>2, <1>3, <1>4 DEF Enter

\* The Enter after the Right keys.
LEMMA SelectionGuards ==
    ASSUME PermTypeOK, NEW k \in DOMAIN replies, TypeSelection(k), GuardInv
    PROVE  GuardInv' /\ PermTypeOK'
  <1> DEFINE r == replies[k]
             a == r.inst
  <1>1. /\ r.step = "select" /\ r.taps = 0
        /\ replies' = [replies EXCEPT ![k].step = "confirm"]
        /\ Enter(a, r.choice, r.n)
        /\ UNCHANGED <<ui, queued, enters, asked, capture, allowed, meddled>>
    BY DEF TypeSelection
  <1>2. /\ a \in Insts /\ r.n \in 0 .. MaxAsks /\ r.n # 0 /\ r.choice \in Answers
        /\ Taps(r.choice) \in 0 .. 2 /\ Buttons[Taps(r.choice) + 1] = r.choice
    BY ReplyTypes, TapsFacts, PaneTypes
  <1>3. /\ replies' \in Seq(Reply)
        /\ \A j \in DOMAIN replies \ {k} : replies'[j] = replies[j]
        /\ replies'[k].n = r.n /\ replies'[k].step = "confirm"
        /\ Selected(replies'[k]) = Selected(r)
        /\ \A i \in Insts : RepliesTo(i)' = RepliesTo(i)
    BY <1>1, StepTaken
  <1> HIDE DEF r
  <1>4. /\ pane' \in [Insts -> Pane] /\ misled' \subseteq Insts
        /\ misled' \subseteq misled \cup {a}
        /\ \A i \in Insts \ {a} : pane'[i] = pane[i]
    BY <1>1, <1>2, EnterFacts
  <1>5. PermTypeOK'
    BY <1>1, <1>3, <1>4 DEF PermTypeOK
  <1>6. ASSUME NEW i \in Insts \ meddled' PROVE Guarded(i)'
    <2>1. i \in Insts \ meddled /\ Guarded(i) /\ RepliesTo(i)' = RepliesTo(i)
      BY <1>1, <1>3, <1>6 DEF GuardInv
    <2>2. CASE i # a
      <3>1. \A j \in RepliesTo(i)' : j \in RepliesTo(i) /\ replies'[j] = replies[j]
        <4>1. k \notin RepliesTo(i)
          BY <2>2 DEF RepliesTo, r
        <4>2. QED
          BY <1>3, <2>1, <4>1 DEF RepliesTo
      <3>2. i \in misled' => i \in misled
        BY <1>4, <2>2
      <3>3. pane'[i] = pane[i]
        BY <1>4, <2>1, <2>2
      <3>4. QED
        BY <1>1, <2>1, <3>1, <3>2, <3>3, GuardApart
    <2>3. CASE i = a
      <3>1. k \in RepliesTo(i)
        BY <2>3 DEF RepliesTo, r
      <3>2. /\ pane[i].dialog.n = r.n /\ pane[i].chosen = Nothing
            /\ pane[i].at + r.taps = Taps(r.choice)
        BY <1>1, <2>1, <3>1 DEF Guarded, RepliesOK, OnCourse, r
      <3>3. \A n : ~Unanswered(i, n)
        BY <3>1 DEF Unanswered
      <3>4. ~Shown(i)
        BY <2>1, <3>3 DEF Guarded
      <3>5. Select(a, r.choice, r.n)
        BY <1>1, <1>2, <2>3, <3>2 DEF Open, Enter
      <3>6. Buttons[pane[i].at + 1] = r.choice
        <4>1. pane[i].at \in 0 .. 2
          BY <2>1 DEF PermTypeOK, Pane
        <4>2. pane[i].at = Taps(r.choice)
          BY <1>1, <1>2, <3>2, <4>1
        <4>3. QED
          BY <1>2, <4>2
      <3>7. /\ pane'[i].dialog = pane[i].dialog /\ pane'[i].at = 0 /\ misled' = misled
            /\ pane'[i].chosen = [choice |-> r.choice, meant |-> r.choice, n |-> r.n]
        BY <1>2, <2>3, <3>5, <3>6, SelectFacts
      <3>8. RepliesOK(i)'
        <4>1. \A j \in RepliesTo(i)' : j = k
          BY <2>1, <3>1 DEF Guarded, RepliesOK
        <4>2. pane'[i].chosen = Selected(replies'[k])
          BY <1>3, <3>7 DEF Selected
        <4>3. /\ pane'[i].dialog.n = replies'[k].n
              /\ replies'[k].step = "confirm"
          BY <1>3, <3>2, <3>7
        <4>4. QED
          BY <4>1, <4>2, <4>3 DEF RepliesOK, Selected
      <3>9. ChosenOK(i)' /\ CursorOK(i)'
        BY <1>2, <3>2, <3>7 DEF ChosenOK, CursorOK
      <3>10. ~Shown(i)'
        BY <1>1, <3>4 DEF Shown
      <3>11. SeenOK(i)'
        <4>1. capture # NoCapture => (capture[i].n # 0 => i \in ui.handled)
          BY <2>1, <3>3 DEF Guarded, SeenOK
        <4>2. capture # NoCapture => capture[i].n # 0
          BY <1>1, <2>1, <3>1 DEF Guarded, SeenOK, r
        <4>3. QED
          BY <1>1, <4>1, <4>2 DEF SeenOK
      <3>12. i \notin misled'
        BY <2>1, <3>7 DEF Guarded
      <3>13. QED
        BY <3>8, <3>9, <3>10, <3>11, <3>12 DEF Guarded
    <2>4. QED
      BY <2>2, <2>3
  <1>7. QED
    BY <1>5, <1>6 DEF GuardInv

\* The second Enter.
LEMMA ConfirmationGuards ==
    ASSUME PermTypeOK, NEW k \in DOMAIN replies, TypeConfirmation(k), GuardInv
    PROVE  GuardInv' /\ PermTypeOK'
  <1> DEFINE r == replies[k]
             a == r.inst
  <1>1. /\ r.step = "confirm" /\ replies' = RemoveAt(replies, k)
        /\ Enter(a, "none", r.n)
        /\ UNCHANGED <<ui, queued, enters, asked, capture, allowed, meddled>>
    BY DEF TypeConfirmation
  <1>2. a \in Insts /\ r.n \in 0 .. MaxAsks /\ r.n # 0 /\ Selected(r) # Nothing
    BY ReplyTypes, PaneTypes
  <1>3. replies' \in Seq(Reply)
    BY <1>1, ReplyGone
  <1>4. PICK h : \A i \in Insts :
                 /\ \A j \in RepliesTo(i)' :
                       h[j] \in RepliesTo(i) \ {k} /\ replies'[j] = replies[h[j]]
                 /\ \A j, l \in RepliesTo(i)' : h[j] = h[l] => j = l
    BY <1>1, ReplyGone
  <1> HIDE DEF r
  <1>5. /\ pane' \in [Insts -> Pane] /\ misled' \subseteq Insts
        /\ misled' \subseteq misled \cup {a}
        /\ \A i \in Insts \ {a} : pane'[i] = pane[i]
    BY <1>1, <1>2, EnterFacts
  <1>6. PermTypeOK'
    BY <1>1, <1>3, <1>5 DEF PermTypeOK
  <1>7. ASSUME NEW i \in Insts \ meddled' PROVE Guarded(i)'
    <2>1. i \in Insts \ meddled /\ Guarded(i)
      BY <1>1, <1>7 DEF GuardInv
    <2>2. CASE i # a
      <3>1. /\ \A j \in RepliesTo(i)' : h[j] \in RepliesTo(i) /\ replies'[j] = replies[h[j]]
            /\ \A j, l \in RepliesTo(i)' : h[j] = h[l] => j = l
        BY <1>4, <2>1
      <3>2. i \in misled' => i \in misled
        BY <1>5, <2>2
      <3>3. pane'[i] = pane[i]
        BY <1>5, <2>1, <2>2
      <3>4. QED
        BY <1>1, <2>1, <3>1, <3>2, <3>3, GuardKept
    <2>3. CASE i = a
      <3>1. k \in RepliesTo(i)
        BY <2>3 DEF RepliesTo, r
      <3>2. RepliesTo(i)' = {}
        <4>1. RepliesTo(i) \ {k} = {}
          BY <2>1, <3>1 DEF Guarded, RepliesOK
        <4>2. QED
          BY <1>4, <2>1, <4>1
      <3>3. pane[i].dialog.n = r.n /\ pane[i].chosen = Selected(r)
        BY <1>1, <2>1, <3>1 DEF Guarded, RepliesOK, r
      <3>4. Close(i)
        BY <1>1, <1>2, <2>3, <3>3 DEF Open, Enter
      <3>5. pane[i].chosen.n = pane[i].dialog.n /\ pane[i].chosen.choice = pane[i].chosen.meant
        BY <1>2, <2>1, <3>3 DEF Guarded, ChosenOK
      <3>6. misled' = misled /\ pane'[i] = NoAsk
        BY <2>1, <3>4, <3>5, CloseFacts
      <3>7. \A n : ~Unanswered(i, n)
        BY <3>1 DEF Unanswered
      <3>8. ~Shown(i)
        BY <2>1, <3>7 DEF Guarded
      <3>9. ~Shown(i)'
        BY <1>1, <3>8 DEF Shown
      <3>10. RepliesOK(i)' /\ ChosenOK(i)' /\ CursorOK(i)'
        BY <3>2, <3>6, PaneTypes DEF RepliesOK, ChosenOK, CursorOK
      <3>11. SeenOK(i)'
        <4>1. capture # NoCapture => (capture[i].n # 0 => i \in ui.handled)
          BY <2>1, <3>7 DEF Guarded, SeenOK
        <4>2. QED
          BY <1>1, <3>2, <3>9, <4>1 DEF SeenOK
      <3>12. i \notin misled'
        BY <2>1, <3>6 DEF Guarded
      <3>13. QED
        BY <3>9, <3>10, <3>11, <3>12 DEF Guarded
    <2>4. QED
      BY <2>2, <2>3
  <1>8. QED
    BY <1>6, <1>7 DEF GuardInv

\* A key that tmux refuses.
LEMMA FailureGuards ==
    ASSUME PermTypeOK, NEW k \in DOMAIN replies, TypingFails(k), GuardInv
    PROVE  GuardInv' /\ PermTypeOK'
  <1>1. /\ replies' = RemoveAt(replies, k)
        /\ UNCHANGED <<ui, pane, queued, enters, asked, capture, allowed, meddled, misled>>
    BY DEF TypingFails
  <1>2. replies' \in Seq(Reply)
    BY <1>1, ReplyGone
  <1>3. PICK h : \A i \in Insts :
                 /\ \A j \in RepliesTo(i)' :
                       h[j] \in RepliesTo(i) \ {k} /\ replies'[j] = replies[h[j]]
                 /\ \A j, l \in RepliesTo(i)' : h[j] = h[l] => j = l
    BY <1>1, ReplyGone
  <1>4. PermTypeOK'
    BY <1>1, <1>2 DEF PermTypeOK
  <1>5. ASSUME NEW i \in Insts \ meddled' PROVE Guarded(i)'
    <2>1. i \in Insts \ meddled /\ Guarded(i)
      BY <1>1, <1>5 DEF GuardInv
    <2>2. /\ \A j \in RepliesTo(i)' : h[j] \in RepliesTo(i) /\ replies'[j] = replies[h[j]]
          /\ \A j, l \in RepliesTo(i)' : h[j] = h[l] => j = l
      BY <1>3, <2>1
    <2>3. QED
      BY <1>1, <2>1, <2>2, GuardKept
  <1>6. QED
    BY <1>4, <1>5 DEF GuardInv

----------------------------------------------------------------------------
(* The guards, when an Enter comes that answers nothing *)

\* It meddles with the dialog that is open, if there is one.
LEMMA StrayGuards ==
    ASSUME PermTypeOK, NEW a \in Insts, StrayEnter(a), GuardInv,
           queued' = queued, enters' \in [Insts -> Nat], Frame(ui, ui'),
           UNCHANGED <<asked, capture, replies, allowed>>
    PROVE  GuardInv' /\ PermTypeOK'
  <1>1. Enter(a, "none", pane[a].dialog.n) /\ pane[a].dialog.n \in 0 .. MaxAsks
    BY DEF StrayEnter, PermTypeOK, Pane, Dlg
  <1>2. /\ pane' \in [Insts -> Pane] /\ misled' \subseteq misled \cup {a}
        /\ misled' \subseteq Insts
        /\ \A i \in Insts \ {a} : pane'[i] = pane[i]
        /\ ~Open(a) => UNCHANGED <<pane, misled>>
    BY <1>1, EnterFacts
  <1>3. /\ meddled' \subseteq Insts /\ meddled \subseteq meddled'
        /\ Open(a) => a \in meddled'
    BY DEF StrayEnter, PermTypeOK
  <1>4. PermTypeOK'
    BY <1>2, <1>3 DEF PermTypeOK
  <1>5. ASSUME NEW i \in Insts \ meddled' PROVE Guarded(i)'
    <2>1. i \in Insts /\ Guarded(i) /\ pane'[i] = pane[i] /\ (i \in misled' => i \in misled)
      BY <1>2, <1>3, <1>5 DEF GuardInv
    <2>2. QED
      BY <2>1, GuardLeftAlone DEF Frame
  <1>6. QED
    BY <1>4, <1>5 DEF GuardInv

\* One that a tick sent is typed.
LEMMA TapGuards ==
    ASSUME PermTypeOK, NEW a \in Insts, TapEnter(a), GuardInv
    PROVE  GuardInv' /\ PermTypeOK'
  <1>1. /\ StrayEnter(a) /\ enters[a] > 0 /\ enters' = [enters EXCEPT ![a] = enters[a] - 1]
        /\ UNCHANGED <<ui, queued, asked, capture, replies, allowed>>
    BY DEF TapEnter
  <1>2. enters' \in [Insts -> Nat]
    BY <1>1 DEF PermTypeOK
  <1>3. Frame(ui, ui')
    BY <1>1 DEF Frame
  <1>4. QED
    BY <1>1, <1>2, <1>3, StrayGuards

\* ... or it is not, or a prompt waits.
LEMMA WaitGuards ==
    ASSUME PermTypeOK, KeySendYes \/ \E a \in Insts : TapFails(a), ScreenInv, GuardInv
    PROVE  GuardInv' /\ PermTypeOK'
  <1>1. /\ UNCHANGED <<ui, pane, asked, capture, replies, allowed, meddled, misled>>
        /\ queued' \subseteq Insts /\ enters' \in [Insts -> Nat]
    <2>1. CASE KeySendYes
      <3>1. ui.sel \in Insts
        BY <2>1, UiIsHome DEF KeySendYes, Home
      <3>2. QED
        BY <2>1, <3>1 DEF KeySendYes, PermTypeOK
    <2>2. CASE \E a \in Insts : TapFails(a)
      <3>1. PICK a \in Insts : TapFails(a)
        BY <2>2
      <3>2. QED
        BY <3>1 DEF TapFails, PermTypeOK
    <2>3. QED
      BY <2>1, <2>2
  <1>2. PermTypeOK'
    BY <1>1 DEF PermTypeOK
  <1>3. GuardInv'
    BY <1>1, GuardLeftAlone DEF GuardInv
  <1>4. QED
    BY <1>2, <1>3

----------------------------------------------------------------------------
(* The theorems *)

\* A step of an agent, of the user in the permission screen, or of the keys.
LEMMA PermissionGuards ==
    ASSUME ScreenInv, PermTypeOK, Permission, GuardInv
    PROVE  GuardInv' /\ PermTypeOK'
  <1>1. CASE PermSpend
    <2>1. CASE \E i \in Insts, key \in Keys \cup {NoKey} : Ask(i, key)
      BY <2>1, AskGuards
    <2>2. CASE \E i \in Insts : Collect({i})
      BY <2>2, CollectGuards
    <2>3. CASE KeySendYes
      BY <2>3, WaitGuards
    <2>4. QED
      BY <1>1, <2>1, <2>2, <2>3 DEF PermSpend
  <1>2. CASE \E i \in Insts : AnswerByHand(i) \/ TapEnter(i) \/ TapFails(i)
    BY <1>2, ByHandGuards, TapGuards, WaitGuards
  <1>3. CASE Collect({})
    BY <1>3, CollectGuards
  <1>4. CASE \E choice \in Answers : AnswerPermission(choice)
    BY <1>4, AnswerGuards
  <1>5. CASE DismissPermission
    BY <1>5, DismissGuards
  <1>6. CASE \E k \in DOMAIN replies : AutoApprove(k) \/ TypeRight(k) \/ TypeSelection(k)
    BY <1>6, AutoGuards, RightGuards, SelectionGuards
  <1>7. CASE \E k \in DOMAIN replies : TypeConfirmation(k) \/ TypingFails(k)
    BY <1>7, ConfirmationGuards, FailureGuards
  <1>8. QED
    BY <1>1, <1>2, <1>3, <1>4, <1>5, <1>6, <1>7 DEF Permission, PermNext

\* The first state: nothing is shown, nothing is set, nothing was asked.
LEMMA ScreensInit ==
    ASSUME Init
    PROVE  ScreenInv /\ PermTypeOK /\ GuardInv
  <1>1. PICK s \in Running \cup Plans \cup {None} :
       ui = [screen |-> "default", sel |-> s, insts |-> Running, shown |-> NoAct,
             confirm |-> NoAct, next |-> NoAct, abort |-> NoAct, callback |-> NoAct,
             wave |-> None, planner |-> None, chat |-> None, topic |-> None,
             status |-> None, perm |-> NoPerm, approve |-> << >>, handled |-> {},
             deferred |-> << >>, prompted |-> {}, name |-> 0, desc |-> 0,
             prompting |-> FALSE, seen |-> {}, orphans |-> {}, did |-> {}]
    BY DEF Init
  <1>2. /\ inbox = {} /\ used = 0
        /\ pane = [i \in Insts |-> NoAsk] /\ queued = {} /\ enters = [i \in Insts |-> 0]
        /\ asked = 0 /\ capture = NoCapture /\ replies = << >>
        /\ allowed = {} /\ meddled = {} /\ misled = {}
    BY DEF Init, PermInit
  <1>3. /\ s \in Insts \cup Plan /\ Running \in SUBSET Insts /\ NoAct \in Deeds
        /\ NoAct \in Act /\ None \in Plan /\ "default" \in ScreenNames
        /\ NoPerm \in [inst : Insts \cup {None}, n : 0 .. MaxAsks, key : Keys \cup {NoKey}]
        /\ 0 \in 0 .. MaxWork /\ FALSE \in BOOLEAN
        /\ << >> \in Seq(Reply) /\ << >> \in Seq(Plans)
    BY ScreenAssumption, PermissionAssumption, ActTypes DEF Plan, NoPerm, ScreenNames
  <1>4. ui \in Home
    BY <1>1, <1>3 DEF Home
  <1>5. /\ ui.screen = "default" /\ ui.did = {} /\ ui.approve = << >>
        /\ ui.chat = None /\ ui.topic = None /\ ui.status = None /\ ui.wave = None
        /\ ui.next = NoAct /\ ui.abort = NoAct /\ ui.planner = None
    BY <1>1
  <1>6. ScreenInv
    BY <1>2, <1>3, <1>4, <1>5 DEF ScreenInv, ScreenOK, FieldsOK, InboxOK, DidOK
  <1>7. PermTypeOK
    <2>1. pane \in [Insts -> Pane] /\ asked \in 0 .. MaxAsks
      BY <1>2, PaneTypes
    <2>2. QED
      BY <1>2, <1>3, <2>1 DEF PermTypeOK
  <1>8. ASSUME NEW i \in Insts PROVE Guarded(i)
    <2>1. /\ RepliesTo(i) = {} /\ pane[i].chosen = Nothing /\ pane[i].at = 0
          /\ capture = NoCapture /\ ~Shown(i)
      BY <1>2, <1>5, PaneTypes DEF RepliesTo, Shown
    <2>2. QED
      BY <1>2, <2>1 DEF Guarded, RepliesOK, ChosenOK, SeenOK, CursorOK
  <1>9. QED
    BY <1>6, <1>7, <1>8 DEF GuardInv

\* Every step keeps the screens consistent and the dialogs guarded.
LEMMA ScreensStep ==
    ASSUME ScreenInv, PermTypeOK, GuardInv, [Next]_vars
    PROVE  ScreenInv' /\ PermTypeOK' /\ GuardInv'
  <1>1. CASE Permission
    BY <1>1, PermissionFacts, PermissionGuards
  <1>2. CASE UserOpens \/ Answer \/ Arrival
    <2>1. Went \/ (\E i : WentWithout(i)) \/ \E i : WentTyping(i)
      BY <1>2, OpensWent, AnswerWent, ArrivalWent
    <2>2. CASE Went
      <3>1. ScreenInv'
        BY <2>2 DEF Went, ScreenInv, Frame
      <3>2. PermTypeOK'
        BY <2>2 DEF Went, PermTypeOK, permVars
      <3>3. QED
        BY <2>2, <3>1, <3>2, WentGuards
    <2>3. CASE \E i : WentWithout(i)
      <3>1. PICK i : WentWithout(i)
        BY <2>3
      <3>2. ScreenInv'
        BY <3>1 DEF WentWithout, ScreenInv, FrameBut
      <3>3. QED
        BY <3>1, <3>2, ForgetGuards
    <2>4. CASE \E i : WentTyping(i)
      <3>1. PICK i : WentTyping(i)
        BY <2>4
      <3>2. ScreenInv'
        BY <3>1 DEF WentTyping, ScreenInv, Frame
      <3>3. enters' \in [Insts -> Nat]
        BY <3>1 DEF WentTyping, PermTypeOK
      <3>4. QED
        BY <3>1, <3>2, <3>3, StrayGuards DEF WentTyping
    <2>5. QED
      BY <2>1, <2>2, <2>3, <2>4
  <1>3. CASE Tick
    BY <1>3, TickFacts, TickGuards
  <1>4. CASE UNCHANGED vars
    <2>1. UNCHANGED <<ui, inbox, used, pane, queued, enters, asked, capture, replies,
                      allowed, meddled, misled>>
      BY <1>4 DEF vars, permVars
    <2>2. ScreenInv' /\ PermTypeOK'
      BY <2>1 DEF ScreenInv, PermTypeOK
    <2>3. GuardInv'
      BY <2>1, GuardLeftAlone DEF GuardInv
    <2>4. QED
      BY <2>2, <2>3
  <1>5. QED
    BY <1>1, <1>2, <1>3, <1>4 DEF Next

\* All three, always.
LEMMA ScreensInvariant == Spec => [](ScreenInv /\ PermTypeOK /\ GuardInv)
  <1>1. Init => ScreenInv /\ PermTypeOK /\ GuardInv
    BY ScreensInit
  <1>2. (ScreenInv /\ PermTypeOK /\ GuardInv) /\ [Next]_vars
            => (ScreenInv /\ PermTypeOK /\ GuardInv)'
    BY ScreensStep
  <1>3. QED
    BY <1>1, <1>2, PTL DEF Spec

\* The home state, the messages and the dialogs are typed, and the fields of the home state
\* are those of the screen that is open or of one that a message replaced.
THEOREM TypeCorrect == Spec => []TypeOK
  <1>1. ScreenInv /\ PermTypeOK /\ GuardInv => TypeOK
    <2> SUFFICES ASSUME ScreenInv, PermTypeOK PROVE TypeOK
      OBVIOUS
    <2>1. ui \in Home /\ ui.approve = << >> /\ FieldsOK(ui, inbox) /\ InboxOK(ui, inbox)
          /\ used \in 0 .. MaxWork
      BY DEF ScreenInv, ScreenOK
    <2>2. ui \in Ui
      <3>1. Deeds \subseteq Act
        BY ActTypes
      <3>2. QED
        BY <2>1, <3>1 DEF Home, Ui
    <2>3. Consistent
      BY <2>1 DEF FieldsOK, Kept, Consistent
    <2>4. QED
      BY <2>1, <2>2, <2>3 DEF TypeOK, InboxOK
  <1>2. QED
    BY <1>1, ScreensInvariant, PTL

\* What a screen or a dialog does is done to the plan or the instance it was opened for.
THEOREM ActsOnWhatWasShownTheorem == Spec => []ActsOnWhatWasShown
  <1>1. ScreenInv /\ PermTypeOK /\ GuardInv => ActsOnWhatWasShown
    BY DEF ScreenInv, ScreenOK, DidOK, Sent, ActsOnWhatWasShown
  <1>2. QED
    BY <1>1, ScreensInvariant, PTL

\* An answer given for one permission dialog never answers another, or otherwise.
THEOREM AnsweredAsAskedTheorem == Spec => []AnsweredAsAsked
  <1>1. ScreenInv /\ PermTypeOK /\ GuardInv => AnsweredAsAsked
    <2> SUFFICES ASSUME PermTypeOK, GuardInv, NEW i \in misled PROVE i \in meddled
      BY DEF AnsweredAsAsked
    <2>1. i \in Insts
      BY DEF PermTypeOK
    <2>2. QED
      BY <2>1 DEF GuardInv, Guarded
  <1>2. QED
    BY <1>1, ScreensInvariant, PTL
=============================================================================
