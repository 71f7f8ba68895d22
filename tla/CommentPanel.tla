---------------------------- MODULE CommentPanel ----------------------------
(***************************************************************************)
(* Comments in the browser: the panel of the viewer page (comments.js),    *)
(* which loads the list of threads, and the bridge in the artifact's frame *)
(* (bridge.js), which pins them to elements of the page and reports which  *)
(* it could not place and which of the others are in view (where, to the   *)
(* pixel, is left out).                                                    *)
(*                                                                         *)
(* The two know a thread by its number in the list.  They post messages to *)
(* each other, in order; loads of the list overlap and are answered in any *)
(* order; the frame may go to another page of the bundle, with the bridge  *)
(* or without, and its load event reaches the panel at any time after.     *)
(* The list is the one the API gives at some moment (CommentThreads has    *)
(* what happens behind it).                                                *)
(***************************************************************************)
EXTENDS Naturals, SequencesExt

CONSTANTS
    Threads,  \* thread ids
    General,  \* the threads on a whole version, which have no anchor
    Initial,  \* the lists the artifact may begin with
    Loads,    \* loads of the list in flight
    PinLimit, \* pins a frame places at most (500)
    MaxActs,  \* bound on what users do
    None      \* no list, no report

\* Thread ids have a fixed length.
ASSUME ThreadsAssumption == IsFiniteSet(Threads)
ASSUME GeneralAssumption == General \subseteq Threads
ASSUME LimitsAssumption == PinLimit \in Nat /\ MaxActs \in Nat

VARIABLES
    stored,    \* the list of threads the server gives, and how often it has changed
    own,       \* this viewer's change in flight, and the newest one answered
    load,      \* loads in flight
    panel,     \* the state of comments.js
    frame,     \* the artifact's frame: its document and the state of bridge.js
    loadEvent, \* the frame's load event is on its way to the panel
    toFrame,   \* messages posted to the frame
    toPanel,   \* messages posted to the panel
    acts       \* things users have done

vars == <<stored, own, load, panel, frame, loadEvent, toFrame, toPanel, acts>>

\* A thread is at most once in a list.
Lists == {list \in Seq(Threads) : IsInjective(list)}
Numbers == 1..Cardinality(Threads)
Anchored == Threads \ General

Reports == [gen : Nat, at : SUBSET Numbers]

ASSUME InitialAssumption == Initial \subseteq Lists
ASSUME NoneAssumption == None \notin Lists /\ None \notin Reports

\* The numbers of the pins in a list that the frame takes: the first PinLimit of
\* the threads with an anchor.
Pins(list) ==
    LET anchored == {n \in DOMAIN list : list[n] \notin General}
    IN  {n \in anchored : Cardinality(anchored \cap (1..n)) <= PinLimit}

NoLoad == [pc |-> "idle", seq |-> 0, list |-> <<>>, rev |-> 0]

\* unplaced, tops: the frame's last reports, the thread that each top is for;
\* heard, about: the pins and the list that the panel had, or the frame, when
\* unplaced was reported (history).
NewPanel == [list |-> <<>>, rev |-> 0, first |-> TRUE, status |-> "loading", seq |-> 1,
             ready |-> FALSE, gen |-> 0, unplaced |-> {}, tops |-> <<>>,
             heard |-> 0, about |-> <<>>]

\* dom: the threads whose element is on the page; view: those whose element has a
\* size and its pin a place in the viewport; placed: the pins that have an element,
\* and gone: those whose element has been removed since; shown, lost: the last
\* reports; recheck, redraw: the timer and the animation frame; shifted: the layout
\* has changed, and nothing told the bridge, since it last looked (history).
NewDocument(dom, view) ==
    [doc |-> "blank", dom |-> dom, view |-> view, enabled |-> FALSE, gen |-> 0,
     pins |-> <<>>, waiting |-> None, placed |-> {}, gone |-> {}, shown |-> None,
     lost |-> None, recheck |-> FALSE, redraw |-> FALSE, shifted |-> FALSE]

Revs == 0..MaxActs
Seqs == 0..MaxActs + 1
Tops == UNION {[numbers -> Threads] : numbers \in SUBSET Numbers}

Panels ==
    [list : Lists, rev : Revs, first : BOOLEAN, status : {"loading", "shown", "error"},
     seq : Seqs, ready : BOOLEAN, gen : Nat, unplaced : SUBSET Numbers, tops : Tops,
     heard : Nat, about : Lists]

Frames ==
    [doc : {"blank", "plain", "loading", "complete"}, dom : SUBSET Anchored,
     view : SUBSET Anchored, enabled : BOOLEAN, gen : Nat, pins : Lists,
     waiting : {None} \cup Lists, placed : SUBSET Numbers, gone : SUBSET Numbers,
     shown : {None} \cup Reports, lost : {None} \cup SUBSET Numbers,
     recheck : BOOLEAN, redraw : BOOLEAN, shifted : BOOLEAN]

FrameMessages == [type : {"enable"}] \cup [type : {"pins"}, gen : Nat, list : Lists]

PanelMessages ==
    [type : {"ready", "enabled"}]
        \cup [type : {"positions", "anchors"}, gen : Nat, list : Lists, at : SUBSET Numbers]

TypeOK ==
    /\ stored \in [list : Lists, rev : Revs]
    /\ own \in [pc : {"none", "sent", "done"}, rev : Revs, acked : Revs]
    /\ load \in [Loads -> [pc : {"idle", "sent", "answered"}, seq : Seqs,
                           list : Lists, rev : Revs]]
    /\ panel \in Panels /\ frame \in Frames
    /\ loadEvent \in BOOLEAN
    /\ toFrame \in Seq(FrameMessages) /\ toPanel \in Seq(PanelMessages)
    /\ acts \in Revs
    /\ panel.rev <= stored.rev /\ own.acked <= stored.rev
    /\ panel.unplaced \subseteq DOMAIN panel.list
    /\ frame.gen <= panel.gen
    /\ frame.gone \subseteq frame.placed /\ frame.placed \subseteq Pins(frame.pins)
    /\ frame.waiting # None => frame.doc = "loading" /\ frame.pins = <<>>
    /\ frame.enabled => frame.doc \in {"loading", "complete"}

\* The viewer page has run its script: the list is being loaded, the frame too.
Start ==
    /\ \E list \in Initial : stored = [list |-> list, rev |-> 0]
    /\ own = [pc |-> "none", rev |-> 0, acked |-> 0]
    /\ \E l \in Loads :
         load = [k \in Loads |-> IF k = l THEN [NoLoad EXCEPT !.pc = "sent", !.seq = 1]
                                 ELSE NoLoad]
    /\ panel = NewPanel
    /\ \E dom, view \in SUBSET Anchored : frame = NewDocument(dom, view)
    /\ loadEvent = FALSE
    /\ toFrame = <<[type |-> "enable"]>>
    /\ toPanel = <<>>

Init == Start /\ acts = 0

Act == acts < MaxActs /\ acts' = acts + 1

-----------------------------------------------------------------------------
(* The list on the server.                                                 *)

\* A thread is begun or reopened, or it is resolved or its last comment deleted.
Change ==
    \/ \E t \in Threads \ ToSet(stored.list), n \in 1..Len(stored.list) + 1 :
         stored' = [list |-> InsertAt(stored.list, n, t), rev |-> stored.rev + 1]
    \/ \E n \in DOMAIN stored.list :
         stored' = [list |-> RemoveAt(stored.list, n), rev |-> stored.rev + 1]

OthersChange ==
    /\ Act
    /\ own.pc # "sent"
    /\ Change
    /\ UNCHANGED <<own, load, panel, frame, loadEvent, toFrame, toPanel>>

\* call, for a POST or DELETE of this viewer.
Submit ==
    /\ Act
    /\ own.pc = "none"
    /\ own' = [own EXCEPT !.pc = "sent"]
    /\ UNCHANGED <<stored, load, panel, frame, loadEvent, toFrame, toPanel>>

Apply ==
    /\ own.pc = "sent"
    /\ Change
    /\ own' = [own EXCEPT !.pc = "done", !.rev = stored'.rev]
    /\ UNCHANGED <<load, panel, frame, loadEvent, toFrame, toPanel, acts>>

-----------------------------------------------------------------------------
(* comments.js: the list.                                                  *)

\* load(), up to its await.
StartLoad(l) ==
    /\ load[l].pc = "idle"
    /\ load' = [load EXCEPT ![l] = [NoLoad EXCEPT !.pc = "sent", !.seq = panel.seq + 1]]
    /\ panel' = [panel EXCEPT !.seq = @ + 1, !.status = "loading"]

\* The change was answered, the list is loaded again.
Submitted(l) ==
    /\ own.pc = "done"
    /\ own' = [own EXCEPT !.pc = "none", !.acked = own.rev]
    /\ StartLoad(l)
    /\ UNCHANGED <<stored, frame, loadEvent, toFrame, toPanel, acts>>

\* It failed, or its answer was lost; the error is shown beside the form or in
\* the panel.
SubmitFails ==
    /\ own.pc # "none"
    /\ own' = [own EXCEPT !.pc = "none"]
    /\ \/ UNCHANGED panel
       \/ panel' = [panel EXCEPT !.status = "error"]
    /\ UNCHANGED <<stored, load, frame, loadEvent, toFrame, toPanel, acts>>

\* Another filter was chosen.
Reload(l) ==
    /\ Act
    /\ StartLoad(l)
    /\ UNCHANGED <<stored, own, frame, loadEvent, toFrame, toPanel>>

Answer(l) ==
    /\ load[l].pc = "sent"
    /\ load' = [load EXCEPT ![l].pc = "answered", ![l].list = stored.list,
                            ![l].rev = stored.rev]
    /\ UNCHANGED <<stored, own, panel, frame, loadEvent, toFrame, toPanel, acts>>

\* sendPins, of a panel that is otherwise p, as often as given.
SendPinsTimes(p, times) ==
    IF p.ready
      THEN /\ panel' = [p EXCEPT !.gen = @ + times]
           /\ toFrame' = toFrame \o [k \in 1..times |->
                [type |-> "pins", gen |-> p.gen + k, list |-> p.list]]
      ELSE panel' = p /\ UNCHANGED toFrame

SendPins(p) == SendPinsTimes(p, 1)

\* Variant: an answer is shown when it comes.
LatestAny(l) == TRUE

\* Only the load that was begun last is shown, or its failure.
Latest(l) == load[l].seq = panel.seq

\* The first list opens the panel (showPanel) when it is not empty, unless the
\* window is narrow or the panel is open: the pins are sent once more.
Loaded(l) ==
    LET p == [panel EXCEPT !.list = load[l].list, !.rev = load[l].rev,
                !.first = FALSE, !.status = "shown",
                !.unplaced = {}, !.about = load[l].list]
    IN
    /\ load[l].pc = "answered"
    /\ load' = [load EXCEPT ![l] = NoLoad]
    /\ \/ ~Latest(l) /\ UNCHANGED <<panel, toFrame>>
       \/ Latest(l) /\ SendPins(p)
       \/ Latest(l) /\ panel.first /\ p.list # <<>> /\ SendPinsTimes(p, 2)
    /\ UNCHANGED <<stored, own, frame, loadEvent, toPanel, acts>>

LoadFails(l) ==
    /\ load[l].pc # "idle"
    /\ load' = [load EXCEPT ![l] = NoLoad]
    /\ panel' = IF Latest(l) THEN [panel EXCEPT !.status = "error"] ELSE panel
    /\ UNCHANGED <<stored, own, frame, loadEvent, toFrame, toPanel, acts>>

-----------------------------------------------------------------------------
(* comments.js: the frame.                                                 *)

\* showPanel, either way.
ShowPanel ==
    /\ Act
    /\ SendPins(panel)
    /\ UNCHANGED <<stored, own, load, frame, loadEvent, toPanel>>

Enable == toFrame' = Append(toFrame, [type |-> "enable"])

\* The frame's load event; until the bridge answers there is none.
FrameLoaded ==
    /\ loadEvent
    /\ loadEvent' = FALSE
    /\ panel' = [panel EXCEPT !.ready = FALSE, !.tops = <<>>]
    /\ Enable
    /\ UNCHANGED <<stored, own, load, frame, toPanel, acts>>

\* Variant: whatever pins it is about.
NewestAny(m) == TRUE

\* A report about the pins that were sent last.
Newest(m) == m.gen = panel.gen

\* The message listener.
PanelReceives ==
    LET m == Head(toPanel)
        about == {n \in DOMAIN panel.list : n \in m.at}
    IN
    /\ toPanel # <<>>
    /\ toPanel' = Tail(toPanel)
    /\ \/ m.type = "ready" /\ Enable /\ UNCHANGED panel
       \/ m.type = "enabled" /\ SendPins([panel EXCEPT !.ready = TRUE])
       \/ /\ m.type = "positions" /\ Newest(m)
          /\ panel' = [panel EXCEPT !.tops = [n \in about |-> m.list[n]]]
          /\ UNCHANGED toFrame
       \/ /\ m.type = "anchors" /\ Newest(m)
          /\ panel' = [panel EXCEPT !.unplaced = about, !.heard = panel.gen,
                                    !.about = m.list]
          /\ UNCHANGED toFrame
       \/ /\ m.type \in {"positions", "anchors"} /\ ~Newest(m)
          /\ UNCHANGED <<panel, toFrame>>
    /\ UNCHANGED <<stored, own, load, frame, loadEvent, acts>>

-----------------------------------------------------------------------------
(* bridge.js.                                                              *)

Lost(f) == Pins(f.pins) \ f.placed
Standing(f) == f.placed \ f.gone
InView(f) == {n \in Standing(f) : f.pins[n] \in f.view}

\* place: the positions of the pins in view, if they or the pins have changed.
\* Before it is enabled the bridge has nobody to send them to.
Positions(f) ==
    IF ~f.enabled \/ f.shown = [gen |-> f.gen, at |-> InView(f)] THEN <<>>
    ELSE <<[type |-> "positions", gen |-> f.gen, list |-> f.pins, at |-> InView(f)]>>

Drawn(f) == [f EXCEPT !.redraw = FALSE, !.shifted = FALSE,
                      !.shown = [gen |-> f.gen, at |-> InView(f)]]

\* report: the pins without an element, if they have changed or it is forced.
Anchors(f, force) ==
    IF ~force /\ f.lost = Lost(f) THEN <<>>
    ELSE <<[type |-> "anchors", gen |-> f.gen, list |-> f.pins, at |-> Lost(f)]>>

PlaceAndReport(f, force) ==
    /\ frame' = [Drawn(f) EXCEPT !.lost = Lost(f)]
    /\ toPanel' = toPanel \o Positions(f) \o Anchors(f, force)

Resolved(f) == {n \in Pins(f.pins) : f.pins[n] \in f.dom}

\* Variant: pins that waited for the document still wait.
TakenWaiting(f, list) ==
    LET g == [f EXCEPT !.pins = list]
    IN  [g EXCEPT !.placed = Resolved(g), !.gone = {}]

Taken(f, list) ==
    LET g == [f EXCEPT !.pins = list, !.waiting = None]
    IN  [g EXCEPT !.placed = Resolved(g), !.gone = {}]

\* Variant: only what has changed is reported.
SetPinsUnforced(f, list) == PlaceAndReport(Taken(f, list), FALSE)

SetPins(f, list) == PlaceAndReport(Taken(f, list), TRUE)

\* The message listener; there is none before the script has run.
FrameReceives ==
    LET m == Head(toFrame)
        f == [frame EXCEPT !.gen = m.gen]
    IN
    /\ toFrame # <<>>
    /\ toFrame' = Tail(toFrame)
    /\ \/ /\ \/ frame.doc \in {"blank", "plain"}
             \/ m.type = "pins" /\ ~frame.enabled
          /\ UNCHANGED <<frame, toPanel>>
       \/ /\ frame.doc \in {"loading", "complete"} /\ m.type = "enable"
          /\ frame' = [frame EXCEPT !.enabled = TRUE]
          /\ toPanel' = Append(toPanel, [type |-> "enabled"])
       \/ /\ frame.doc = "loading" /\ m.type = "pins" /\ frame.enabled
          /\ frame' = [f EXCEPT !.waiting = m.list]
          /\ UNCHANGED toPanel
       \/ /\ frame.doc = "complete" /\ m.type = "pins" /\ frame.enabled
          /\ SetPins(f, m.list)
    /\ UNCHANGED <<stored, own, load, panel, loadEvent, acts>>

\* recheck, unless pins wait for the document: those without an element, or whose
\* element is gone, are looked up again.
Recheck ==
    LET f == [frame EXCEPT !.recheck = FALSE] IN
    /\ frame.recheck
    /\ IF frame.waiting # None
         THEN frame' = f /\ UNCHANGED toPanel
         ELSE PlaceAndReport(
                [f EXCEPT !.placed = Standing(f) \cup Resolved(f), !.gone = {}], FALSE)
    /\ UNCHANGED <<stored, own, load, panel, loadEvent, toFrame, acts>>

Redraw ==
    /\ frame.redraw
    /\ frame' = Drawn(frame)
    /\ toPanel' = toPanel \o Positions(frame)
    /\ UNCHANGED <<stored, own, load, panel, loadEvent, toFrame, acts>>

\* applyPending, at DOMContentLoaded; the load event follows.
DocumentComplete ==
    /\ frame.doc = "loading"
    /\ LET f == [frame EXCEPT !.doc = "complete"] IN
       IF frame.waiting = None THEN frame' = f /\ UNCHANGED toPanel
                               ELSE SetPins(f, frame.waiting)
    /\ loadEvent' = TRUE
    /\ UNCHANGED <<stored, own, load, panel, toFrame, acts>>

-----------------------------------------------------------------------------
(* The frame's document.                                                   *)

\* The page begins with the bridge's script, which says that it is ready ...
BridgeStarts ==
    /\ frame.doc = "blank"
    /\ frame' = [frame EXCEPT !.doc = "loading"]
    /\ toPanel' = Append(toPanel, [type |-> "ready"])
    /\ UNCHANGED <<stored, own, load, panel, loadEvent, toFrame, acts>>

\* ... or is a file that does not get it.
PlainPage ==
    /\ frame.doc = "blank"
    /\ frame' = [frame EXCEPT !.doc = "plain"]
    /\ loadEvent' = TRUE
    /\ UNCHANGED <<stored, own, load, panel, toFrame, toPanel, acts>>

\* A link within the bundle; messages to the old document are lost.
Navigate ==
    /\ Act
    /\ frame.doc \in {"plain", "complete"}
    /\ \E dom, view \in SUBSET Anchored : frame' = NewDocument(dom, view)
    /\ toFrame' = <<>>
    /\ UNCHANGED <<stored, own, load, panel, loadEvent, toPanel>>

\* The elements move, some into view and others out of it.
Moves(f) == \E view \in SUBSET Anchored : frame' = [f EXCEPT !.view = view]

\* A script of the artifact adds an element or removes it; the observer, which
\* enable started, schedules place and recheck.
Mutate(t) ==
    /\ Act
    /\ frame.doc \in {"loading", "complete"}
    /\ Moves([frame EXCEPT
         !.dom = IF t \in @ THEN @ \ {t} ELSE @ \cup {t},
         !.gone = @ \cup {n \in frame.placed : frame.pins[n] = t},
         !.recheck = @ \/ frame.enabled,
         !.redraw = @ \/ frame.enabled])
    /\ UNCHANGED <<stored, own, load, panel, loadEvent, toFrame, toPanel>>

\* The page is scrolled or the window resized; schedule.
Scroll ==
    /\ Act
    /\ frame.doc \in {"loading", "complete"}
    /\ Moves([frame EXCEPT !.redraw = TRUE])
    /\ UNCHANGED <<stored, own, load, panel, loadEvent, toFrame, toPanel>>

\* An image arrives, a transition runs: no event, no mutation.
Shift ==
    /\ Act
    /\ frame.doc \in {"loading", "complete"}
    /\ Moves([frame EXCEPT !.shifted = TRUE])
    /\ UNCHANGED <<stored, own, load, panel, loadEvent, toFrame, toPanel>>

-----------------------------------------------------------------------------

Users ==
    \/ OthersChange \/ Submit \/ ShowPanel
    \/ \E l \in Loads : Reload(l)
    \/ Navigate
    \/ Scroll \/ Shift
    \/ \E t \in Anchored : Mutate(t)

\* What the server, the browser and the two scripts do without being asked again.
System ==
    \/ \E l \in Loads : Submitted(l) \/ Answer(l) \/ Loaded(l) \/ LoadFails(l)
    \/ Apply \/ SubmitFails
    \/ FrameLoaded \/ PanelReceives \/ FrameReceives
    \/ Recheck \/ Redraw \/ DocumentComplete
    \/ BridgeStarts \/ PlainPage

Next == Users \/ System

Spec == Init /\ [][Next]_vars

\* Requests are answered or fail, messages, timers and events arrive.  Users need
\* do nothing.
FairSpec == Spec /\ WF_vars(System)

-----------------------------------------------------------------------------
(* Properties.                                                             *)

\* When the panel neither says that it loads nor shows an error, its list is not
\* older than the last change of this viewer that was answered, however the
\* answers of overlapping loads are ordered (load, loadSeq).
ListFresh == panel.status = "shown" => panel.rev >= own.acked

\* Once the frame has reported on the pins that the panel sent last, the numbers
\* it reported are numbers of the list that the panel shows: no report on an
\* older list is taken for one on this (pinGen, gen).  Until then the panel may
\* have cards at the places of the list before.
ReportsCurrent ==
    panel.ready /\ panel.heard = panel.gen =>
        /\ panel.about = panel.list
        /\ \A n \in DOMAIN panel.tops : panel.tops[n] = panel.list[n]

Quiet ==
    /\ toFrame = <<>> /\ toPanel = <<>> /\ ~loadEvent
    /\ frame.doc \in {"plain", "complete"} /\ ~frame.recheck /\ ~frame.redraw
    /\ own.pc = "none" /\ \A l \in Loads : load[l].pc = "idle"

\* The panel lists the pins whose element is not on the page, and has places for
\* those, of the others, that were in view when the bridge last looked: those that
\* are, unless the layout has shifted since.
Agrees ==
    LET found == {n \in Pins(panel.list) : panel.list[n] \in frame.dom}
        seen == {n \in found : panel.list[n] \in frame.view}
    IN
    /\ panel.ready
    /\ frame.pins = panel.list
    /\ panel.unplaced = Pins(panel.list) \ found
    /\ DOMAIN panel.tops \subseteq found
    /\ \A n \in DOMAIN panel.tops : panel.tops[n] = panel.list[n]
    /\ ~frame.shifted => DOMAIN panel.tops = seen

\* The two scripts come to rest when users do, and whenever they rest on a page
\* with the bridge, the pins are those of the list shown, and the panel knows of
\* each of the first PinLimit whether it is on the page, and whether it is in view
\* unless the layout shifted unobserved, whatever loads, navigation, scrolling and
\* changes of the page came in between (comments.js, bridge.js).
PinsSettle == [](Quiet /\ frame.doc = "complete" => Agrees) /\ <>[]Quiet
=============================================================================
