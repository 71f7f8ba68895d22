--------------------------- MODULE MCCommentPanel ---------------------------
(* Instances of CommentPanel for TLC.                                      *)
EXTENDS CommentPanel, TLC

CONSTANTS t1, t2, t3

MCThreads == {t1, t2, t3}
MCInitial == {<<t3, t1>>}

\* The page at rest, as Init leads to when the list comes before the frame.
Opened ==
    \E list \in Initial, dom, view \in SUBSET Anchored :
        LET found == {n \in Pins(list) : list[n] \in dom}
            seen == {n \in found : list[n] \in view}
        IN
        /\ stored = [list |-> list, rev |-> 0]
        /\ own = [pc |-> "none", rev |-> 0, acked |-> 0]
        /\ load = [l \in Loads |-> NoLoad]
        /\ frame = [NewDocument(dom, view) EXCEPT
             !.doc = "complete", !.enabled = TRUE, !.gen = 2, !.pins = list,
             !.placed = found, !.shown = [gen |-> 2, at |-> seen],
             !.lost = Pins(list) \ found]
        /\ panel = [NewPanel EXCEPT
             !.list = list, !.first = FALSE, !.status = "shown", !.ready = TRUE, !.gen = 2,
             !.unplaced = Pins(list) \ found, !.tops = [n \in seen |-> list[n]],
             !.heard = 2, !.about = list]
        /\ loadEvent = FALSE /\ toFrame = <<>> /\ toPanel = <<>>

\* Users act once while the page is being opened, or MaxActs times later.  On
\* the first page all elements are there and in view.
MCInit ==
    /\ \/ Start /\ acts = MaxActs - 1
       \/ Opened /\ acts = 0
    /\ frame.view = Anchored /\ frame.dom = Anchored

MCSpec == MCInit /\ [][Next]_vars /\ WF_vars(System)
=============================================================================
