------------------------- MODULE CommentPanelProofs -------------------------
(***************************************************************************)
(* Theorems about CommentPanel, for every set of threads, however many     *)
(* loads overlap, pins are placed and things users do.                     *)
(***************************************************************************)
EXTENDS CommentPanel, SequenceTheorems, FiniteSetTheorems, TLAPS

-----------------------------------------------------------------------------
(* The inductive invariant.                                                *)

\* What has happened so often is paid for by what users have done.
Budget ==
    /\ stored.rev + (IF own.pc = "sent" THEN 1 ELSE 0) <= acts
    /\ panel.seq + (IF own.pc = "none" THEN 0 ELSE 1) <= acts + 1

\* A document has no pins before it is complete, and is sent none before it is enabled.
PinsPlaced ==
    /\ frame.doc # "complete" => frame.pins = <<>>
    /\ frame.gen > 0 \/ frame.waiting # None => frame.enabled

\* The load that was begun last was begun after the last change that was answered.
LoadsFresh ==
    /\ own.pc = "done" => own.rev <= stored.rev
    /\ \A l \in Loads :
         /\ load[l].seq <= panel.seq
         /\ load[l].rev <= stored.rev
         /\ load[l].pc = "answered" /\ Latest(l) => load[l].rev >= own.acked

\* The pins that the panel has sent last.
Current(gen) == panel.ready /\ gen = panel.gen

\* Whatever is about those pins, on its way or in the frame, is about the list that
\* the panel shows; positions may be none, of pins that the frame has not taken yet.
PinsOk(m) ==
    m.type = "pins" =>
        /\ m.gen <= panel.gen
        /\ Current(m.gen) => m.list = panel.list

FramePins(f) ==
    /\ f.shown # None => f.shown.gen <= panel.gen
    /\ Current(f.gen) => IF f.waiting = None THEN f.pins = panel.list
                                             ELSE f.waiting = panel.list

ReportOk(m) ==
    m.type \in {"positions", "anchors"} =>
        /\ m.gen <= panel.gen
        /\ m.at \subseteq DOMAIN m.list
        /\ Current(m.gen) => \/ m.list = panel.list
                             \/ m.type = "positions" /\ m.at = {}

PinsCurrent ==
    /\ panel.ready => panel.gen > 0
    /\ FramePins(frame)
    /\ \A i \in 1..Len(toFrame) : PinsOk(toFrame[i])
    /\ \A i \in 1..Len(toPanel) : ReportOk(toPanel[i])

\* The positions that the panel has are those of the list it shows.
TopsCurrent ==
    \A n \in DOMAIN panel.tops :
        n \in DOMAIN panel.list /\ panel.tops[n] = panel.list[n]

\* Positions of the pins sent last are among the first messages to the panel.
Coming(count) ==
    \E i \in 1..count : /\ toPanel[i].type = "positions"
                        /\ toPanel[i].gen = panel.gen

\* The frame reports where the pins are before it reports which are missing, or has
\* done so.
PositionsFirst ==
    /\ frame.shown # None /\ Current(frame.shown.gen) =>
         TopsCurrent \/ Coming(Len(toPanel))
    /\ \A i \in 1..Len(toPanel) :
         toPanel[i].type = "anchors" /\ Current(toPanel[i].gen) => TopsCurrent \/ Coming(i)

ReportsOk ==
    /\ panel.heard <= panel.gen
    /\ panel.heard = panel.gen /\ panel.ready => panel.about = panel.list /\ TopsCurrent

\* The pins on their way come in the order of their generations, after those that
\* the frame has.
InOrder ==
    /\ \A i, j \in 1..Len(toFrame) :
          i < j /\ toFrame[i].type = "pins" /\ toFrame[j].type = "pins" =>
             toFrame[i].gen < toFrame[j].gen
    /\ \A i \in 1..Len(toFrame) :
          toFrame[i].type = "pins" => frame.gen < toFrame[i].gen

\* The pins sent last are on their way.
NewestPins(i) == toFrame[i].type = "pins" /\ Current(toFrame[i].gen)

\* Once the panel has heard of the load event of a complete document, it is ready or
\* will be, the frame is enabled or will be before those pins come, and then has them
\* or gets them.
Enabled ==
    \/ frame.enabled
    \/ \E i \in 1..Len(toFrame) :
          /\ toFrame[i].type = "enable"
          /\ \A j \in 1..Len(toFrame) : NewestPins(j) => i < j

Connected ==
    frame.doc = "complete" /\ ~loadEvent =>
       /\ \/ panel.ready
          \/ \E i \in 1..Len(toFrame) : toFrame[i].type = "enable"
          \/ \E i \in 1..Len(toPanel) : toPanel[i].type = "enabled"
       /\ Enabled
       /\ panel.ready => \/ frame.gen = panel.gen
                         \/ \E i \in 1..Len(toFrame) : NewestPins(i)

\* The frame has looked for its pins since its document changed, unless the timer is
\* to come; it has none before it got some.
PinsFound(f) ==
    /\ ~f.enabled => f.gen = 0
    /\ f.gen = 0 => f.pins = <<>> /\ f.waiting = None
    /\ f.doc = "loading" /\ f.gen > 0 => f.waiting # None
    /\ Standing(f) \subseteq Resolved(f)
    /\ ~f.recheck => f.placed = Resolved(f) /\ f.gone = {}

\* It has reported what it found, and unless the animation frame is to come, what is in
\* view, or was when the layout shifted.
FindsReported(f) ==
    /\ f.shown # None => f.shown.gen <= f.gen
    /\ f.doc = "complete" /\ f.gen > 0 =>
          /\ f.lost = Lost(f)
          /\ f.shown # None /\ f.shown.gen = f.gen
          /\ ~f.redraw => f.shown.at \subseteq Standing(f)
          /\ ~f.redraw /\ ~f.shifted => f.shown.at = InView(f)

FrameRight(f) == PinsFound(f) /\ FindsReported(f)

\* The reports of a type, about pins of a generation, among messages.
About(messages, type, gen) ==
    {i \in 1..Len(messages) : messages[i].type = type /\ messages[i].gen = gen}

\* The last of them says so, or there is none and it is known.
Says(messages, type, gen, at, known) ==
    \/ About(messages, type, gen) = {} /\ known
    \/ \E i \in About(messages, type, gen) :
          /\ messages[i].at = at
          /\ \A j \in About(messages, type, gen) : j <= i

LastReports ==
    Current(frame.gen) =>
       /\ frame.shown # None /\ frame.shown.gen = frame.gen =>
            Says(toPanel, "positions", frame.gen, frame.shown.at,
                 panel.tops = [n \in frame.shown.at |-> panel.list[n]])
       /\ frame.doc = "complete" =>
            Says(toPanel, "anchors", frame.gen, frame.lost, panel.unplaced = frame.lost)

Settles == InOrder /\ Connected /\ FrameRight(frame) /\ LastReports

IInv == /\ TypeOK /\ PinsPlaced /\ Budget /\ LoadsFresh /\ ListFresh
        /\ PinsCurrent /\ PositionsFirst /\ ReportsOk /\ Settles

-----------------------------------------------------------------------------
(* Lists of threads.                                                       *)

\* No list is longer than there are threads.
LEMMA ListNumbers ==
    ASSUME NEW list \in Lists
    PROVE  /\ list \in Seq(Threads) /\ Len(list) \in Nat
           /\ DOMAIN list = 1..Len(list) /\ DOMAIN list \subseteq Numbers
<1>1. /\ list \in Seq(Threads) /\ IsInjective(list)
      /\ Len(list) \in Nat /\ DOMAIN list = 1..Len(list)
  BY DEF Lists
<1>2. list \in Injection(1..Len(list), Threads)
  BY <1>1, ElementOfSeq DEF Injection
<1>3. Cardinality(1..Len(list)) <= Cardinality(Threads)
  BY <1>2, ThreadsAssumption, FS_Injection
<1>4. Cardinality(1..Len(list)) = Len(list)
  BY <1>1, FS_Interval
<1>5. Cardinality(Threads) \in Nat
  BY ThreadsAssumption, FS_CardinalityType
<1>6. QED BY <1>1, <1>3, <1>4, <1>5 DEF Numbers

\* The items of two sequences, one after the other.
Joined(s, s1, s2, m, n) ==
    /\ Len(s) = m + n
    /\ \A i \in 1..m : s[i] = s1[i]
    /\ \A i \in m + 1..m + n : s[i] = s2[i - m]

LEMMA Concat ==
    ASSUME NEW S, NEW s1 \in Seq(S), NEW s2 \in Seq(S),
           NEW m \in Nat, NEW n \in Nat, Len(s1) = m, Len(s2) = n
    PROVE  s1 \o s2 \in Seq(S) /\ Joined(s1 \o s2, s1, s2, m, n)
<1>1. /\ s1 \o s2 \in Seq(S) /\ Len(s1 \o s2) = Len(s1) + Len(s2)
      /\ \A i \in 1..Len(s1) + Len(s2) :
           (s1 \o s2)[i] = IF i <= Len(s1) THEN s1[i] ELSE s2[i - Len(s1)]
  BY ConcatProperties
<1>2. \A i \in 1..m + n : (s1 \o s2)[i] = IF i <= m THEN s1[i] ELSE s2[i - m]
  BY <1>1
<1>3. QED BY <1>1, <1>2 DEF Joined

LEMMA InsertInList ==
    ASSUME NEW list \in Lists, NEW t \in Threads \ ToSet(list),
           NEW n \in 1..Len(list) + 1
    PROVE  InsertAt(list, n, t) \in Lists
<1> DEFINE before == SubSeq(list, 1, n - 1)
           after == SubSeq(list, n, Len(list))
           new == InsertAt(list, n, t)
<1>1. list \in Seq(Threads) /\ IsInjective(list) /\ Len(list) \in Nat /\ n \in Int
  BY ListNumbers DEF Lists
<1>2. /\ before \in Seq(Threads) /\ Len(before) = n - 1
      /\ \A i \in 1..n - 1 : before[i] = list[i]
  BY <1>1
<1>3. /\ after \in Seq(Threads) /\ Len(after) = Len(list) - n + 1
      /\ \A i \in 1..Len(list) - n + 1 : after[i] = list[n + i - 1]
  BY <1>1
<1>4. /\ <<t>> \in Seq(Threads) /\ Len(<<t>>) = 1 /\ <<t>>[1] = t
  OBVIOUS
<1>5. new = (before \o <<t>>) \o after
  BY DEF InsertAt
<1>. HIDE DEF before, after, new
<1>6. /\ before \o <<t>> \in Seq(Threads) /\ Len(before \o <<t>>) = n
      /\ \A i \in 1..n : (before \o <<t>>)[i] = IF i < n THEN list[i] ELSE t
  BY <1>1, <1>2, <1>4, ConcatProperties
<1>7. /\ new \in Seq(Threads) /\ Len(new) = Len(list) + 1
      /\ \A i \in 1..Len(list) + 1 :
           new[i] = IF i < n THEN list[i] ELSE IF i = n THEN t ELSE list[i - 1]
  <2> DEFINE front == before \o <<t>>
  <2>1. /\ front \in Seq(Threads) /\ Len(front) = n
        /\ \A i \in 1..n : front[i] = IF i < n THEN list[i] ELSE t
    BY <1>6
  <2>2. new = front \o after
    BY <1>5
  <2>. HIDE DEF front
  <2>3. /\ new \in Seq(Threads) /\ Len(new) = n + (Len(list) - n + 1)
        /\ \A i \in 1..n : new[i] = front[i]
        /\ \A i \in n + 1..n + (Len(list) - n + 1) : new[i] = after[i - n]
    <3>1. n \in Nat /\ Len(list) - n + 1 \in Nat
      BY <1>1
    <3>2. /\ front \in Seq(Threads) /\ Len(front) = n
          /\ after \in Seq(Threads) /\ Len(after) = Len(list) - n + 1
      BY <1>3, <2>1
    <3>3. new \in Seq(Threads) /\ Joined(new, front, after, n, Len(list) - n + 1)
      BY <2>2, <3>1, <3>2, Concat
    <3>4. QED BY <3>3 DEF Joined
  <2>4. n + (Len(list) - n + 1) = Len(list) + 1
    BY <1>1
  <2>5. ASSUME NEW i \in 1..Len(list) + 1
        PROVE  new[i] = IF i < n THEN list[i] ELSE IF i = n THEN t ELSE list[i - 1]
    <3>1. CASE i <= n
      BY <2>1, <2>3, <2>4, <3>1
    <3>2. CASE i > n
      <4>1. i - n \in 1..Len(list) - n + 1 /\ n + (i - n) - 1 = i - 1
        BY <1>1, <3>2
      <4>2. new[i] = after[i - n] /\ after[i - n] = list[n + (i - n) - 1]
        BY <1>3, <2>3, <2>4, <3>2, <4>1
      <4>3. QED BY <1>1, <3>2, <4>1, <4>2
    <3>3. QED BY <1>1, <3>1, <3>2
  <2>6. QED BY <2>3, <2>4, <2>5
<1>8. \A i \in 1..Len(list) : list[i] # t
  BY <1>1 DEF ToSet
<1>9. \A i, k \in 1..Len(list) : list[i] = list[k] => i = k
  BY <1>1 DEF IsInjective
<1>10. ASSUME NEW i \in 1..Len(list) + 1, NEW k \in 1..Len(list) + 1, new[i] = new[k]
       PROVE  i = k
  <2> DEFINE from(m) == IF m < n THEN m ELSE m - 1
  <2>0. ASSUME NEW m \in 1..Len(list) + 1, m # n
        PROVE  from(m) \in 1..Len(list) /\ new[m] = list[from(m)] /\ new[m] # t
    BY <1>1, <1>7, <1>8, <2>0
  <2>1. new[n] = t
    BY <1>1, <1>7
  <2>2. i = n <=> k = n
    BY <1>10, <2>0, <2>1
  <2>3. CASE i # n /\ k # n
    <3>1. from(i) = from(k)
      BY <1>9, <1>10, <2>0, <2>3
    <3>2. QED BY <1>1, <2>3, <3>1
  <2>4. QED BY <2>2, <2>3
<1>11. IsInjective(new)
  BY <1>7, <1>10, LenProperties DEF IsInjective
<1>12. QED BY <1>7, <1>11 DEF Lists, new

LEMMA RemoveFromList ==
    ASSUME NEW list \in Lists, NEW n \in DOMAIN list
    PROVE  RemoveAt(list, n) \in Lists
<1> DEFINE before == SubSeq(list, 1, n - 1)
           after == SubSeq(list, n + 1, Len(list))
           new == RemoveAt(list, n)
<1>1. /\ list \in Seq(Threads) /\ IsInjective(list) /\ Len(list) \in Nat
      /\ n \in 1..Len(list) /\ n \in Int
  BY ListNumbers DEF Lists
<1>2. /\ before \in Seq(Threads) /\ Len(before) = n - 1
      /\ \A i \in 1..n - 1 : before[i] = list[i]
  BY <1>1
<1>3. /\ after \in Seq(Threads) /\ Len(after) = Len(list) - n
      /\ \A i \in 1..Len(list) - n : after[i] = list[n + i]
  BY <1>1
<1>4. new = before \o after
  BY DEF RemoveAt
<1>. HIDE DEF before, after, new
<1>5. /\ new \in Seq(Threads) /\ Len(new) = Len(list) - 1
      /\ \A i \in 1..Len(list) - 1 : new[i] = IF i < n THEN list[i] ELSE list[i + 1]
  <2>1. /\ new \in Seq(Threads) /\ Len(new) = (n - 1) + (Len(list) - n)
        /\ \A i \in 1..n - 1 : new[i] = before[i]
        /\ \A i \in (n - 1) + 1..(n - 1) + (Len(list) - n) : new[i] = after[i - (n - 1)]
    <3>1. n - 1 \in Nat /\ Len(list) - n \in Nat
      BY <1>1
    <3>2. /\ before \in Seq(Threads) /\ Len(before) = n - 1
          /\ after \in Seq(Threads) /\ Len(after) = Len(list) - n
      BY <1>2, <1>3
    <3>3. new \in Seq(Threads) /\ Joined(new, before, after, n - 1, Len(list) - n)
      BY <1>4, <3>1, <3>2, Concat
    <3>4. QED BY <3>3 DEF Joined
  <2>2. (n - 1) + (Len(list) - n) = Len(list) - 1
    BY <1>1
  <2>3. ASSUME NEW i \in 1..Len(list) - 1
        PROVE  new[i] = IF i < n THEN list[i] ELSE list[i + 1]
    <3>1. CASE i < n
      BY <1>1, <1>2, <2>1, <2>2, <3>1
    <3>2. CASE i >= n
      <4>1. i - (n - 1) \in 1..Len(list) - n /\ n + (i - (n - 1)) = i + 1
        BY <1>1, <3>2
      <4>2. i \in (n - 1) + 1..(n - 1) + (Len(list) - n)
        BY <1>1, <3>2
      <4>3. /\ new[i] = after[i - (n - 1)]
            /\ after[i - (n - 1)] = list[n + (i - (n - 1))]
        BY <1>3, <2>1, <4>1, <4>2
      <4>4. QED BY <1>1, <3>2, <4>1, <4>3
    <3>3. QED BY <1>1, <3>1, <3>2
  <2>4. QED BY <2>1, <2>2, <2>3
<1>6. \A i, k \in 1..Len(list) : list[i] = list[k] => i = k
  BY <1>1 DEF IsInjective
<1>7. ASSUME NEW i \in 1..Len(list) - 1, NEW k \in 1..Len(list) - 1, new[i] = new[k]
      PROVE  i = k
  <2> DEFINE from(m) == IF m < n THEN m ELSE m + 1
  <2>1. from(i) \in 1..Len(list) /\ from(k) \in 1..Len(list)
    BY <1>1
  <2>2. new[i] = list[from(i)] /\ new[k] = list[from(k)]
    BY <1>5
  <2>3. from(i) = from(k)
    BY <1>6, <1>7, <2>1, <2>2
  <2>4. QED BY <1>1, <2>3
<1>8. IsInjective(new)
  BY <1>5, <1>7, LenProperties DEF IsInjective
<1>9. QED BY <1>5, <1>8 DEF Lists, new

LEMMA EmptyList == <<>> \in Lists
BY DEF Lists, IsInjective

LEMMA PinsInList ==
    ASSUME NEW list PROVE Pins(list) \subseteq DOMAIN list
BY DEF Pins

-----------------------------------------------------------------------------
(* What is posted.                                                         *)

LEMMA FrameMessageTypes ==
    ASSUME NEW m \in FrameMessages
    PROVE  /\ m.type \in {"enable", "pins"}
           /\ m.type = "pins" => m.gen \in Nat /\ m.list \in Lists
BY DEF FrameMessages

LEMMA PanelMessageTypes ==
    ASSUME NEW m \in PanelMessages
    PROVE  /\ m.type \in {"ready", "enabled", "positions", "anchors"}
           /\ m.type \in {"positions", "anchors"} =>
                m.gen \in Nat /\ m.list \in Lists /\ m.at \subseteq Numbers
BY DEF PanelMessages

\* The first message is taken.
LEMMA Received ==
    ASSUME NEW S, NEW s \in Seq(S), s # <<>>
    PROVE  /\ Len(s) \in Nat \ {0} /\ Head(s) \in S /\ Head(s) = s[1]
           /\ Tail(s) \in Seq(S) /\ Len(Tail(s)) = Len(s) - 1
           /\ \A i \in 1..Len(s) - 1 : Tail(s)[i] = s[i + 1]
BY HeadTailProperties, EmptySeq

\* The pins that a panel which is ready sends.
PinsMessages(p, times) ==
    [k \in 1..times |-> [type |-> "pins", gen |-> p.gen + k, list |-> p.list]]

LEMMA PinsMessagesType ==
    ASSUME NEW p \in Panels, NEW times \in 1..2
    PROVE  /\ PinsMessages(p, times) \in Seq(FrameMessages)
           /\ Len(PinsMessages(p, times)) = times
<1>1. p.gen \in Nat /\ p.list \in Lists
  BY DEF Panels
<1>2. \A k \in 1..times :
        [type |-> "pins", gen |-> p.gen + k, list |-> p.list] \in FrameMessages
  BY <1>1 DEF FrameMessages
<1>3. PinsMessages(p, times) \in [1..times -> FrameMessages] /\ times \in Nat
  BY <1>2 DEF PinsMessages
<1>4. QED BY <1>3

LEMMA SentType ==
    ASSUME TypeOK, NEW p \in Panels, NEW times \in 1..2, SendPinsTimes(p, times)
    PROVE  /\ panel' \in Panels /\ toFrame' \in Seq(FrameMessages)
           /\ panel' \in {p, [p EXCEPT !.gen = p.gen + times]}
           /\ panel'.gen >= p.gen
<1>1. CASE p.ready
  <2>1. panel' = [p EXCEPT !.gen = p.gen + times] /\ p.gen + times \in Nat
    BY <1>1 DEF SendPinsTimes, Panels
  <2>2. toFrame' = toFrame \o PinsMessages(p, times)
    BY <1>1 DEF SendPinsTimes, PinsMessages
  <2>3. toFrame \in Seq(FrameMessages)
    BY DEF TypeOK
  <2>4. toFrame' \in Seq(FrameMessages)
    BY <2>2, <2>3, PinsMessagesType, ConcatProperties
  <2>5. panel' \in Panels /\ panel'.gen >= p.gen
    BY <2>1 DEF Panels
  <2>6. QED BY <2>1, <2>4, <2>5
<1>2. CASE ~p.ready
  BY <1>2 DEF SendPinsTimes, TypeOK, Panels
<1>3. QED BY <1>1, <1>2

\* The reports of the frame.
PositionsOf(f) ==
    [type |-> "positions", gen |-> f.gen, list |-> f.pins, at |-> InView(f)]
AnchorsOf(f) ==
    [type |-> "anchors", gen |-> f.gen, list |-> f.pins, at |-> Lost(f)]

LEMMA ReportTypes ==
    ASSUME NEW f \in Frames, f.placed \subseteq Pins(f.pins)
    PROVE  /\ PositionsOf(f) \in PanelMessages /\ AnchorsOf(f) \in PanelMessages
           /\ InView(f) \subseteq DOMAIN f.pins /\ Lost(f) \subseteq DOMAIN f.pins
           /\ [gen |-> f.gen, at |-> InView(f)] \in Reports
           /\ Lost(f) \in SUBSET Numbers
<1>1. f.gen \in Nat /\ f.pins \in Lists
  BY DEF Frames
<1>2. DOMAIN f.pins \subseteq Numbers /\ Pins(f.pins) \subseteq DOMAIN f.pins
  BY <1>1, ListNumbers, PinsInList
<1>3. InView(f) \subseteq DOMAIN f.pins /\ Lost(f) \subseteq DOMAIN f.pins
  BY <1>2 DEF InView, Standing, Lost
<1>4. QED BY <1>1, <1>2, <1>3 DEF PositionsOf, AnchorsOf, PanelMessages, Reports

\* Reports of f, all of them among ms, are posted after the messages s; the
\* positions come first, unless they have been reported already or the bridge has
\* nobody to report them to.
PostedAfter(s, new, f, ms) ==
    /\ new \in Seq(PanelMessages) /\ Len(new) >= Len(s)
    /\ \A i \in 1..Len(s) : new[i] = s[i]
    /\ \A i \in Len(s) + 1..Len(new) : new[i] \in ms
    /\ \/ ~f.enabled \/ f.shown = [gen |-> f.gen, at |-> InView(f)]
       \/ Len(new) > Len(s) /\ new[Len(s) + 1] = PositionsOf(f)

LEMMA PositionsPosted ==
    ASSUME NEW f \in Frames, f.placed \subseteq Pins(f.pins),
           NEW s \in Seq(PanelMessages)
    PROVE  PostedAfter(s, s \o Positions(f), f, {PositionsOf(f)})
<1>0. Len(s) \in Nat
  OBVIOUS
<1>1. CASE ~f.enabled \/ f.shown = [gen |-> f.gen, at |-> InView(f)]
  <2>1. s \o Positions(f) = s
    BY <1>1, ConcatEmptySeq DEF Positions
  <2>2. QED BY <1>0, <1>1, <2>1 DEF PostedAfter
<1>2. CASE f.enabled /\ f.shown # [gen |-> f.gen, at |-> InView(f)]
  <2> DEFINE m == PositionsOf(f)
  <2>1. Positions(f) = <<m>>
    BY <1>2 DEF Positions, PositionsOf
  <2>2. m \in PanelMessages
    BY ReportTypes
  <2>. HIDE DEF m
  <2>3. s \o <<m>> = Append(s, m)
    BY <2>2, AppendIsConcat
  <2>4. QED
    BY <1>0, <2>1, <2>2, <2>3, AppendProperties DEF PostedAfter, m
<1>3. QED BY <1>1, <1>2

LEMMA ReportsPosted ==
    ASSUME NEW f \in Frames, f.placed \subseteq Pins(f.pins),
           NEW s \in Seq(PanelMessages), NEW force \in BOOLEAN
    PROVE  PostedAfter(s, s \o Positions(f) \o Anchors(f, force), f,
                       {PositionsOf(f), AnchorsOf(f)})
<1> DEFINE first == s \o Positions(f)
           both == {PositionsOf(f), AnchorsOf(f)}
<1>1. PostedAfter(s, first, f, {PositionsOf(f)})
  BY PositionsPosted
<1>2. first \in Seq(PanelMessages) /\ Len(first) \in Nat /\ Len(s) \in Nat
  BY <1>1 DEF PostedAfter
<1>. HIDE DEF first
<1>3. CASE ~force /\ f.lost = Lost(f)
  <2>1. first \o Anchors(f, force) = first
    BY <1>2, <1>3, ConcatEmptySeq DEF Anchors
  <2>2. PostedAfter(s, first, f, both)
    BY <1>1 DEF PostedAfter
  <2>3. QED BY <2>1, <2>2 DEF first
<1>4. CASE ~(~force /\ f.lost = Lost(f))
  <2> DEFINE m == AnchorsOf(f)
  <2>1. Anchors(f, force) = <<m>>
    BY <1>4 DEF Anchors, AnchorsOf
  <2>2. m \in PanelMessages
    BY ReportTypes
  <2>. HIDE DEF m
  <2>3. first \o <<m>> = Append(first, m)
    BY <1>2, <2>2, AppendIsConcat
  <2>4. PostedAfter(s, Append(first, m), f, both)
    <3> DEFINE new == Append(first, m)
    <3>1. /\ new \in Seq(PanelMessages) /\ Len(new) = Len(first) + 1
          /\ \A i \in 1..Len(first) : new[i] = first[i]
          /\ new[Len(first) + 1] = m
      BY <1>2, <2>2, AppendProperties
    <3>. HIDE DEF new
    <3>2. Len(first) >= Len(s) /\ \A i \in 1..Len(s) : new[i] = s[i]
      BY <1>1, <1>2, <3>1 DEF PostedAfter
    <3>3. \A i \in Len(s) + 1..Len(new) : new[i] \in {PositionsOf(f), m}
      BY <1>1, <1>2, <3>1 DEF PostedAfter
    <3>4. \/ ~f.enabled \/ f.shown = [gen |-> f.gen, at |-> InView(f)]
          \/ Len(first) > Len(s) /\ new[Len(s) + 1] = PositionsOf(f)
      BY <1>1, <1>2, <3>1 DEF PostedAfter
    <3>5. new \in Seq(PanelMessages) /\ Len(new) >= Len(s)
      BY <1>2, <3>1, <3>2
    <3>6. QED BY <3>1, <3>2, <3>3, <3>4, <3>5 DEF PostedAfter, m, new
  <2>5. QED BY <2>1, <2>3, <2>4 DEF first
<1>5. QED BY <1>3, <1>4

-----------------------------------------------------------------------------
(* Type correctness.                                                       *)

\* The frame, whichever of its actions has run.
FrameOk(f) ==
    /\ f \in Frames
    /\ f.gone \subseteq f.placed /\ f.placed \subseteq Pins(f.pins)
    /\ f.waiting # None => f.doc = "loading" /\ f.pins = <<>>
    /\ f.enabled => f.doc \in {"loading", "complete"}
    /\ f.doc # "complete" => f.pins = <<>>
    /\ f.gen > 0 \/ f.waiting # None => f.enabled

LEMMA FrameIsOk == TypeOK /\ PinsPlaced => FrameOk(frame)
BY DEF TypeOK, PinsPlaced, FrameOk

LEMMA DrawnType ==
    ASSUME NEW f, FrameOk(f)
    PROVE  /\ FrameOk(Drawn(f))
           /\ Drawn(f).shown = [gen |-> f.gen, at |-> InView(f)]
           /\ Drawn(f).gen = f.gen /\ Drawn(f).pins = f.pins
           /\ Drawn(f).waiting = f.waiting
<1> DEFINE report == [gen |-> f.gen, at |-> InView(f)]
<1>1. report \in Reports
  BY ReportTypes DEF FrameOk
<1>2. Drawn(f) = [f EXCEPT !.redraw = FALSE, !.shifted = FALSE, !.shown = report]
  BY DEF Drawn
<1>. HIDE DEF report
<1>3. QED BY <1>1, <1>2 DEF FrameOk, Frames, report

LEMMA ReportedType ==
    ASSUME TypeOK, NEW f, FrameOk(f), NEW force \in BOOLEAN, PlaceAndReport(f, force)
    PROVE  /\ FrameOk(frame')
           /\ PostedAfter(toPanel, toPanel', f, {PositionsOf(f), AnchorsOf(f)})
           /\ frame'.shown = [gen |-> f.gen, at |-> InView(f)]
           /\ frame'.gen = f.gen /\ frame'.pins = f.pins
           /\ frame'.waiting = f.waiting
<1> DEFINE drawn == Drawn(f)
           lost == Lost(f)
<1>1. lost \in SUBSET Numbers
  BY ReportTypes DEF FrameOk
<1>2. /\ FrameOk(drawn) /\ drawn.gen = f.gen /\ drawn.pins = f.pins
      /\ drawn.waiting = f.waiting /\ drawn.shown = [gen |-> f.gen, at |-> InView(f)]
  BY DrawnType
<1>3. frame' = [drawn EXCEPT !.lost = lost]
  BY DEF PlaceAndReport
<1>4. PostedAfter(toPanel, toPanel', f, {PositionsOf(f), AnchorsOf(f)})
  BY ReportsPosted DEF PlaceAndReport, FrameOk, TypeOK
<1>. HIDE DEF drawn, lost
<1>5. QED BY <1>1, <1>2, <1>3, <1>4 DEF FrameOk, Frames

\* Pins are taken by a document that is complete.
LEMMA SetType ==
    ASSUME TypeOK, NEW f \in Frames, f.doc = "complete", f.enabled, NEW list \in Lists,
           SetPins(f, list)
    PROVE  \E g : /\ FrameOk(g) /\ g.gen = f.gen /\ g.pins = list /\ g.waiting = None
                  /\ g.shown = f.shown /\ g.doc = f.doc /\ g.enabled = f.enabled
                  /\ g.placed = Resolved(g) /\ g.gone = {} /\ PlaceAndReport(g, TRUE)
<1> DEFINE h == [f EXCEPT !.pins = list, !.waiting = None]
           placed == Resolved(h)
           g == [h EXCEPT !.placed = placed, !.gone = {}]
<1>1. /\ h \in Frames /\ h.pins = list /\ h.waiting = None /\ h.gen = f.gen
      /\ h.doc = "complete" /\ h.shown = f.shown /\ h.enabled = f.enabled
  BY DEF Frames
<1>2. placed \subseteq Pins(h.pins) /\ placed \in SUBSET Numbers
  BY <1>1, ListNumbers, PinsInList DEF Resolved
<1>3. Taken(f, list) = g
  BY DEF Taken
<1>. HIDE DEF h, placed
<1>4. /\ g \in Frames /\ g.placed = placed /\ g.gone = {} /\ g.pins = h.pins
      /\ g.waiting = h.waiting /\ g.gen = h.gen /\ g.doc = h.doc /\ g.shown = h.shown
      /\ g.enabled = h.enabled /\ g.dom = h.dom
  BY <1>1, <1>2 DEF Frames
<1>5. FrameOk(g)
  BY <1>1, <1>2, <1>4 DEF FrameOk
<1>6. PlaceAndReport(g, TRUE)
  BY <1>3 DEF SetPins
<1>. HIDE DEF g
<1>7. g.placed = Resolved(g)
  BY <1>4 DEF Resolved, placed
<1>8. QED BY <1>1, <1>4, <1>5, <1>6, <1>7

LEMMA NewDocumentType ==
    ASSUME NEW dom \in SUBSET Anchored, NEW view \in SUBSET Anchored
    PROVE  /\ FrameOk(NewDocument(dom, view))
           /\ NewDocument(dom, view).gen = 0 /\ NewDocument(dom, view).shown = None
           /\ NewDocument(dom, view).waiting = None /\ NewDocument(dom, view).pins = <<>>
BY EmptyList DEF NewDocument, FrameOk, Frames

LEMMA ChangeType ==
    ASSUME TypeOK, Change
    PROVE  /\ stored'.list \in Lists /\ stored'.rev = stored.rev + 1
           /\ stored' = [list |-> stored'.list, rev |-> stored'.rev]
<1>1. stored.list \in Lists
  BY DEF TypeOK
<1>2. ASSUME NEW t \in Threads \ ToSet(stored.list), NEW n \in 1..Len(stored.list) + 1,
             stored' = [list |-> InsertAt(stored.list, n, t), rev |-> stored.rev + 1]
      PROVE  stored'.list \in Lists
  BY <1>1, <1>2, InsertInList
<1>3. ASSUME NEW n \in DOMAIN stored.list,
             stored' = [list |-> RemoveAt(stored.list, n), rev |-> stored.rev + 1]
      PROVE  stored'.list \in Lists
  BY <1>1, <1>3, RemoveFromList
<1>4. QED BY <1>2, <1>3 DEF Change

LoadRecords == [pc : {"idle", "sent", "answered"}, seq : Seqs, list : Lists, rev : Revs]

LEMMA InitTypeOK == Init => TypeOK /\ PinsPlaced
<1> SUFFICES ASSUME Init PROVE TypeOK /\ PinsPlaced
  OBVIOUS
<1>1. MaxActs \in Nat /\ 0 \in Revs /\ 0 \in Seqs /\ 1 \in Seqs
  BY LimitsAssumption DEF Revs, Seqs
<1>2. stored \in [list : Lists, rev : Revs] /\ stored.rev = 0
  BY <1>1, InitialAssumption DEF Init, Start
<1>3. NoLoad \in LoadRecords /\ [NoLoad EXCEPT !.pc = "sent", !.seq = 1] \in LoadRecords
  BY <1>1, EmptyList DEF NoLoad, LoadRecords
<1>4. load \in [Loads -> LoadRecords]
  BY <1>3 DEF Init, Start
<1>5. <<>> \in Tops
  BY DEF Tops
<1>6. panel \in Panels /\ panel.rev = 0 /\ panel.unplaced = {} /\ panel.gen = 0
  BY <1>1, <1>5, EmptyList DEF Init, Start, NewPanel, Panels
<1>7. FrameOk(frame) /\ frame.gen = 0
  BY NewDocumentType DEF Init, Start
<1>8. toFrame \in Seq(FrameMessages) /\ toPanel \in Seq(PanelMessages)
  BY DEF Init, Start, FrameMessages
<1>9. /\ own \in [pc : {"none", "sent", "done"}, rev : Revs, acked : Revs]
      /\ own.acked = 0 /\ loadEvent \in BOOLEAN /\ acts \in Revs
  BY <1>1 DEF Init, Start
<1>10. QED
  BY <1>2, <1>4, <1>6, <1>7, <1>8, <1>9 DEF TypeOK, LoadRecords, FrameOk, PinsPlaced, Revs

\* What a step of the frame keeps.
FrameKept ==
    /\ FrameOk(frame') /\ frame'.gen <= panel.gen
    /\ toFrame' \in Seq(FrameMessages) /\ toPanel' \in Seq(PanelMessages)

LEMMA FrameReceivesType ==
    ASSUME TypeOK, PinsPlaced, PinsCurrent, FrameReceives PROVE FrameKept
<1> DEFINE m == Head(toFrame)
           f == [frame EXCEPT !.gen = m.gen]
<1>1. /\ frame \in Frames /\ FrameOk(frame) /\ frame.gen <= panel.gen
      /\ toPanel \in Seq(PanelMessages) /\ toFrame \in Seq(FrameMessages)
  BY FrameIsOk DEF TypeOK
<1>2. /\ m \in FrameMessages /\ m = toFrame[1] /\ 1 \in 1..Len(toFrame)
      /\ toFrame' \in Seq(FrameMessages)
  BY <1>1, Received DEF FrameReceives
<1>3. m.type = "pins" => m.gen \in Nat /\ m.gen <= panel.gen /\ m.list \in Lists
  BY <1>2, FrameMessageTypes DEF PinsCurrent, PinsOk
<1>4. CASE UNCHANGED <<frame, toPanel>>
  BY <1>1, <1>2, <1>4 DEF FrameKept
<1>5. CASE /\ frame.doc \in {"loading", "complete"}
           /\ frame' = [frame EXCEPT !.enabled = TRUE]
           /\ toPanel' = Append(toPanel, [type |-> "enabled"])
  <2>1. FrameOk(frame') /\ frame'.gen = frame.gen
    BY <1>1, <1>5 DEF FrameOk, Frames
  <2>2. [type |-> "enabled"] \in PanelMessages
    BY DEF PanelMessages
  <2>3. QED BY <1>1, <1>2, <1>5, <2>1, <2>2 DEF FrameKept
<1>6. CASE /\ frame.doc = "loading" /\ m.type = "pins" /\ frame.enabled
           /\ frame' = [f EXCEPT !.waiting = m.list]
           /\ UNCHANGED toPanel
  <2>1. FrameOk(frame') /\ frame'.gen = m.gen
    BY <1>1, <1>3, <1>6 DEF FrameOk, Frames
  <2>2. QED BY <1>1, <1>2, <1>3, <1>6, <2>1 DEF FrameKept
<1>7. CASE frame.doc = "complete" /\ m.type = "pins" /\ frame.enabled /\ SetPins(f, m.list)
  <2>1. /\ f \in Frames /\ f.doc = "complete" /\ f.gen = m.gen /\ f.enabled
        /\ m.list \in Lists /\ SetPins(f, m.list)
    BY <1>1, <1>3, <1>7 DEF Frames
  <2>. HIDE DEF f
  <2>2. PICK g : FrameOk(g) /\ g.gen = m.gen /\ PlaceAndReport(g, TRUE)
    <3>1. ASSUME NEW list \in Lists, SetPins(f, list)
          PROVE  \E g : /\ FrameOk(g) /\ g.gen = f.gen /\ g.pins = list
                        /\ g.waiting = None /\ g.shown = f.shown /\ g.doc = f.doc
                        /\ g.enabled = f.enabled /\ g.placed = Resolved(g) /\ g.gone = {}
                        /\ PlaceAndReport(g, TRUE)
      BY <2>1, <3>1, SetType
    <3>2. QED BY <2>1, <3>1
  <2>3. FrameOk(frame') /\ frame'.gen = m.gen /\ toPanel' \in Seq(PanelMessages)
    BY <2>2, ReportedType DEF PostedAfter
  <2>4. QED BY <1>2, <1>3, <1>7, <2>3 DEF FrameKept
<1>8. QED BY <1>4, <1>5, <1>6, <1>7 DEF FrameReceives

LEMMA RecheckType ==
    ASSUME TypeOK, PinsPlaced, Recheck PROVE FrameKept
<1> DEFINE f == [frame EXCEPT !.recheck = FALSE]
           placed == Standing(f) \cup Resolved(f)
           g == [f EXCEPT !.placed = placed, !.gone = {}]
<1>1. /\ FrameOk(frame) /\ frame.gen <= panel.gen
      /\ toPanel \in Seq(PanelMessages) /\ toFrame \in Seq(FrameMessages)
  BY FrameIsOk DEF TypeOK
<1>2. FrameOk(f) /\ f.gen = frame.gen
  BY <1>1 DEF FrameOk, Frames
<1>3. placed \subseteq Pins(f.pins) /\ placed \in SUBSET Numbers
  BY <1>2, ListNumbers, PinsInList DEF Standing, Resolved, FrameOk, Frames
<1>4. \/ frame' = f /\ toPanel' = toPanel
      \/ PlaceAndReport(g, FALSE)
  BY DEF Recheck
<1>5. toFrame' = toFrame
  BY DEF Recheck
<1>. HIDE DEF f, placed
<1>6. FrameOk(g) /\ g.gen = f.gen
  BY <1>2, <1>3 DEF FrameOk, Frames
<1>7. ASSUME PlaceAndReport(g, FALSE) PROVE FrameKept
  BY <1>1, <1>2, <1>5, <1>6, <1>7, ReportedType DEF FrameKept, PostedAfter
<1>8. QED BY <1>1, <1>2, <1>4, <1>5, <1>7 DEF FrameKept

LEMMA RedrawType ==
    ASSUME TypeOK, PinsPlaced, Redraw PROVE FrameKept
<1>1. /\ FrameOk(frame) /\ frame.gen <= panel.gen
      /\ toPanel \in Seq(PanelMessages) /\ toFrame \in Seq(FrameMessages)
  BY FrameIsOk DEF TypeOK
<1>2. FrameOk(frame') /\ frame'.gen = frame.gen
  BY <1>1, DrawnType DEF Redraw
<1>3. toPanel' \in Seq(PanelMessages)
  BY <1>1, PositionsPosted DEF Redraw, PostedAfter, FrameOk
<1>4. QED BY <1>1, <1>2, <1>3 DEF Redraw, FrameKept

LEMMA CompleteType ==
    ASSUME TypeOK, PinsPlaced, DocumentComplete PROVE FrameKept
<1> DEFINE f == [frame EXCEPT !.doc = "complete"]
<1>1. /\ FrameOk(frame) /\ frame.gen <= panel.gen /\ frame \in Frames
      /\ toPanel \in Seq(PanelMessages) /\ toFrame \in Seq(FrameMessages)
  BY FrameIsOk DEF TypeOK
<1>2. /\ f \in Frames /\ f.doc = "complete" /\ f.gen = frame.gen
      /\ frame.waiting = None => FrameOk(f)
      /\ frame.waiting # None => frame.waiting \in Lists /\ f.enabled
  BY <1>1 DEF FrameOk, Frames
<1>3. /\ toFrame' = toFrame
      /\ \/ frame.waiting = None /\ frame' = f /\ toPanel' = toPanel
         \/ frame.waiting # None /\ SetPins(f, frame.waiting)
  BY DEF DocumentComplete
<1>4. ASSUME frame.waiting # None, SetPins(f, frame.waiting) PROVE FrameKept
  <2>1. PICK g : FrameOk(g) /\ g.gen = f.gen /\ PlaceAndReport(g, TRUE)
    BY <1>2, <1>4, SetType
  <2>2. FrameOk(frame') /\ frame'.gen = f.gen /\ toPanel' \in Seq(PanelMessages)
    BY <2>1, ReportedType DEF PostedAfter
  <2>3. QED BY <1>1, <1>2, <1>3, <2>2 DEF FrameKept
<1>5. QED BY <1>1, <1>2, <1>3, <1>4 DEF FrameKept

LEMMA DocumentType ==
    ASSUME TypeOK, PinsPlaced,
           \/ BridgeStarts \/ PlainPage \/ Navigate \/ Scroll \/ Shift
           \/ \E t \in Anchored : Mutate(t)
    PROVE  FrameKept
<1>1. /\ FrameOk(frame) /\ frame.gen \in Nat /\ panel.gen \in Nat
      /\ frame.gen <= panel.gen
      /\ toPanel \in Seq(PanelMessages) /\ toFrame \in Seq(FrameMessages)
  BY FrameIsOk DEF TypeOK, Frames, Panels
<1>2. CASE BridgeStarts
  <2>1. FrameOk(frame') /\ frame'.gen = frame.gen
    BY <1>1, <1>2 DEF BridgeStarts, FrameOk, Frames
  <2>2. [type |-> "ready"] \in PanelMessages
    BY DEF PanelMessages
  <2>3. QED BY <1>1, <1>2, <2>1, <2>2 DEF BridgeStarts, FrameKept
<1>3. CASE PlainPage
  <2>1. FrameOk(frame') /\ frame'.gen = frame.gen
    BY <1>1, <1>3 DEF PlainPage, FrameOk, Frames
  <2>2. QED BY <1>1, <1>3, <2>1 DEF PlainPage, FrameKept
<1>4. CASE Navigate
  BY <1>1, <1>4, NewDocumentType DEF Navigate, FrameKept
<1>5. ASSUME NEW t \in Anchored, Mutate(t) PROVE FrameKept
  <2> DEFINE dom == IF t \in frame.dom THEN frame.dom \ {t} ELSE frame.dom \cup {t}
             gone == frame.gone \cup {n \in frame.placed : frame.pins[n] = t}
             recheck == frame.recheck \/ frame.enabled
             redraw == frame.redraw \/ frame.enabled
  <2>1. /\ dom \in SUBSET Anchored /\ gone \in SUBSET Numbers
        /\ gone \subseteq frame.placed
    BY <1>1 DEF FrameOk, Frames
  <2>2. PICK view \in SUBSET Anchored :
          frame' = [frame EXCEPT !.dom = dom, !.gone = gone, !.recheck = recheck,
                                 !.redraw = redraw, !.view = view]
    BY <1>5 DEF Mutate, Moves
  <2>3. recheck \in BOOLEAN /\ redraw \in BOOLEAN
    OBVIOUS
  <2>. HIDE DEF dom, gone, recheck, redraw
  <2>4. FrameOk(frame') /\ frame'.gen = frame.gen
    BY <1>1, <2>1, <2>2, <2>3 DEF FrameOk, Frames
  <2>5. QED BY <1>1, <1>5, <2>4 DEF Mutate, FrameKept
<1>6. CASE Scroll
  <2>1. PICK view \in SUBSET Anchored :
          frame' = [frame EXCEPT !.redraw = TRUE, !.view = view]
    BY <1>6 DEF Scroll, Moves
  <2>2. FrameOk(frame') /\ frame'.gen = frame.gen
    BY <1>1, <2>1 DEF FrameOk, Frames
  <2>3. QED BY <1>1, <1>6, <2>2 DEF Scroll, FrameKept
<1>7. CASE Shift
  <2>1. PICK view \in SUBSET Anchored :
          frame' = [frame EXCEPT !.shifted = TRUE, !.view = view]
    BY <1>7 DEF Shift, Moves
  <2>2. FrameOk(frame') /\ frame'.gen = frame.gen
    BY <1>1, <2>1 DEF FrameOk, Frames
  <2>3. QED BY <1>1, <1>7, <2>2 DEF Shift, FrameKept
<1>8. QED BY <1>2, <1>3, <1>4, <1>5, <1>6, <1>7

\* What a step of the panel keeps.
PanelKept ==
    /\ panel' \in Panels /\ panel'.rev <= stored'.rev
    /\ panel'.unplaced \subseteq DOMAIN panel'.list
    /\ frame.gen <= panel'.gen /\ toFrame' \in Seq(FrameMessages)

LEMMA PanelIsKept ==
    ASSUME TypeOK, UNCHANGED <<panel, toFrame>>,
           stored'.rev \in Nat /\ stored'.rev >= stored.rev
    PROVE  PanelKept
BY DEF TypeOK, PanelKept, Panels, Revs

LEMMA LoadedType ==
    ASSUME TypeOK, LoadsFresh, NEW l \in Loads, Loaded(l) PROVE PanelKept
<1> DEFINE p == [panel EXCEPT !.list = load[l].list, !.rev = load[l].rev,
                   !.first = FALSE, !.status = "shown",
                   !.unplaced = {}, !.about = load[l].list]
<1>1. /\ load[l].list \in Lists /\ load[l].rev \in Revs /\ load[l].rev <= stored.rev
      /\ panel \in Panels /\ frame.gen <= panel.gen
      /\ frame.gen \in Nat /\ panel.gen \in Nat
  BY DEF TypeOK, LoadsFresh, Panels, Frames
<1>2. /\ p \in Panels /\ p.rev = load[l].rev /\ p.unplaced = {} /\ p.gen = panel.gen
  BY <1>1 DEF Panels
<1>3. stored' = stored
      /\ \/ UNCHANGED <<panel, toFrame>>
         \/ SendPinsTimes(p, 1) \/ SendPinsTimes(p, 2)
  BY DEF Loaded, SendPins
<1>. HIDE DEF p
<1>4. ASSUME NEW times \in 1..2, SendPinsTimes(p, times) PROVE PanelKept
  <2>1. /\ panel' \in Panels /\ toFrame' \in Seq(FrameMessages)
        /\ panel' \in {p, [p EXCEPT !.gen = p.gen + times]} /\ panel'.gen >= p.gen
    BY <1>2, <1>4, SentType
  <2>2. panel'.rev = p.rev /\ panel'.unplaced = p.unplaced
    BY <1>2, <2>1 DEF Panels
  <2>3. QED BY <1>1, <1>2, <1>3, <2>1, <2>2 DEF PanelKept, Panels
<1>5. CASE UNCHANGED <<panel, toFrame>>
  BY <1>3, <1>5, PanelIsKept DEF TypeOK, Revs
<1>6. QED BY <1>3, <1>4, <1>5

LEMMA ShowPanelType == ASSUME TypeOK, ShowPanel PROVE PanelKept
<1>1. /\ panel' \in Panels /\ toFrame' \in Seq(FrameMessages)
      /\ panel' \in {panel, [panel EXCEPT !.gen = panel.gen + 1]}
      /\ panel'.gen >= panel.gen
  BY SentType DEF ShowPanel, SendPins, TypeOK
<1>2. panel'.rev = panel.rev /\ panel'.unplaced = panel.unplaced
      /\ panel'.list = panel.list
  BY <1>1 DEF TypeOK, Panels
<1>3. QED BY <1>1, <1>2 DEF ShowPanel, PanelKept, TypeOK, Panels, Frames, Revs

LEMMA EnableType ==
    ASSUME TypeOK, Enable PROVE toFrame' \in Seq(FrameMessages)
<1>1. [type |-> "enable"] \in FrameMessages
  BY DEF FrameMessages
<1>2. QED BY <1>1 DEF Enable, TypeOK

LEMMA FrameLoadedType == ASSUME TypeOK, FrameLoaded PROVE PanelKept
<1>1. <<>> \in Tops
  BY DEF Tops
<1>2. panel' = [panel EXCEPT !.ready = FALSE, !.tops = <<>>] /\ stored' = stored
      /\ toFrame' \in Seq(FrameMessages)
  BY EnableType DEF FrameLoaded
<1>3. /\ panel' \in Panels /\ panel'.rev = panel.rev /\ panel'.list = panel.list
      /\ panel'.unplaced = panel.unplaced /\ panel'.gen = panel.gen
  BY <1>1, <1>2 DEF TypeOK, Panels
<1>4. QED BY <1>2, <1>3 DEF PanelKept, TypeOK

\* What the panel takes from a report about its list.
LEMMA ReportTaken ==
    ASSUME TypeOK, PinsCurrent, PanelReceives,
           Head(toPanel).type \in {"positions", "anchors"}
    PROVE  LET m == Head(toPanel)
               about == {n \in DOMAIN panel.list : n \in m.at}
           IN  /\ m.list \in Lists /\ m.gen \in Nat /\ m.gen <= panel.gen
               /\ about \in SUBSET Numbers /\ about \subseteq DOMAIN panel.list
               /\ [n \in about |-> m.list[n]] \in Tops
<1> DEFINE m == Head(toPanel)
           about == {n \in DOMAIN panel.list : n \in m.at}
<1>1. m \in PanelMessages /\ m = toPanel[1] /\ 1 \in 1..Len(toPanel)
  BY Received DEF TypeOK, PanelReceives
<1>2. /\ m.list \in Lists /\ m.gen \in Nat /\ m.gen <= panel.gen
      /\ m.at \subseteq DOMAIN m.list
  BY <1>1, PanelMessageTypes DEF PinsCurrent, ReportOk
<1>3. panel.list \in Lists
  BY DEF TypeOK, Panels
<1>4. about \in SUBSET Numbers /\ about \subseteq DOMAIN panel.list
  BY <1>3, ListNumbers
<1>5. \A n \in about : m.list[n] \in Threads
  BY <1>2, ListNumbers, ElementOfSeq
<1>6. [n \in about |-> m.list[n]] \in [about -> Threads]
  BY <1>5
<1>7. [n \in about |-> m.list[n]] \in Tops
  BY <1>4, <1>6 DEF Tops
<1>8. QED BY <1>2, <1>4, <1>7

LEMMA PanelReceivesType ==
    ASSUME TypeOK, PinsCurrent, PanelReceives
    PROVE  PanelKept /\ toPanel' \in Seq(PanelMessages)
<1> DEFINE m == Head(toPanel)
           about == {n \in DOMAIN panel.list : n \in m.at}
           tops == [n \in about |-> m.list[n]]
           p == [panel EXCEPT !.ready = TRUE]
<1>1. /\ panel \in Panels /\ panel.gen \in Nat /\ frame.gen \in Nat
      /\ frame.gen <= panel.gen
      /\ panel.rev <= stored.rev /\ panel.unplaced \subseteq DOMAIN panel.list
      /\ toFrame \in Seq(FrameMessages) /\ stored' = stored
  BY DEF TypeOK, Panels, Frames, PanelReceives
<1>2. toPanel' \in Seq(PanelMessages)
  BY Received DEF TypeOK, PanelReceives
<1>3. CASE Enable /\ UNCHANGED panel
  BY <1>1, <1>2, <1>3, EnableType DEF PanelKept
<1>4. CASE SendPins(p)
  <2>1. /\ p \in Panels /\ p.gen = panel.gen /\ p.rev = panel.rev
        /\ p.unplaced = panel.unplaced /\ p.list = panel.list
    BY <1>1 DEF Panels
  <2>. HIDE DEF p
  <2>2. /\ panel' \in Panels /\ toFrame' \in Seq(FrameMessages)
        /\ panel' \in {p, [p EXCEPT !.gen = p.gen + 1]} /\ panel'.gen >= p.gen
    BY <1>4, <2>1, SentType DEF SendPins
  <2>3. panel'.rev = p.rev /\ panel'.unplaced = p.unplaced /\ panel'.list = p.list
    BY <2>1, <2>2 DEF Panels
  <2>4. QED BY <1>1, <1>2, <2>1, <2>2, <2>3 DEF PanelKept, Panels
<1>5. CASE /\ m.type = "positions" /\ panel' = [panel EXCEPT !.tops = tops]
           /\ UNCHANGED toFrame
  <2>1. tops \in Tops
    BY <1>5, ReportTaken
  <2>. HIDE DEF tops
  <2>2. QED BY <1>1, <1>2, <1>5, <2>1 DEF PanelKept, Panels
<1>6. CASE /\ m.type = "anchors"
           /\ panel' = [panel EXCEPT !.unplaced = about, !.heard = panel.gen,
                                     !.about = m.list]
           /\ UNCHANGED toFrame
  <2>1. /\ about \in SUBSET Numbers /\ about \subseteq DOMAIN panel.list
        /\ m.list \in Lists
    BY <1>6, ReportTaken
  <2>. HIDE DEF about, m
  <2>2. QED BY <1>1, <1>2, <1>6, <2>1 DEF PanelKept, Panels
<1>7. CASE UNCHANGED <<panel, toFrame>>
  BY <1>1, <1>2, <1>7 DEF PanelKept
<1>8. QED BY <1>3, <1>4, <1>5, <1>6, <1>7 DEF PanelReceives

\* What a step keeps of the list, this viewer's change and the loads.
ListKept ==
    /\ stored' \in [list : Lists, rev : Revs] /\ stored'.rev >= stored.rev
    /\ own' \in [pc : {"none", "sent", "done"}, rev : Revs, acked : Revs]
    /\ own'.acked <= stored'.rev
    /\ load' \in [Loads -> LoadRecords]
    /\ acts' \in Revs

\* The same as facts about the state.
LEMMA ListTypes ==
    ASSUME TypeOK
    PROVE  /\ MaxActs \in Nat /\ stored \in [list : Lists, rev : Revs]
           /\ stored.list \in Lists /\ stored.rev \in Revs
           /\ own \in [pc : {"none", "sent", "done"}, rev : Revs, acked : Revs]
           /\ own.acked <= stored.rev /\ acts \in Revs
           /\ load \in [Loads -> LoadRecords]
           /\ panel \in Panels /\ panel.seq \in Seqs
BY LimitsAssumption DEF TypeOK, LoadRecords, Panels

LEMMA NoLoadType == NoLoad \in LoadRecords
<1>1. 0 \in Revs /\ 0 \in Seqs
  BY LimitsAssumption DEF Revs, Seqs
<1>2. QED BY <1>1, EmptyList DEF NoLoad, LoadRecords

LEMMA StartLoadType ==
    ASSUME TypeOK, NEW l \in Loads, StartLoad(l), panel.seq + 1 \in Seqs
    PROVE  /\ load' \in [Loads -> LoadRecords]
           /\ panel' \in Panels /\ panel'.rev = panel.rev /\ panel'.list = panel.list
           /\ panel'.unplaced = panel.unplaced /\ panel'.gen = panel.gen
           /\ panel'.status = "loading"
           /\ panel'.seq = panel.seq + 1
<1> DEFINE seq == panel.seq + 1
           new == [NoLoad EXCEPT !.pc = "sent", !.seq = seq]
<1>1. seq \in Seqs
  OBVIOUS
<1>2. load' = [load EXCEPT ![l] = new]
      /\ panel' = [panel EXCEPT !.seq = seq, !.status = "loading"]
  BY DEF StartLoad
<1>. HIDE DEF seq
<1>3. new \in LoadRecords
  <2>1. NoLoad \in LoadRecords
    BY NoLoadType
  <2>2. QED BY <1>1, <2>1 DEF LoadRecords
<1>. HIDE DEF new
<1>4. load' \in [Loads -> LoadRecords]
  BY <1>2, <1>3, ListTypes
<1>5. QED BY <1>1, <1>2, <1>4, ListTypes DEF Panels, seq

LEMMA OwnSteps ==
    ASSUME TypeOK, Budget, OthersChange \/ Submit \/ Apply PROVE ListKept /\ PanelKept
<1>1. CASE OthersChange
  <2>1. /\ stored'.list \in Lists /\ stored'.rev = stored.rev + 1
        /\ stored' = [list |-> stored'.list, rev |-> stored'.rev]
    BY <1>1, ChangeType DEF OthersChange
  <2>2. acts' \in Revs /\ stored'.rev \in Revs /\ stored'.rev >= stored.rev
        /\ own'.acked <= stored'.rev
    BY <1>1, <2>1, ListTypes DEF OthersChange, Act, Budget, Revs
  <2>3. stored' \in [list : Lists, rev : Revs]
    BY <2>1, <2>2
  <2>4. PanelKept
    BY <1>1, <2>2, PanelIsKept DEF OthersChange, Revs
  <2>5. QED BY <1>1, <2>2, <2>3, <2>4, ListTypes DEF OthersChange, ListKept
<1>2. CASE Submit
  <2>1. ListKept
    BY <1>2, ListTypes DEF Submit, Act, ListKept, Revs
  <2>2. QED BY <1>2, <2>1, ListTypes, PanelIsKept DEF Submit, Revs
<1>3. CASE Apply
  <2>1. /\ stored'.list \in Lists /\ stored'.rev = stored.rev + 1
        /\ stored' = [list |-> stored'.list, rev |-> stored'.rev]
    BY <1>3, ChangeType DEF Apply
  <2>2. stored'.rev \in Revs /\ stored'.rev >= stored.rev
    BY <1>3, <2>1, ListTypes DEF Apply, Budget, Revs
  <2>3. stored' \in [list : Lists, rev : Revs]
    BY <2>1, <2>2
  <2>4. /\ own' \in [pc : {"none", "sent", "done"}, rev : Revs, acked : Revs]
        /\ own'.acked = own.acked
    BY <1>3, <2>2, ListTypes DEF Apply
  <2>5. own'.acked <= stored'.rev
    BY <2>2, <2>4, ListTypes DEF Revs
  <2>6. PanelKept
    BY <1>3, <2>2, PanelIsKept DEF Apply, Revs
  <2>7. QED BY <1>3, <2>2, <2>3, <2>4, <2>5, <2>6, ListTypes DEF Apply, ListKept
<1>4. QED BY <1>1, <1>2, <1>3

LEMMA LoadSteps ==
    ASSUME TypeOK, Budget, LoadsFresh, NEW l \in Loads,
           Submitted(l) \/ Reload(l) \/ Answer(l) \/ Loaded(l) \/ LoadFails(l)
    PROVE  ListKept /\ PanelKept
<1>1. /\ frame.gen <= panel.gen /\ panel.rev <= stored.rev
      /\ panel.unplaced \subseteq DOMAIN panel.list /\ toFrame \in Seq(FrameMessages)
      /\ stored.rev \in Nat /\ acts \in Nat /\ acts <= MaxActs /\ panel.seq \in Nat
  BY DEF TypeOK, Panels, Revs, Seqs
<1>2. CASE Submitted(l)
  <2>1. panel.seq + 1 \in Seqs
    BY <1>1, <1>2, ListTypes DEF Submitted, Budget, Seqs
  <2>2. own.rev \in Revs /\ own.rev <= stored.rev
    BY <1>2, ListTypes DEF Submitted, LoadsFresh
  <2>3. /\ own' \in [pc : {"none", "sent", "done"}, rev : Revs, acked : Revs]
        /\ own'.acked <= stored.rev
    BY <1>2, <2>2, ListTypes DEF Submitted
  <2>4. ListKept
    BY <1>1, <1>2, <2>1, <2>3, ListTypes, StartLoadType DEF Submitted, ListKept
  <2>5. PanelKept
    BY <1>1, <1>2, <2>1, StartLoadType DEF Submitted, PanelKept
  <2>6. QED BY <2>4, <2>5
<1>3. CASE Reload(l)
  <2>1. panel.seq + 1 \in Seqs
    BY <1>1, <1>3, ListTypes DEF Reload, Act, Budget, Seqs
  <2>2. acts' \in Revs
    BY <1>1, <1>3, ListTypes DEF Reload, Act, Revs
  <2>3. ListKept
    BY <1>1, <1>3, <2>1, <2>2, ListTypes, StartLoadType DEF Reload, ListKept
  <2>4. PanelKept
    BY <1>1, <1>3, <2>1, StartLoadType DEF Reload, PanelKept
  <2>5. QED BY <2>3, <2>4
<1>4. CASE Answer(l)
  <2>1. load' \in [Loads -> LoadRecords]
    BY <1>4, ListTypes DEF Answer, LoadRecords
  <2>2. ListKept
    BY <1>1, <1>4, <2>1, ListTypes DEF Answer, ListKept
  <2>3. QED BY <1>1, <1>4, <2>2, PanelIsKept DEF Answer
<1>5. NoLoad \in LoadRecords
  BY NoLoadType
<1>6. CASE Loaded(l)
  <2>1. load' \in [Loads -> LoadRecords]
    BY <1>5, <1>6, ListTypes DEF Loaded
  <2>2. ListKept
    BY <1>1, <1>6, <2>1, ListTypes DEF Loaded, ListKept
  <2>3. QED BY <1>6, <2>2, LoadedType
<1>7. CASE LoadFails(l)
  <2>1. load' \in [Loads -> LoadRecords]
    BY <1>5, <1>7, ListTypes DEF LoadFails
  <2>2. ListKept
    BY <1>1, <1>7, <2>1, ListTypes DEF LoadFails, ListKept
  <2>3. /\ panel' \in Panels /\ panel'.rev = panel.rev /\ panel'.list = panel.list
        /\ panel'.unplaced = panel.unplaced /\ panel'.gen = panel.gen
    BY <1>7, ListTypes DEF LoadFails, Panels
  <2>4. QED BY <1>1, <1>7, <2>2, <2>3 DEF LoadFails, PanelKept
<1>8. QED BY <1>2, <1>3, <1>4, <1>6, <1>7

LEMMA SubmitFailsType ==
    ASSUME TypeOK, SubmitFails PROVE ListKept /\ PanelKept
<1>1. /\ frame.gen <= panel.gen /\ panel.rev <= stored.rev
      /\ panel.unplaced \subseteq DOMAIN panel.list /\ toFrame \in Seq(FrameMessages)
      /\ stored.rev \in Nat
  BY DEF TypeOK, Revs
<1>2. ListKept
  BY <1>1, ListTypes DEF SubmitFails, ListKept
<1>3. /\ panel' \in Panels /\ panel'.rev = panel.rev /\ panel'.list = panel.list
      /\ panel'.unplaced = panel.unplaced /\ panel'.gen = panel.gen
  BY ListTypes DEF SubmitFails, Panels
<1>4. QED BY <1>1, <1>2, <1>3 DEF SubmitFails, PanelKept

LEMMA NextTypeOK ==
    TypeOK /\ PinsPlaced /\ Budget /\ LoadsFresh /\ PinsCurrent /\ [Next]_vars =>
        TypeOK' /\ PinsPlaced'
<1> SUFFICES ASSUME TypeOK, PinsPlaced, Budget, LoadsFresh, PinsCurrent, [Next]_vars
             PROVE  TypeOK' /\ PinsPlaced'
  OBVIOUS
<1>1. /\ FrameOk(frame) /\ toPanel \in Seq(PanelMessages) /\ toFrame \in Seq(FrameMessages)
      /\ loadEvent \in BOOLEAN /\ panel \in Panels /\ frame.gen <= panel.gen
      /\ panel.rev <= stored.rev /\ panel.unplaced \subseteq DOMAIN panel.list
      /\ stored.rev \in Nat
  BY FrameIsOk DEF TypeOK, Revs
<1>2. ASSUME ListKept, PanelKept, FrameOk(frame'), frame'.gen <= panel'.gen,
             toPanel' \in Seq(PanelMessages), loadEvent' \in BOOLEAN
      PROVE  TypeOK' /\ PinsPlaced'
  BY <1>2 DEF ListKept, PanelKept, FrameOk, TypeOK, PinsPlaced, LoadRecords
<1>3. ASSUME UNCHANGED <<stored, own, load>>, acts' \in Revs PROVE ListKept
  BY <1>1, <1>3, ListTypes DEF ListKept
<1>4. CASE UNCHANGED vars
  <2>1. ListKept /\ PanelKept
    BY <1>1, <1>3, <1>4, ListTypes, PanelIsKept DEF vars
  <2>2. QED BY <1>1, <1>2, <1>4, <2>1 DEF vars
\* Steps on the list and the panel.
<1>5. ASSUME ListKept, PanelKept, UNCHANGED <<frame, toPanel>>, loadEvent' \in BOOLEAN
      PROVE  TypeOK' /\ PinsPlaced'
  BY <1>1, <1>2, <1>5 DEF PanelKept
<1>6. CASE OthersChange \/ Submit \/ Apply
  BY <1>1, <1>5, <1>6, OwnSteps DEF OthersChange, Submit, Apply
<1>7. ASSUME NEW l \in Loads,
             Submitted(l) \/ Reload(l) \/ Answer(l) \/ Loaded(l) \/ LoadFails(l)
      PROVE  TypeOK' /\ PinsPlaced'
  BY <1>1, <1>5, <1>7, LoadSteps
     DEF Submitted, Reload, Answer, Loaded, LoadFails
<1>8. CASE SubmitFails
  BY <1>1, <1>5, <1>8, SubmitFailsType DEF SubmitFails
<1>9. CASE ShowPanel
  <2>1. acts' \in Revs
    BY <1>9, ListTypes DEF ShowPanel, Act, Revs
  <2>2. QED BY <1>1, <1>3, <1>5, <1>9, <2>1, ShowPanelType DEF ShowPanel
<1>10. CASE FrameLoaded
  BY <1>1, <1>3, <1>5, <1>10, ListTypes, FrameLoadedType DEF FrameLoaded
<1>11. CASE PanelReceives
  BY <1>1, <1>2, <1>3, <1>11, ListTypes, PanelReceivesType DEF PanelReceives, PanelKept
\* Steps of the frame.
<1>12. ASSUME FrameKept, UNCHANGED <<stored, own, load, panel>>, acts' \in Revs,
              loadEvent' \in BOOLEAN
       PROVE  TypeOK' /\ PinsPlaced'
  <2>1. ListKept
    BY <1>3, <1>12
  <2>2. PanelKept
    BY <1>1, <1>12 DEF PanelKept, FrameKept
  <2>3. QED BY <1>2, <1>12, <2>1, <2>2 DEF FrameKept
<1>13. CASE FrameReceives
  BY <1>1, <1>12, <1>13, ListTypes, FrameReceivesType DEF FrameReceives
<1>14. CASE Recheck
  BY <1>1, <1>12, <1>14, ListTypes, RecheckType DEF Recheck
<1>15. CASE Redraw
  BY <1>1, <1>12, <1>15, ListTypes, RedrawType DEF Redraw
<1>16. CASE DocumentComplete
  BY <1>1, <1>12, <1>16, ListTypes, CompleteType DEF DocumentComplete
<1>17. CASE \/ BridgeStarts \/ PlainPage \/ Navigate \/ Scroll \/ Shift
            \/ \E t \in Anchored : Mutate(t)
  <2>1. FrameKept
    BY <1>17, DocumentType
  <2>2. acts' \in Revs
    <3>1. acts' = acts \/ Act
      BY <1>17 DEF BridgeStarts, PlainPage, Navigate, Scroll, Shift, Mutate
    <3>2. QED BY <3>1, ListTypes DEF Act, Revs
  <2>3. UNCHANGED <<stored, own, load, panel>> /\ loadEvent' \in BOOLEAN
    BY <1>1, <1>17 DEF BridgeStarts, PlainPage, Navigate, Scroll, Shift, Mutate
  <2>4. QED BY <1>12, <2>1, <2>2, <2>3
<1>18. QED
  BY <1>4, <1>6, <1>7, <1>8, <1>9, <1>10, <1>11, <1>13, <1>14, <1>15, <1>16, <1>17
     DEF Next, Users, System

-----------------------------------------------------------------------------
(* The list shown is fresh.                                                *)

\* What pins and reports do not touch.
ListFields(p) == <<p.rev, p.status, p.seq>>

LEMMA SentFields ==
    ASSUME TypeOK, NEW p \in Panels, NEW times \in 1..2, SendPinsTimes(p, times)
    PROVE  ListFields(panel') = ListFields(p)
<1>1. panel' \in {p, [p EXCEPT !.gen = p.gen + times]}
  BY SentType
<1>2. QED BY <1>1 DEF Panels, ListFields

LEMMA ReportFields ==
    ASSUME TypeOK, ShowPanel \/ FrameLoaded \/ PanelReceives
    PROVE  ListFields(panel') = ListFields(panel)
<1>0. panel \in Panels
  BY DEF TypeOK
<1>1. CASE ShowPanel
  BY <1>0, <1>1, SentFields DEF ShowPanel, SendPins
<1>2. CASE FrameLoaded
  BY <1>0, <1>2 DEF FrameLoaded, Panels, ListFields
<1>3. CASE PanelReceives
  <2> DEFINE p == [panel EXCEPT !.ready = TRUE]
  <2>1. p \in Panels /\ ListFields(p) = ListFields(panel)
    BY <1>0 DEF Panels, ListFields
  <2>2. ASSUME NEW tops, panel' = [panel EXCEPT !.tops = tops]
        PROVE  ListFields(panel') = ListFields(panel)
    BY <1>0, <2>2 DEF Panels, ListFields
  <2>3. ASSUME NEW unplaced, NEW about,
               panel' = [panel EXCEPT !.unplaced = unplaced, !.heard = panel.gen,
                                      !.about = about]
        PROVE  ListFields(panel') = ListFields(panel)
    BY <1>0, <2>3 DEF Panels, ListFields
  <2>4. ASSUME SendPins(p) PROVE ListFields(panel') = ListFields(panel)
    BY <2>1, <2>4, SentFields DEF SendPins
  <2>5. QED BY <1>3, <2>2, <2>3, <2>4 DEF PanelReceives
<1>4. QED BY <1>1, <1>2, <1>3

LEMMA LoadedFields ==
    ASSUME TypeOK, NEW l \in Loads, Loaded(l)
    PROVE  \/ ListFields(panel') = ListFields(panel)
           \/ /\ Latest(l)
              /\ ListFields(panel') = <<load[l].rev, "shown", panel.seq>>
<1> DEFINE p == [panel EXCEPT !.list = load[l].list, !.rev = load[l].rev,
                   !.first = FALSE, !.status = "shown",
                   !.unplaced = {}, !.about = load[l].list]
<1>1. load[l].list \in Lists /\ load[l].rev \in Revs /\ panel \in Panels
  BY DEF TypeOK
<1>2. p \in Panels /\ ListFields(p) = <<load[l].rev, "shown", panel.seq>>
  BY <1>1 DEF Panels, ListFields
<1>3. \/ panel' = panel
      \/ Latest(l) /\ \E times \in 1..2 : SendPinsTimes(p, times)
  BY DEF Loaded, SendPins
<1>. HIDE DEF p
<1>4. QED BY <1>2, <1>3, SentFields

Fresh == Budget /\ LoadsFresh /\ ListFresh

\* The facts about numbers that the steps need.
LEMMA FreshTypes ==
    ASSUME TypeOK
    PROVE  /\ MaxActs \in Nat /\ acts \in Nat /\ stored.rev \in Nat
           /\ panel.rev \in Nat /\ panel.seq \in Nat
           /\ own.rev \in Nat /\ own.acked \in Nat
           /\ own.pc \in {"none", "sent", "done"} /\ own.acked <= stored.rev
           /\ \A l \in Loads : load[l].seq \in Nat /\ load[l].rev \in Nat
BY LimitsAssumption DEF TypeOK, Panels, Revs, Seqs

LEMMA InitFresh == Init => Fresh
<1> SUFFICES ASSUME Init PROVE Fresh
  OBVIOUS
<1>1. \A l \in Loads : load[l].seq \in {0, 1} /\ load[l].rev = 0 /\ load[l].pc # "answered"
  BY DEF Init, Start, NoLoad
<1>2. panel.seq = 1 /\ panel.status = "loading"
  BY DEF Init, Start, NewPanel
<1>3. stored.rev = 0 /\ own.pc = "none" /\ acts = 0
  BY DEF Init, Start
<1>4. QED BY <1>1, <1>2, <1>3 DEF Fresh, Budget, LoadsFresh, ListFresh

LEMMA NextFresh == TypeOK /\ Fresh /\ [Next]_vars => Fresh'
<1> SUFFICES ASSUME TypeOK, Fresh, [Next]_vars PROVE Fresh'
  OBVIOUS
<1>1. ASSUME UNCHANGED <<stored, own, load>>, acts' = acts \/ acts' = acts + 1,
             ListFields(panel') = ListFields(panel)
      PROVE  Fresh'
  BY <1>1, FreshTypes
     DEF Fresh, Budget, LoadsFresh, Latest, ListFresh, ListFields
<1>2. CASE OthersChange
  <2>1. stored'.rev = stored.rev + 1 /\ acts' = acts + 1
        /\ UNCHANGED <<own, load, panel>> /\ own.pc # "sent"
    BY <1>2, ChangeType DEF OthersChange, Act
  <2>2. QED BY <2>1, FreshTypes DEF Fresh, Budget, LoadsFresh, Latest, ListFresh
<1>3. CASE Submit
  <2>1. /\ own.pc = "none" /\ own'.pc = "sent" /\ own'.acked = own.acked
        /\ acts' = acts + 1 /\ UNCHANGED <<stored, load, panel>>
    BY <1>3, ListTypes DEF Submit, Act
  <2>2. QED BY <2>1, FreshTypes DEF Fresh, Budget, LoadsFresh, Latest, ListFresh
<1>4. CASE Apply
  <2>1. stored'.rev = stored.rev + 1
    BY <1>4, ChangeType DEF Apply
  <2>2. /\ own.pc = "sent" /\ own'.pc = "done" /\ own'.acked = own.acked
        /\ own'.rev = stored'.rev /\ UNCHANGED <<load, panel, acts>>
    BY <1>4, ListTypes DEF Apply
  <2>3. QED BY <2>1, <2>2, FreshTypes DEF Fresh, Budget, LoadsFresh, Latest, ListFresh
<1>5. CASE SubmitFails
  <2>1. /\ own'.pc = "none" /\ own'.acked = own.acked /\ UNCHANGED <<stored, load, acts>>
        /\ panel'.rev = panel.rev /\ panel'.seq = panel.seq
        /\ panel'.status \in {panel.status, "error"}
    BY <1>5, ListTypes DEF SubmitFails, Panels
  <2>2. QED BY <2>1, FreshTypes DEF Fresh, Budget, LoadsFresh, Latest, ListFresh
<1>6. ASSUME NEW l \in Loads, Submitted(l) PROVE Fresh'
  <2>1. /\ own.pc = "done" /\ own'.pc = "none" /\ own'.acked = own.rev
        /\ UNCHANGED <<stored, acts>>
    BY <1>6, ListTypes DEF Submitted
  <2>2. /\ panel'.seq = panel.seq + 1 /\ panel'.status = "loading"
    BY <1>6, ListTypes DEF Submitted, StartLoad, Panels
  <2>3. /\ load'[l].pc = "sent" /\ load'[l].seq = panel.seq + 1 /\ load'[l].rev = 0
        /\ \A k \in Loads : k # l => load'[k] = load[k]
    BY <1>6, ListTypes DEF Submitted, StartLoad, NoLoad
  <2>4. QED BY <2>1, <2>2, <2>3, FreshTypes
            DEF Fresh, Budget, LoadsFresh, Latest, ListFresh
<1>7. ASSUME NEW l \in Loads, Reload(l) PROVE Fresh'
  <2>1. acts' = acts + 1 /\ UNCHANGED <<stored, own>>
    BY <1>7 DEF Reload, Act
  <2>2. /\ panel'.seq = panel.seq + 1 /\ panel'.status = "loading"
    BY <1>7, ListTypes DEF Reload, StartLoad, Panels
  <2>3. /\ load'[l].pc = "sent" /\ load'[l].seq = panel.seq + 1 /\ load'[l].rev = 0
        /\ \A k \in Loads : k # l => load'[k] = load[k]
    BY <1>7, ListTypes DEF Reload, StartLoad, NoLoad
  <2>4. QED BY <2>1, <2>2, <2>3, FreshTypes
            DEF Fresh, Budget, LoadsFresh, Latest, ListFresh
<1>8. ASSUME NEW l \in Loads, Answer(l) PROVE Fresh'
  <2>1. /\ load'[l].seq = load[l].seq /\ load'[l].rev = stored.rev
        /\ \A k \in Loads : k # l => load'[k] = load[k]
    BY <1>8, ListTypes DEF Answer, LoadRecords
  <2>2. UNCHANGED <<stored, own, panel, acts>>
    BY <1>8 DEF Answer
  <2>3. QED BY <2>1, <2>2, FreshTypes
            DEF Fresh, Budget, LoadsFresh, Latest, ListFresh
<1>9. ASSUME NEW l \in Loads, Loaded(l) PROVE Fresh'
  <2>1. /\ load[l].pc = "answered" /\ UNCHANGED <<stored, own, acts>>
        /\ load'[l].seq = 0 /\ load'[l].rev = 0 /\ load'[l].pc = "idle"
        /\ \A k \in Loads : k # l => load'[k] = load[k]
    BY <1>9, ListTypes DEF Loaded, NoLoad
  <2>2. /\ panel'.seq = panel.seq
        /\ \/ panel'.rev = panel.rev /\ panel'.status = panel.status
           \/ Latest(l) /\ panel'.rev = load[l].rev
    BY <1>9, LoadedFields DEF ListFields
  <2>3. QED BY <2>1, <2>2, FreshTypes
            DEF Fresh, Budget, LoadsFresh, Latest, ListFresh
<1>10. ASSUME NEW l \in Loads, LoadFails(l) PROVE Fresh'
  <2>1. /\ UNCHANGED <<stored, own, acts>>
        /\ load'[l].seq = 0 /\ load'[l].rev = 0 /\ load'[l].pc = "idle"
        /\ \A k \in Loads : k # l => load'[k] = load[k]
    BY <1>10, ListTypes DEF LoadFails, NoLoad
  <2>2. /\ panel'.seq = panel.seq /\ panel'.rev = panel.rev
        /\ panel'.status \in {panel.status, "error"}
    BY <1>10, ListTypes DEF LoadFails, Panels
  <2>3. QED BY <2>1, <2>2, FreshTypes
            DEF Fresh, Budget, LoadsFresh, Latest, ListFresh
<1>11. CASE ShowPanel \/ FrameLoaded \/ PanelReceives
  <2>1. ListFields(panel') = ListFields(panel)
    BY <1>11, ReportFields
  <2>2. UNCHANGED <<stored, own, load>> /\ (acts' = acts \/ acts' = acts + 1)
    BY <1>11 DEF ShowPanel, FrameLoaded, PanelReceives, Act
  <2>3. QED BY <1>1, <2>1, <2>2
<1>12. CASE \/ FrameReceives \/ Recheck \/ Redraw \/ DocumentComplete
            \/ BridgeStarts \/ PlainPage \/ Navigate \/ Scroll \/ Shift
            \/ (\E t \in Anchored : Mutate(t)) \/ UNCHANGED vars
  <2>1. UNCHANGED <<stored, own, load, panel>> /\ (acts' = acts \/ acts' = acts + 1)
    BY <1>12
       DEF FrameReceives, Recheck, Redraw, DocumentComplete, BridgeStarts, PlainPage,
           Navigate, Scroll, Shift, Mutate, Act, vars
  <2>2. QED BY <1>1, <2>1
<1>13. QED
  BY <1>2, <1>3, <1>4, <1>5, <1>6, <1>7, <1>8, <1>9, <1>10, <1>11, <1>12
     DEF Next, Users, System

-----------------------------------------------------------------------------
(* Reports are on the pins sent last.                                      *)

Reported == PinsCurrent /\ PositionsFirst /\ ReportsOk

LEMMA ReportedTypes ==
    ASSUME TypeOK
    PROVE  /\ panel \in Panels /\ panel.gen \in Nat /\ panel.heard \in Nat
           /\ panel.ready \in BOOLEAN
           /\ frame \in Frames /\ frame.gen \in Nat /\ frame.gen <= panel.gen
           /\ frame.shown # None => frame.shown \in Reports /\ frame.shown.gen \in Nat
           /\ toFrame \in Seq(FrameMessages) /\ Len(toFrame) \in Nat
           /\ toPanel \in Seq(PanelMessages) /\ Len(toPanel) \in Nat
           /\ \A i \in 1..Len(toFrame) :
                toFrame[i].type = "pins" => toFrame[i].gen \in Nat
           /\ \A i \in 1..Len(toPanel) :
                toPanel[i].type \in {"positions", "anchors"} => toPanel[i].gen \in Nat
<1>1. /\ toFrame \in Seq(FrameMessages) /\ Len(toFrame) \in Nat
      /\ toPanel \in Seq(PanelMessages) /\ Len(toPanel) \in Nat
  BY DEF TypeOK
<1>2. \A i \in 1..Len(toFrame) : toFrame[i] \in FrameMessages
  BY <1>1, ElementOfSeq
<1>3. \A i \in 1..Len(toPanel) : toPanel[i] \in PanelMessages
  BY <1>1, ElementOfSeq
<1>4. /\ panel \in Panels /\ panel.gen \in Nat /\ panel.heard \in Nat
      /\ panel.ready \in BOOLEAN
      /\ frame \in Frames /\ frame.gen \in Nat /\ frame.gen <= panel.gen
  BY DEF TypeOK, Panels, Frames
<1>5. frame.shown # None => frame.shown \in Reports /\ frame.shown.gen \in Nat
  BY <1>4 DEF Frames, Reports
<1>6. QED BY <1>1, <1>2, <1>3, <1>4, <1>5, FrameMessageTypes, PanelMessageTypes

LEMMA InitReported == Init => Reported
<1> SUFFICES ASSUME Init PROVE Reported
  OBVIOUS
<1>1. ~panel.ready /\ panel.gen = 0 /\ panel.heard = 0
  BY DEF Init, Start, NewPanel
<1>2. frame.shown = None
  BY DEF Init, Start, NewDocument
<1>3. toPanel = <<>> /\ Len(toPanel) = 0
  BY DEF Init, Start
<1>4. \A i \in 1..Len(toFrame) : toFrame[i].type = "enable"
  BY DEF Init, Start
<1>5. QED
  BY <1>1, <1>2, <1>3, <1>4
     DEF Reported, PinsCurrent, FramePins, PinsOk, Current, PositionsFirst, ReportsOk

\* No pins are posted, some may be taken.
NoNewPins ==
    \A i \in 1..Len(toFrame') : toFrame'[i].type = "pins" =>
        \E k \in 1..Len(toFrame) : toFrame'[i] = toFrame[k]

LEMMA EnableNoPins == ASSUME TypeOK, Enable PROVE NoNewPins
<1> DEFINE m == [type |-> "enable"]
<1>1. m \in FrameMessages /\ m.type = "enable"
  BY DEF FrameMessages
<1>2. toFrame' = Append(toFrame, m) /\ toFrame \in Seq(FrameMessages)
  BY DEF Enable, TypeOK
<1>. HIDE DEF m
<1>3. /\ Len(toFrame) \in Nat /\ Len(toFrame') = Len(toFrame) + 1
      /\ \A i \in 1..Len(toFrame) : toFrame'[i] = toFrame[i]
      /\ toFrame'[Len(toFrame) + 1] = m
  BY <1>1, <1>2, AppendProperties
<1>4. QED BY <1>1, <1>3 DEF NoNewPins

LEMMA TakenNoPins ==
    ASSUME TypeOK, toFrame # <<>>, toFrame' = Tail(toFrame) PROVE NoNewPins
<1>1. /\ Len(toFrame) \in Nat /\ Len(toFrame') = Len(toFrame) - 1
      /\ \A i \in 1..Len(toFrame) - 1 : toFrame'[i] = toFrame[i + 1]
  BY Received DEF TypeOK
<1>2. QED BY <1>1 DEF NoNewPins

\* What the panel knows of pins and reports.
ReportState(p) == <<p.list, p.ready, p.gen, p.heard, p.tops, p.about>>

\* Neither reports nor pins are concerned.
LEMMA NothingReported ==
    ASSUME TypeOK, Reported, ReportState(panel') = ReportState(panel),
           UNCHANGED <<frame, toPanel>>, NoNewPins
    PROVE  Reported'
<1>1. /\ panel'.list = panel.list /\ panel'.ready = panel.ready /\ panel'.gen = panel.gen
      /\ panel'.heard = panel.heard /\ panel'.tops = panel.tops
      /\ panel'.about = panel.about
  BY DEF ReportState
<1>2. \A i \in 1..Len(toFrame') : toFrame'[i].type = "pins" =>
        /\ toFrame'[i].gen <= panel.gen
        /\ Current(toFrame'[i].gen) => toFrame'[i].list = panel.list
  BY DEF Reported, PinsCurrent, PinsOk, NoNewPins
<1>3. PinsCurrent'
  BY <1>1, <1>2 DEF Reported, PinsCurrent, PinsOk, ReportOk, FramePins, Current
<1>4. TopsCurrent' = TopsCurrent
  BY <1>1 DEF TopsCurrent
<1>5. \A i \in 1..Len(toPanel) : Coming(i) => Coming(i)'
  BY <1>1 DEF Coming
<1>6. Coming(Len(toPanel)) => Coming(Len(toPanel))'
  BY <1>1 DEF Coming
<1>7. PositionsFirst'
  BY <1>1, <1>4, <1>5, <1>6 DEF Reported, PositionsFirst, Current
<1>8. ReportsOk'
  BY <1>1, <1>4 DEF Reported, ReportsOk
<1>9. QED BY <1>3, <1>7, <1>8 DEF Reported

\* Some of the messages to the panel may be taken.
KeptMessages ==
    \A i \in 1..Len(toPanel') : \E k \in 1..Len(toPanel) : toPanel'[i] = toPanel[k]

LEMMA TakenKept ==
    ASSUME TypeOK, toPanel # <<>>, toPanel' = Tail(toPanel) PROVE KeptMessages
<1>1. /\ Len(toPanel) \in Nat /\ Len(toPanel') = Len(toPanel) - 1
      /\ \A i \in 1..Len(toPanel) - 1 : toPanel'[i] = toPanel[i + 1]
  BY Received DEF TypeOK
<1>2. QED BY <1>1 DEF KeptMessages

\* A panel that is not ready counts on nothing.
LEMMA NotReady ==
    ASSUME TypeOK, Reported, ~panel'.ready, panel'.gen = panel.gen,
           panel'.heard = panel.heard, UNCHANGED frame, KeptMessages, NoNewPins
    PROVE  Reported'
<1>1. \A i \in 1..Len(toFrame') :
        toFrame'[i].type = "pins" => toFrame'[i].gen <= panel'.gen
  BY DEF Reported, PinsCurrent, PinsOk, NoNewPins
<1>2. \A i \in 1..Len(toPanel') : toPanel'[i].type \in {"positions", "anchors"} =>
        /\ toPanel'[i].gen <= panel'.gen
        /\ toPanel'[i].at \subseteq DOMAIN toPanel'[i].list
  BY DEF Reported, PinsCurrent, ReportOk, KeptMessages
<1>3. PinsCurrent'
  BY <1>1, <1>2 DEF Reported, PinsCurrent, PinsOk, ReportOk, FramePins, Current
<1>4. QED BY <1>3 DEF Reported, PositionsFirst, ReportsOk, Current

\* New pins are sent: there is no report on them yet.
LEMMA PinsSent ==
    ASSUME TypeOK, Reported, NEW p \in Panels, p.ready, p.gen = panel.gen,
           p.heard = panel.heard, NEW times \in 1..2, SendPinsTimes(p, times),
           UNCHANGED frame, KeptMessages
    PROVE  Reported'
<1> DEFINE new == PinsMessages(p, times)
<1>0. /\ panel.gen \in Nat /\ panel.heard \in Nat /\ frame.gen \in Nat
      /\ frame.gen <= panel.gen /\ toFrame \in Seq(FrameMessages)
      /\ Len(toFrame) \in Nat /\ times \in Nat /\ times > 0
  BY ReportedTypes
<1>1. panel' = [p EXCEPT !.gen = p.gen + times] /\ toFrame' = toFrame \o new
  BY DEF SendPinsTimes, PinsMessages
<1>2. /\ panel'.gen = panel.gen + times /\ panel'.list = p.list /\ panel'.ready
      /\ panel'.heard = panel.heard
  BY <1>0, <1>1 DEF Panels
<1>3. \A k \in 1..times :
        /\ new[k].type = "pins" /\ new[k].gen <= panel'.gen
        /\ new[k].list = panel'.list
  BY <1>0, <1>2 DEF PinsMessages
<1>4. new \in Seq(FrameMessages) /\ Len(new) = times
  BY PinsMessagesType
<1>. HIDE DEF new
<1>5. Joined(toFrame', toFrame, new, Len(toFrame), times)
  BY <1>0, <1>1, <1>4, Concat
<1>6. ASSUME NEW i \in 1..Len(toFrame'), toFrame'[i].type = "pins"
      PROVE  /\ toFrame'[i].gen <= panel'.gen
             /\ toFrame'[i].gen = panel'.gen => toFrame'[i].list = panel'.list
  <2>1. CASE i \in 1..Len(toFrame)
    <3>1. toFrame'[i] = toFrame[i]
      BY <1>5, <2>1 DEF Joined
    <3>2. toFrame'[i].gen \in Nat /\ toFrame'[i].gen <= panel.gen
      BY <1>6, <2>1, <3>1, ReportedTypes DEF Reported, PinsCurrent, PinsOk
    <3>3. QED BY <1>0, <1>2, <3>2
  <2>2. CASE i \notin 1..Len(toFrame)
    <3>1. i - Len(toFrame) \in 1..times /\ i \in Len(toFrame) + 1..Len(toFrame) + times
      BY <1>0, <1>5, <2>2 DEF Joined
    <3>2. toFrame'[i] = new[i - Len(toFrame)]
      BY <1>5, <3>1 DEF Joined
    <3>3. QED BY <1>3, <3>1, <3>2
  <2>3. QED BY <2>1, <2>2
<1>7. ASSUME NEW i \in 1..Len(toPanel'), toPanel'[i].type \in {"positions", "anchors"}
      PROVE  /\ toPanel'[i].gen <= panel'.gen /\ toPanel'[i].gen # panel'.gen
             /\ toPanel'[i].at \subseteq DOMAIN toPanel'[i].list
  <2>1. PICK k \in 1..Len(toPanel) : toPanel'[i] = toPanel[k]
    BY DEF KeptMessages
  <2>2. toPanel'[i].gen \in Nat /\ toPanel'[i].gen <= panel.gen
    BY <1>7, <2>1, ReportedTypes DEF Reported, PinsCurrent, ReportOk
  <2>3. toPanel'[i].at \subseteq DOMAIN toPanel'[i].list
    BY <1>7, <2>1 DEF Reported, PinsCurrent, ReportOk
  <2>4. QED BY <1>0, <1>2, <2>2, <2>3
<1>8. /\ frame.gen # panel'.gen /\ panel'.heard < panel'.gen
      /\ frame.shown # None =>
           frame.shown.gen <= panel'.gen /\ frame.shown.gen # panel'.gen
  BY <1>0, <1>2, ReportedTypes DEF Reported, PinsCurrent, FramePins, ReportsOk
<1>9. PinsCurrent'
  BY <1>0, <1>2, <1>6, <1>7, <1>8
     DEF Reported, PinsCurrent, FramePins, PinsOk, ReportOk, Current
<1>10. PositionsFirst' /\ ReportsOk'
  BY <1>0, <1>2, <1>7, <1>8 DEF PositionsFirst, ReportsOk, Current
<1>11. QED BY <1>9, <1>10 DEF Reported

\* The panel takes a message: what it learns from positions of the pins sent last is
\* current, what it knew before stays so.
LEMMA MessageTaken ==
    ASSUME TypeOK, Reported, toPanel # <<>>, toPanel' = Tail(toPanel), UNCHANGED frame,
           NoNewPins, panel'.list = panel.list, panel'.ready = panel.ready,
           panel'.gen = panel.gen, TopsCurrent => TopsCurrent',
           toPanel[1].type = "positions" /\ Current(toPanel[1].gen) => TopsCurrent'
    PROVE  PinsCurrent' /\ PositionsFirst'
<1>1. /\ Len(toPanel) \in Nat /\ Len(toPanel') = Len(toPanel) - 1
      /\ \A i \in 1..Len(toPanel) - 1 : toPanel'[i] = toPanel[i + 1]
  BY Received DEF TypeOK
<1>2. \A i \in 1..Len(toFrame') : toFrame'[i].type = "pins" =>
        /\ toFrame'[i].gen <= panel.gen
        /\ Current(toFrame'[i].gen) => toFrame'[i].list = panel.list
  BY DEF Reported, PinsCurrent, PinsOk, NoNewPins
<1>3. ASSUME NEW i \in 1..Len(toPanel')
      PROVE  i + 1 \in 1..Len(toPanel) /\ toPanel'[i] = toPanel[i + 1]
  BY <1>1
<1>4. \A i \in 1..Len(toPanel') : ReportOk(toPanel'[i])
  BY <1>3 DEF Reported, PinsCurrent
<1>5. PinsCurrent'
  BY <1>2, <1>4 DEF Reported, PinsCurrent, PinsOk, ReportOk, FramePins, Current
<1>6. ASSUME NEW count \in Nat, count + 1 <= Len(toPanel), Coming(count + 1), panel.ready
      PROVE  TopsCurrent' \/ Coming(count)'
  <2>1. PICK k \in 1..count + 1 : /\ toPanel[k].type = "positions"
                                  /\ toPanel[k].gen = panel.gen
    BY <1>6 DEF Coming
  <2>2. CASE k = 1
    BY <1>6, <2>1, <2>2 DEF Current
  <2>3. CASE k # 1
    <3>1. k - 1 \in 1..count /\ k - 1 \in 1..Len(toPanel) - 1 /\ (k - 1) + 1 = k
      BY <1>1, <1>6, <2>3
    <3>2. toPanel'[k - 1] = toPanel[k]
      BY <1>1, <3>1
    <3>3. QED BY <2>1, <3>1, <3>2 DEF Coming
  <2>4. QED BY <2>2, <2>3
<1>7. ASSUME frame.shown # None, Current(frame.shown.gen)
      PROVE  TopsCurrent' \/ Coming(Len(toPanel))'
  <2>1. TopsCurrent \/ Coming(Len(toPanel))
    BY <1>7 DEF Reported, PositionsFirst
  <2>2. PICK count \in Nat : count + 1 = Len(toPanel) /\ count = Len(toPanel) - 1
    <3>1. Len(toPanel) - 1 \in Nat /\ (Len(toPanel) - 1) + 1 = Len(toPanel)
      BY Received DEF TypeOK
    <3>2. QED BY <3>1
  <2>3. Len(toPanel') = count
    BY <1>1, <2>2
  <2>4. TopsCurrent' \/ Coming(count)'
    BY <1>6, <1>7, <2>1, <2>2 DEF Current
  <2>5. QED BY <2>3, <2>4 DEF Coming
<1>8. ASSUME NEW i \in 1..Len(toPanel'), toPanel'[i].type = "anchors",
             Current(toPanel'[i].gen)
      PROVE  TopsCurrent' \/ Coming(i)'
  <2>1. TopsCurrent \/ Coming(i + 1)
    BY <1>3, <1>8 DEF Reported, PositionsFirst
  <2>2. QED BY <1>3, <1>6, <1>8, <2>1 DEF Current
<1>9. PositionsFirst'
  BY <1>7, <1>8 DEF PositionsFirst, Current
<1>10. QED BY <1>5, <1>9

LEMMA ReceivedReported == ASSUME TypeOK, Reported, PanelReceives PROVE Reported'
<1> DEFINE m == Head(toPanel)
           about == {n \in DOMAIN panel.list : n \in m.at}
           tops == [n \in about |-> m.list[n]]
           p == [panel EXCEPT !.ready = TRUE]
<1>1. /\ toPanel # <<>> /\ toPanel' = Tail(toPanel) /\ UNCHANGED frame
      /\ m = toPanel[1] /\ 1 \in 1..Len(toPanel)
  BY Received DEF TypeOK, PanelReceives
<1>2. /\ panel \in Panels /\ m \in PanelMessages
      /\ m.type \in {"ready", "enabled", "positions", "anchors"}
  BY <1>1, Received, PanelMessageTypes DEF TypeOK
<1>3. ReportOk(m)
  BY <1>1 DEF Reported, PinsCurrent
<1>4. CASE m.type = "enabled" /\ SendPins(p)
  <2>1. p \in Panels /\ p.ready /\ p.gen = panel.gen /\ p.heard = panel.heard
    BY <1>2 DEF Panels
  <2>2. KeptMessages
    BY <1>1, TakenKept
  <2>3. SendPinsTimes(p, 1) /\ 1 \in 1..2
    BY <1>4 DEF SendPins
  <2>. HIDE DEF p
  <2>4. QED BY <1>1, <2>1, <2>2, <2>3, PinsSent
<1>5. ASSUME UNCHANGED panel, NoNewPins,
             m.type = "positions" => ~Newest(m)
      PROVE  Reported'
  <2>1. TopsCurrent' = TopsCurrent
    BY <1>5 DEF TopsCurrent
  <2>2. PinsCurrent' /\ PositionsFirst'
    BY <1>1, <1>5, <2>1, MessageTaken DEF Newest, Current
  <2>3. QED BY <1>5, <2>1, <2>2 DEF Reported, ReportsOk
<1>6. CASE m.type = "ready" /\ Enable /\ UNCHANGED panel
  BY <1>5, <1>6, EnableNoPins
<1>7. CASE m.type \in {"positions", "anchors"} /\ ~Newest(m) /\ UNCHANGED <<panel, toFrame>>
  BY <1>5, <1>7 DEF NoNewPins
<1>8. CASE /\ m.type = "positions" /\ Newest(m)
           /\ panel' = [panel EXCEPT !.tops = tops] /\ UNCHANGED toFrame
  <2>1. /\ panel'.list = panel.list /\ panel'.ready = panel.ready
        /\ panel'.gen = panel.gen /\ panel'.heard = panel.heard
        /\ panel'.about = panel.about /\ panel'.tops = tops
    BY <1>2, <1>8 DEF Panels
  <2>2. ASSUME panel.ready PROVE TopsCurrent'
    <3>1. m.list = panel.list \/ m.at = {}
      BY <1>3, <1>8, <2>2 DEF ReportOk, Current, Newest
    <3>2. \A n \in about : n \in DOMAIN panel.list /\ tops[n] = panel.list[n]
      BY <3>1
    <3>3. DOMAIN tops = about
      OBVIOUS
    <3>4. QED BY <2>1, <3>2, <3>3 DEF TopsCurrent
  <2>3. CASE panel.ready
    <3>1. PinsCurrent' /\ PositionsFirst'
      BY <1>1, <1>8, <2>1, <2>2, <2>3, MessageTaken DEF NoNewPins
    <3>2. ReportsOk'
      BY <2>1, <2>2, <2>3 DEF Reported, ReportsOk
    <3>3. QED BY <3>1, <3>2 DEF Reported
  <2>4. CASE ~panel.ready
    BY <1>1, <1>8, <2>1, <2>4, NotReady, TakenKept DEF NoNewPins
  <2>5. QED BY <2>3, <2>4
<1>9. CASE /\ m.type = "anchors" /\ Newest(m)
           /\ panel' = [panel EXCEPT !.unplaced = about, !.heard = panel.gen,
                                     !.about = m.list]
           /\ UNCHANGED toFrame
  <2>1. /\ panel'.list = panel.list /\ panel'.ready = panel.ready
        /\ panel'.gen = panel.gen /\ panel'.heard = panel.gen
        /\ panel'.about = m.list /\ panel'.tops = panel.tops
    <3>. HIDE DEF about, m
    <3>1. QED BY <1>2, <1>9 DEF Panels
  <2>2. TopsCurrent' = TopsCurrent
    BY <2>1 DEF TopsCurrent
  <2>3. PinsCurrent' /\ PositionsFirst'
    BY <1>1, <1>9, <2>1, <2>2, MessageTaken DEF NoNewPins
  <2>4. ASSUME panel.ready PROVE m.list = panel.list /\ TopsCurrent
    <3>1. m.list = panel.list
      BY <1>3, <1>9, <2>4 DEF ReportOk, Current, Newest
    <3>2. TopsCurrent \/ Coming(1)
      BY <1>1, <1>9, <2>4 DEF Reported, PositionsFirst, Current, Newest
    <3>3. ~Coming(1)
      BY <1>1, <1>9 DEF Coming
    <3>4. QED BY <3>1, <3>2, <3>3
  <2>5. ReportsOk'
    BY <1>2, <2>1, <2>2, <2>4 DEF ReportsOk, Panels
  <2>6. QED BY <2>3, <2>5 DEF Reported
<1>10. QED BY <1>4, <1>6, <1>7, <1>8, <1>9 DEF PanelReceives

\* The frame posts no report.
LEMMA NoReportSent ==
    ASSUME TypeOK, Reported, UNCHANGED panel, NoNewPins,
           frame'.shown \in {frame.shown, None}, FramePins(frame'),
           \/ toPanel' = toPanel
           \/ \E type \in {"ready", "enabled"} : toPanel' = Append(toPanel, [type |-> type])
    PROVE  Reported'
<1>1. /\ Len(toPanel) \in Nat /\ Len(toPanel') \in Nat /\ Len(toPanel') >= Len(toPanel)
      /\ \A i \in 1..Len(toPanel) : toPanel'[i] = toPanel[i]
      /\ \A i \in Len(toPanel) + 1..Len(toPanel') :
           toPanel'[i].type \in {"ready", "enabled"}
  <2>0. Len(toPanel) \in Nat /\ toPanel \in Seq(PanelMessages)
    BY ReportedTypes
  <2>1. CASE toPanel' = toPanel
    BY <2>0, <2>1
  <2>2. ASSUME NEW type \in {"ready", "enabled"},
               toPanel' = Append(toPanel, [type |-> type])
        PROVE  /\ Len(toPanel') = Len(toPanel) + 1
               /\ \A i \in 1..Len(toPanel) : toPanel'[i] = toPanel[i]
               /\ toPanel'[Len(toPanel) + 1].type \in {"ready", "enabled"}
    <3> DEFINE m == [type |-> type]
    <3>1. m \in PanelMessages /\ m.type \in {"ready", "enabled"}
      BY DEF PanelMessages
    <3>2. toPanel' = Append(toPanel, m)
      BY <2>2
    <3>. HIDE DEF m
    <3>3. QED BY <2>0, <3>1, <3>2, AppendProperties
  <2>3. QED BY <2>0, <2>1, <2>2
<1>2. \A i \in 1..Len(toFrame') : toFrame'[i].type = "pins" =>
        /\ toFrame'[i].gen <= panel.gen
        /\ Current(toFrame'[i].gen) => toFrame'[i].list = panel.list
  BY DEF Reported, PinsCurrent, PinsOk, NoNewPins
<1>3. \A i \in 1..Len(toPanel') : ReportOk(toPanel'[i])
  <2>1. ASSUME NEW i \in 1..Len(toPanel') PROVE ReportOk(toPanel'[i])
    <3>1. CASE i \in 1..Len(toPanel)
      BY <1>1, <3>1 DEF Reported, PinsCurrent
    <3>2. CASE i \in Len(toPanel) + 1..Len(toPanel')
      BY <1>1, <3>2 DEF ReportOk
    <3>3. QED BY <1>1, <3>1, <3>2
  <2>2. QED BY <2>1
<1>4. PinsCurrent'
  BY <1>2, <1>3 DEF Reported, PinsCurrent, PinsOk, ReportOk, FramePins, Current
<1>5. TopsCurrent' = TopsCurrent
  BY DEF TopsCurrent
<1>6. ASSUME NEW i \in 1..Len(toPanel), Coming(i) PROVE Coming(i)'
  BY <1>1, <1>6 DEF Coming
<1>7. Coming(Len(toPanel)) => \E k \in 1..Len(toPanel') :
        toPanel'[k].type = "positions" /\ toPanel'[k].gen = panel.gen
  BY <1>1 DEF Coming
<1>8. frame'.shown # None /\ Current(frame'.shown.gen) =>
        \/ TopsCurrent
        \/ \E k \in 1..Len(toPanel') :
             toPanel'[k].type = "positions" /\ toPanel'[k].gen = panel.gen
  BY <1>7 DEF Reported, PositionsFirst
<1>9. ASSUME NEW i \in 1..Len(toPanel'), toPanel'[i].type = "anchors",
             Current(toPanel'[i].gen)
      PROVE  TopsCurrent \/ Coming(i)'
  <2>1. i \in 1..Len(toPanel) /\ toPanel'[i] = toPanel[i]
    BY <1>1, <1>9
  <2>2. QED BY <1>6, <1>9, <2>1 DEF Reported, PositionsFirst
<1>10. PositionsFirst'
  BY <1>5, <1>8, <1>9 DEF PositionsFirst, Current, Coming
<1>11. ReportsOk'
  BY <1>5 DEF Reported, ReportsOk
<1>12. QED BY <1>4, <1>10, <1>11 DEF Reported

\* The frame posts reports on g, which are in order.
LEMMA ReportsSent ==
    ASSUME TypeOK, Reported, UNCHANGED panel, NoNewPins, NEW g, FrameOk(g),
           g.shown = frame.shown, g.gen <= panel.gen, NEW ms,
           ms \subseteq {PositionsOf(g), AnchorsOf(g)}, \A m \in ms : ReportOk(m),
           PostedAfter(toPanel, toPanel', g, ms),
           frame'.shown = [gen |-> g.gen, at |-> InView(g)], FramePins(frame')
    PROVE  Reported'
<1>1. /\ toPanel' \in Seq(PanelMessages) /\ Len(toPanel) \in Nat
      /\ Len(toPanel') \in Nat /\ Len(toPanel') >= Len(toPanel)
      /\ \A i \in 1..Len(toPanel) : toPanel'[i] = toPanel[i]
      /\ \A i \in Len(toPanel) + 1..Len(toPanel') : toPanel'[i] \in ms
  BY ReportedTypes DEF PostedAfter
<1>2. \A i \in 1..Len(toFrame') : toFrame'[i].type = "pins" =>
        /\ toFrame'[i].gen <= panel.gen
        /\ Current(toFrame'[i].gen) => toFrame'[i].list = panel.list
  BY DEF Reported, PinsCurrent, PinsOk, NoNewPins
<1>3. ASSUME NEW i \in 1..Len(toPanel') PROVE ReportOk(toPanel'[i])
  <2>1. CASE i \in 1..Len(toPanel)
    BY <1>1, <2>1 DEF Reported, PinsCurrent
  <2>2. CASE i \in Len(toPanel) + 1..Len(toPanel')
    BY <1>1, <2>2
  <2>3. QED BY <1>1, <2>1, <2>2
<1>4. PinsCurrent'
  BY <1>2, <1>3 DEF Reported, PinsCurrent, PinsOk, ReportOk, FramePins, Current
<1>5. TopsCurrent' = TopsCurrent
  BY DEF TopsCurrent
<1>6. ASSUME NEW i \in Nat, i <= Len(toPanel), Coming(i) PROVE Coming(i)'
  BY <1>1, <1>6 DEF Coming
\* Where the positions on g are.
<1>7. ASSUME Current(g.gen)
      PROVE  \/ TopsCurrent
             \/ \E k \in 1..Len(toPanel') :
                  /\ k <= Len(toPanel) + 1
                  /\ toPanel'[k].type = "positions" /\ toPanel'[k].gen = panel.gen
  <2>0. g.enabled
    BY <1>7, ReportedTypes DEF Reported, PinsCurrent, Current, FrameOk
  <2>1. CASE g.shown = [gen |-> g.gen, at |-> InView(g)]
    <3>1. [gen |-> g.gen, at |-> InView(g)] \in Reports
      BY ReportTypes DEF FrameOk
    <3>2. frame.shown # None /\ frame.shown.gen = g.gen
      BY <2>1, <3>1, NoneAssumption
    <3>3. TopsCurrent \/ Coming(Len(toPanel))
      BY <1>7, <3>2 DEF Reported, PositionsFirst
    <3>4. QED BY <1>1, <3>3 DEF Coming
  <2>2. CASE /\ Len(toPanel') > Len(toPanel)
             /\ toPanel'[Len(toPanel) + 1] = PositionsOf(g)
    <3>1. Len(toPanel) + 1 \in 1..Len(toPanel')
      BY <1>1, <2>2
    <3>2. PositionsOf(g).type = "positions" /\ PositionsOf(g).gen = panel.gen
      BY <1>7 DEF PositionsOf, Current
    <3>3. QED BY <1>1, <2>2, <3>1, <3>2
  <2>3. QED BY <2>0, <2>1, <2>2 DEF PostedAfter
<1>8. ASSUME NEW i \in 1..Len(toPanel'), toPanel'[i].type = "anchors",
             Current(toPanel'[i].gen)
      PROVE  TopsCurrent \/ Coming(i)'
  <2>1. CASE i \in 1..Len(toPanel)
    BY <1>1, <1>6, <1>8, <2>1 DEF Reported, PositionsFirst
  <2>2. CASE i \in Len(toPanel) + 1..Len(toPanel')
    <3>1. toPanel'[i].gen = g.gen
      BY <1>1, <2>2 DEF PositionsOf, AnchorsOf
    <3>2. \A k \in 1..Len(toPanel') : k <= Len(toPanel) + 1 => k \in 1..i
      BY <1>1, <2>2
    <3>3. QED BY <1>7, <1>8, <3>1, <3>2 DEF Coming
  <2>3. QED BY <1>1, <2>1, <2>2
<1>9. PositionsFirst'
  BY <1>5, <1>7, <1>8 DEF PositionsFirst, Current, Coming
<1>10. ReportsOk'
  BY <1>5 DEF Reported, ReportsOk
<1>11. QED BY <1>4, <1>9, <1>10 DEF Reported

\* The frame has taken the pins of g and posts all reports on them.
LEMMA PlacedReported ==
    ASSUME TypeOK, Reported, UNCHANGED panel, NoNewPins, NEW g, FrameOk(g),
           g.shown = frame.shown, g.gen <= panel.gen, g.waiting = None,
           Current(g.gen) => g.pins = panel.list,
           NEW force \in BOOLEAN, PlaceAndReport(g, force)
    PROVE  Reported'
<1> DEFINE ms == {PositionsOf(g), AnchorsOf(g)}
<1>1. /\ PostedAfter(toPanel, toPanel', g, ms)
      /\ frame'.shown = [gen |-> g.gen, at |-> InView(g)]
      /\ frame'.gen = g.gen /\ frame'.pins = g.pins /\ frame'.waiting = g.waiting
  BY ReportedType
<1>2. InView(g) \subseteq DOMAIN g.pins /\ Lost(g) \subseteq DOMAIN g.pins
  BY ReportTypes DEF FrameOk
<1>3. ReportOk(PositionsOf(g)) /\ ReportOk(AnchorsOf(g))
  BY <1>2 DEF ReportOk, PositionsOf, AnchorsOf
<1>4. \A m \in ms : ReportOk(m)
  BY <1>3
<1>5. FramePins(frame')
  BY <1>1 DEF FramePins
<1>6. QED BY <1>1, <1>4, <1>5, ReportsSent

LEMMA FrameReceivesReported ==
    ASSUME TypeOK, PinsPlaced, Reported, FrameReceives PROVE Reported'
<1> DEFINE m == Head(toFrame)
           f == [frame EXCEPT !.gen = m.gen]
<1>1. /\ frame \in Frames /\ FrameOk(frame) /\ FramePins(frame)
      /\ UNCHANGED panel /\ toFrame # <<>> /\ toFrame' = Tail(toFrame)
  BY FrameIsOk DEF TypeOK, Reported, PinsCurrent, FrameReceives
<1>2. NoNewPins
  BY <1>1, TakenNoPins
<1>3. m \in FrameMessages /\ m = toFrame[1] /\ 1 \in 1..Len(toFrame)
  BY <1>1, Received DEF TypeOK
<1>4. m.type = "pins" =>
        /\ m.gen \in Nat /\ m.gen <= panel.gen /\ m.list \in Lists
        /\ Current(m.gen) => m.list = panel.list
  BY <1>3, FrameMessageTypes DEF Reported, PinsCurrent, PinsOk
<1>5. CASE UNCHANGED <<frame, toPanel>>
  BY <1>1, <1>2, <1>5, NoReportSent
<1>6. CASE /\ frame' = [frame EXCEPT !.enabled = TRUE]
           /\ toPanel' = Append(toPanel, [type |-> "enabled"])
  <2>1. /\ frame'.shown = frame.shown /\ frame'.gen = frame.gen
        /\ frame'.pins = frame.pins /\ frame'.waiting = frame.waiting
    BY <1>1, <1>6 DEF Frames
  <2>2. FramePins(frame')
    BY <1>1, <2>1 DEF FramePins
  <2>3. QED BY <1>1, <1>2, <1>6, <2>1, <2>2, NoReportSent
<1>7. CASE /\ m.type = "pins" /\ frame' = [f EXCEPT !.waiting = m.list]
           /\ UNCHANGED toPanel
  <2>1. /\ frame'.shown = frame.shown /\ frame'.gen = m.gen
        /\ frame'.waiting = m.list /\ m.list # None
    BY <1>1, <1>4, <1>7, NoneAssumption DEF Frames
  <2>2. FramePins(frame')
    BY <1>1, <1>4, <1>7, <2>1 DEF FramePins
  <2>3. QED BY <1>1, <1>2, <1>7, <2>1, <2>2, NoReportSent
<1>8. CASE frame.doc = "complete" /\ m.type = "pins" /\ frame.enabled /\ SetPins(f, m.list)
  <2>1. /\ f \in Frames /\ f.doc = "complete" /\ f.gen = m.gen /\ f.shown = frame.shown
        /\ f.enabled /\ m.list \in Lists /\ SetPins(f, m.list)
    BY <1>1, <1>4, <1>8 DEF Frames
  <2>. HIDE DEF f, m
  <2>2. PICK g : /\ FrameOk(g) /\ g.gen = f.gen /\ g.pins = m.list /\ g.waiting = None
                 /\ g.shown = f.shown /\ PlaceAndReport(g, TRUE)
    <3>1. ASSUME NEW list \in Lists, SetPins(f, list)
          PROVE  \E g : /\ FrameOk(g) /\ g.gen = f.gen /\ g.pins = list
                        /\ g.waiting = None /\ g.shown = f.shown /\ g.doc = f.doc
                        /\ g.enabled = f.enabled /\ g.placed = Resolved(g) /\ g.gone = {}
                        /\ PlaceAndReport(g, TRUE)
      BY <2>1, <3>1, SetType
    <3>2. QED BY <2>1, <3>1
  <2>3. QED BY <1>1, <1>2, <1>4, <1>8, <2>1, <2>2, PlacedReported
<1>9. QED BY <1>5, <1>6, <1>7, <1>8 DEF FrameReceives

LEMMA RecheckReported ==
    ASSUME TypeOK, PinsPlaced, Reported, Recheck PROVE Reported'
<1> DEFINE f == [frame EXCEPT !.recheck = FALSE]
           placed == Standing(f) \cup Resolved(f)
           g == [f EXCEPT !.placed = placed, !.gone = {}]
<1>1. /\ FrameOk(frame) /\ FramePins(frame) /\ frame.gen <= panel.gen
      /\ UNCHANGED panel /\ NoNewPins
  BY FrameIsOk DEF TypeOK, Reported, PinsCurrent, Recheck, NoNewPins
<1>2. /\ FrameOk(f) /\ f.gen = frame.gen /\ f.shown = frame.shown
      /\ f.pins = frame.pins /\ f.waiting = frame.waiting
  BY <1>1 DEF FrameOk, Frames
<1>3. placed \subseteq Pins(f.pins) /\ placed \in SUBSET Numbers
  BY <1>2, ListNumbers, PinsInList DEF Standing, Resolved, FrameOk, Frames
<1>4. \/ frame' = f /\ toPanel' = toPanel
      \/ frame.waiting = None /\ PlaceAndReport(g, FALSE)
  BY DEF Recheck
<1>. HIDE DEF f, placed
<1>5. CASE frame' = f /\ toPanel' = toPanel
  BY <1>1, <1>2, <1>5, NoReportSent DEF FramePins
<1>6. CASE frame.waiting = None /\ PlaceAndReport(g, FALSE)
  <2>1. /\ FrameOk(g) /\ g.gen = f.gen /\ g.shown = f.shown /\ g.pins = f.pins
        /\ g.waiting = f.waiting
    BY <1>2, <1>3 DEF FrameOk, Frames
  <2>2. Current(g.gen) => g.pins = panel.list
    BY <1>1, <1>2, <1>6, <2>1 DEF FramePins
  <2>3. QED BY <1>1, <1>2, <1>6, <2>1, <2>2, PlacedReported
<1>7. QED BY <1>4, <1>5, <1>6

LEMMA RedrawReported ==
    ASSUME TypeOK, PinsPlaced, Reported, Redraw PROVE Reported'
<1> DEFINE ms == {PositionsOf(frame)}
<1>1. /\ FrameOk(frame) /\ FramePins(frame) /\ frame.gen <= panel.gen
      /\ UNCHANGED panel /\ NoNewPins /\ toPanel \in Seq(PanelMessages)
  BY FrameIsOk DEF TypeOK, Reported, PinsCurrent, Redraw, NoNewPins
<1>2. /\ frame'.shown = [gen |-> frame.gen, at |-> InView(frame)]
      /\ frame'.gen = frame.gen /\ frame'.pins = frame.pins
      /\ frame'.waiting = frame.waiting
  BY <1>1, DrawnType DEF Redraw
<1>3. PostedAfter(toPanel, toPanel', frame, ms)
  BY <1>1, PositionsPosted DEF Redraw, FrameOk
<1>4. InView(frame) \subseteq DOMAIN frame.pins
  BY <1>1, ReportTypes DEF FrameOk
\* Pins that wait have not been placed.
<1>5. frame.waiting # None => InView(frame) = {}
  BY <1>1, <1>4 DEF FrameOk
<1>6. ReportOk(PositionsOf(frame))
  BY <1>1, <1>4, <1>5 DEF ReportOk, PositionsOf, FramePins
<1>7. FramePins(frame')
  BY <1>1, <1>2 DEF FramePins
<1>8. QED BY <1>1, <1>2, <1>3, <1>6, <1>7, ReportsSent

LEMMA CompleteReported ==
    ASSUME TypeOK, PinsPlaced, Reported, DocumentComplete PROVE Reported'
<1> DEFINE f == [frame EXCEPT !.doc = "complete"]
<1>1. /\ frame \in Frames /\ FrameOk(frame) /\ FramePins(frame) /\ frame.gen <= panel.gen
      /\ UNCHANGED panel /\ NoNewPins
  BY FrameIsOk DEF TypeOK, Reported, PinsCurrent, DocumentComplete, NoNewPins
<1>2. /\ f \in Frames /\ f.doc = "complete" /\ f.gen = frame.gen /\ f.shown = frame.shown
      /\ f.pins = frame.pins /\ f.waiting = frame.waiting
      /\ frame.waiting # None => frame.waiting \in Lists /\ f.enabled
  BY <1>1 DEF FrameOk, Frames
<1>3. \/ frame' = f /\ toPanel' = toPanel
      \/ frame.waiting # None /\ SetPins(f, frame.waiting)
  BY DEF DocumentComplete
<1>. HIDE DEF f
<1>4. CASE frame' = f /\ toPanel' = toPanel
  BY <1>1, <1>2, <1>4, NoReportSent DEF FramePins
<1>5. CASE frame.waiting # None /\ SetPins(f, frame.waiting)
  <2>1. PICK g : /\ FrameOk(g) /\ g.gen = f.gen /\ g.pins = frame.waiting
                 /\ g.waiting = None /\ g.shown = f.shown /\ PlaceAndReport(g, TRUE)
    BY <1>2, <1>5, SetType
  <2>2. Current(g.gen) => g.pins = panel.list
    BY <1>1, <1>2, <1>5, <2>1 DEF FramePins
  <2>3. QED BY <1>1, <1>2, <2>1, <2>2, PlacedReported
<1>6. QED BY <1>3, <1>4, <1>5

LEMMA DocumentReported ==
    ASSUME TypeOK, PinsPlaced, Reported,
           \/ BridgeStarts \/ PlainPage \/ Navigate \/ Scroll \/ Shift
           \/ \E t \in Anchored : Mutate(t)
    PROVE  Reported'
<1>1. /\ frame \in Frames /\ FramePins(frame)
      /\ panel.ready => panel.gen > 0
  BY DEF TypeOK, Reported, PinsCurrent
<1>2. ASSUME NEW dom \in SUBSET Anchored, NEW view \in SUBSET Anchored,
             frame' = NewDocument(dom, view)
      PROVE  frame'.shown = None /\ FramePins(frame')
  <2>1. frame'.gen = 0 /\ frame'.shown = None
    BY <1>2, NewDocumentType
  <2>2. ~Current(0)
    BY <1>1, ReportedTypes DEF Current
  <2>3. QED BY <2>1, <2>2 DEF FramePins
<1>3. ASSUME frame'.shown = frame.shown /\ frame'.gen = frame.gen,
             frame'.pins = frame.pins /\ frame'.waiting = frame.waiting
      PROVE  FramePins(frame')
  BY <1>1, <1>3 DEF FramePins
<1>4. CASE BridgeStarts
  <2>1. /\ frame'.shown = frame.shown /\ frame'.gen = frame.gen
        /\ frame'.pins = frame.pins /\ frame'.waiting = frame.waiting
        /\ UNCHANGED panel /\ NoNewPins
        /\ toPanel' = Append(toPanel, [type |-> "ready"])
    BY <1>1, <1>4 DEF BridgeStarts, Frames, NoNewPins
  <2>2. QED BY <1>3, <2>1, NoReportSent
<1>5. CASE PlainPage
  <2>1. /\ frame'.shown = frame.shown /\ frame'.gen = frame.gen
        /\ frame'.pins = frame.pins /\ frame'.waiting = frame.waiting
        /\ UNCHANGED <<panel, toPanel>> /\ NoNewPins
    BY <1>1, <1>5 DEF PlainPage, Frames, NoNewPins
  <2>2. QED BY <1>3, <2>1, NoReportSent
<1>6. CASE Navigate
  <2>1. UNCHANGED <<panel, toPanel>> /\ NoNewPins
    BY <1>6 DEF Navigate, NoNewPins
  <2>2. frame'.shown = None /\ FramePins(frame')
    BY <1>2, <1>6 DEF Navigate
  <2>3. QED BY <2>1, <2>2, NoReportSent
<1>7. ASSUME NEW t \in Anchored, Mutate(t) PROVE Reported'
  <2>1. /\ frame'.shown = frame.shown /\ frame'.gen = frame.gen
        /\ frame'.pins = frame.pins /\ frame'.waiting = frame.waiting
    BY <1>1, <1>7 DEF Mutate, Moves, Frames
  <2>2. UNCHANGED <<panel, toPanel>> /\ NoNewPins
    BY <1>7 DEF Mutate, NoNewPins
  <2>3. QED BY <1>3, <2>1, <2>2, NoReportSent
<1>8. CASE Scroll \/ Shift
  <2>1. /\ frame'.shown = frame.shown /\ frame'.gen = frame.gen
        /\ frame'.pins = frame.pins /\ frame'.waiting = frame.waiting
    BY <1>1, <1>8 DEF Scroll, Shift, Moves, Frames
  <2>2. UNCHANGED <<panel, toPanel>> /\ NoNewPins
    BY <1>8 DEF Scroll, Shift, NoNewPins
  <2>3. QED BY <1>3, <2>1, <2>2, NoReportSent
<1>9. QED BY <1>4, <1>5, <1>6, <1>7, <1>8

LEMMA LoadedReported ==
    ASSUME TypeOK, Reported, NEW l \in Loads, Loaded(l) PROVE Reported'
<1> DEFINE p == [panel EXCEPT !.list = load[l].list, !.rev = load[l].rev,
                   !.first = FALSE, !.status = "shown",
                   !.unplaced = {}, !.about = load[l].list]
<1>1. /\ load[l].list \in Lists /\ load[l].rev \in Revs /\ panel \in Panels
      /\ UNCHANGED <<frame, toPanel>> /\ KeptMessages
  BY DEF TypeOK, Loaded, KeptMessages
<1>2. /\ p \in Panels /\ p.ready = panel.ready /\ p.gen = panel.gen
      /\ p.heard = panel.heard
  BY <1>1 DEF Panels
<1>3. \/ UNCHANGED <<panel, toFrame>>
      \/ SendPinsTimes(p, 1) \/ SendPinsTimes(p, 2)
  BY DEF Loaded, SendPins
<1>. HIDE DEF p
<1>4. CASE UNCHANGED <<panel, toFrame>>
  BY <1>1, <1>4, NothingReported DEF NoNewPins
<1>5. ASSUME NEW times \in 1..2, SendPinsTimes(p, times) PROVE Reported'
  <2>1. CASE p.ready
    BY <1>1, <1>2, <1>5, <2>1, PinsSent
  <2>2. CASE ~p.ready
    <3>1. panel' = p /\ UNCHANGED toFrame
      BY <1>5, <2>2 DEF SendPinsTimes
    <3>2. QED BY <1>1, <1>2, <2>2, <3>1, NotReady DEF NoNewPins
  <2>3. QED BY <2>1, <2>2
<1>6. QED BY <1>3, <1>4, <1>5

LEMMA ShowPanelReported == ASSUME TypeOK, Reported, ShowPanel PROVE Reported'
<1>1. /\ SendPinsTimes(panel, 1) /\ UNCHANGED <<frame, toPanel>> /\ panel \in Panels
      /\ KeptMessages
  BY DEF ShowPanel, SendPins, TypeOK, KeptMessages
<1>2. CASE panel.ready
  BY <1>1, <1>2, PinsSent
<1>3. CASE ~panel.ready
  <2>1. UNCHANGED <<panel, toFrame>>
    BY <1>1, <1>3 DEF SendPinsTimes
  <2>2. QED BY <1>1, <2>1, NothingReported DEF NoNewPins
<1>4. QED BY <1>2, <1>3

LEMMA FrameLoadedReported == ASSUME TypeOK, Reported, FrameLoaded PROVE Reported'
<1>1. UNCHANGED <<frame, toPanel>> /\ NoNewPins /\ KeptMessages
  BY EnableNoPins DEF FrameLoaded, KeptMessages
<1>2. ~panel'.ready /\ panel'.gen = panel.gen /\ panel'.heard = panel.heard
  BY DEF FrameLoaded, TypeOK, Panels
<1>3. QED BY <1>1, <1>2, NotReady

\* The other steps of the panel concern the list alone.
LEMMA ListStepsReported ==
    ASSUME TypeOK, Reported,
           \/ OthersChange \/ Submit \/ Apply \/ SubmitFails
           \/ \E l \in Loads : Submitted(l) \/ Reload(l) \/ Answer(l) \/ LoadFails(l)
    PROVE  Reported'
<1>1. panel \in Panels
  BY DEF TypeOK
<1>2. UNCHANGED <<frame, toPanel, toFrame>>
  BY DEF OthersChange, Submit, Apply, SubmitFails, Submitted, Reload, Answer, LoadFails
<1>3. NoNewPins
  BY <1>2 DEF NoNewPins
<1>4. CASE OthersChange \/ Submit \/ Apply
  <2>1. UNCHANGED panel
    BY <1>4 DEF OthersChange, Submit, Apply
  <2>2. QED BY <1>2, <1>3, <2>1, NothingReported
<1>5. CASE SubmitFails
  <2>1. ReportState(panel') = ReportState(panel)
    BY <1>1, <1>5 DEF SubmitFails, Panels, ReportState
  <2>2. QED BY <1>2, <1>3, <2>1, NothingReported
<1>6. ASSUME NEW l \in Loads, Submitted(l) \/ Reload(l) \/ Answer(l) \/ LoadFails(l)
      PROVE  Reported'
  <2>1. CASE Submitted(l) \/ Reload(l)
    <3>1. StartLoad(l)
      BY <2>1 DEF Submitted, Reload
    <3>2. ReportState(panel') = ReportState(panel)
      BY <1>1, <3>1 DEF StartLoad, Panels, ReportState
    <3>3. QED BY <1>2, <1>3, <3>2, NothingReported
  <2>2. CASE Answer(l) \/ LoadFails(l)
    <3>1. ReportState(panel') = ReportState(panel)
      BY <1>1, <2>2 DEF Answer, LoadFails, Panels, ReportState
    <3>2. QED BY <1>2, <1>3, <3>1, NothingReported
  <2>3. QED BY <1>6, <2>1, <2>2
<1>7. QED BY <1>4, <1>5, <1>6

LEMMA NextReported == TypeOK /\ PinsPlaced /\ Reported /\ [Next]_vars => Reported'
<1> SUFFICES ASSUME TypeOK, PinsPlaced, Reported, [Next]_vars PROVE Reported'
  OBVIOUS
<1>1. CASE UNCHANGED vars
  BY <1>1, NothingReported DEF vars, NoNewPins
<1>2. CASE Users
  BY <1>2, ListStepsReported, ShowPanelReported, DocumentReported DEF Users
<1>3. CASE System
  BY <1>3, ListStepsReported, LoadedReported, FrameLoadedReported, ReceivedReported,
     FrameReceivesReported, RecheckReported, RedrawReported, CompleteReported,
     DocumentReported
     DEF System
<1>4. QED BY <1>1, <1>2, <1>3 DEF Next

-----------------------------------------------------------------------------
(* What is said of sequences of messages.                                  *)

LEMMA AppendedFields ==
    ASSUME NEW S, NEW s \in Seq(S), NEW m \in S
    PROVE  /\ Append(s, m) \in Seq(S) /\ Len(s) \in Nat
           /\ Len(Append(s, m)) = Len(s) + 1
           /\ \A i \in 1..Len(s) : Append(s, m)[i] = s[i]
           /\ Append(s, m)[Len(s) + 1] = m
BY AppendProperties

\* Another message comes, of another type or about other pins.
LEMMA SaysStill ==
    ASSUME NEW S, NEW s \in Seq(S), NEW m \in S, NEW type, NEW gen, NEW at,
           NEW known \in BOOLEAN, Says(s, type, gen, at, known),
           ~(m.type = type /\ m.gen = gen)
    PROVE  Says(Append(s, m), type, gen, at, known)
<1> DEFINE new == Append(s, m)
<1>1. /\ Len(s) \in Nat /\ Len(new) = Len(s) + 1
      /\ \A i \in 1..Len(s) : new[i] = s[i]
      /\ new[Len(s) + 1] = m
  BY AppendedFields
<1>. HIDE DEF new
<1>2. About(new, type, gen) = About(s, type, gen)
  BY <1>1 DEF About
<1>3. \A i \in About(s, type, gen) : new[i].at = s[i].at
  BY <1>1 DEF About
<1>4. QED BY <1>2, <1>3 DEF Says, new

\* The report itself comes.
LEMMA SaysNow ==
    ASSUME NEW S, NEW s \in Seq(S), NEW m \in S, NEW known \in BOOLEAN
    PROVE  Says(Append(s, m), m.type, m.gen, m.at, known)
<1> DEFINE new == Append(s, m)
<1>1. /\ Len(s) \in Nat /\ Len(new) = Len(s) + 1 /\ new[Len(s) + 1] = m
  BY AppendedFields
<1>. HIDE DEF new
<1>2. Len(s) + 1 \in About(new, m.type, m.gen)
  BY <1>1 DEF About
<1>3. \A j \in About(new, m.type, m.gen) : j <= Len(s) + 1
  BY <1>1 DEF About
<1>4. QED BY <1>1, <1>2, <1>3 DEF Says, new

\* The first message is taken.
LEMMA SaysTaken ==
    ASSUME NEW S, NEW s \in Seq(S), s # <<>>, NEW type, NEW gen, NEW at,
           NEW known \in BOOLEAN, NEW then \in BOOLEAN, Says(s, type, gen, at, known),
           s[1].type = type /\ s[1].gen = gen /\ s[1].at = at => then,
           ~(s[1].type = type /\ s[1].gen = gen) /\ known => then
    PROVE  Says(Tail(s), type, gen, at, then)
<1> DEFINE new == Tail(s)
<1>1. /\ Len(s) \in Nat /\ Len(s) > 0 /\ Len(new) = Len(s) - 1
      /\ \A i \in 1..Len(s) - 1 : new[i] = s[i + 1]
  BY Received
<1>. HIDE DEF new
<1>2. \A i \in About(new, type, gen) : i + 1 \in About(s, type, gen) /\ i + 1 > 1
  BY <1>1 DEF About
<1>3. CASE About(s, type, gen) = {} /\ known
  <2>1. ~(s[1].type = type /\ s[1].gen = gen)
    BY <1>1, <1>3 DEF About
  <2>2. About(new, type, gen) = {} /\ then
    BY <1>2, <1>3, <2>1
  <2>3. QED BY <2>2 DEF Says, new
<1>4. ASSUME NEW i \in About(s, type, gen), s[i].at = at,
             \A j \in About(s, type, gen) : j <= i
      PROVE  Says(new, type, gen, at, then)
  <2>1. CASE i = 1
    <3>1. About(new, type, gen) = {}
      BY <1>1, <1>2, <1>4, <2>1 DEF About
    <3>2. then
      BY <1>4, <2>1 DEF About
    <3>3. QED BY <3>1, <3>2 DEF Says
  <2>2. CASE i # 1
    <3>1. i \in 2..Len(s)
      BY <1>1, <2>2 DEF About
    <3>2. i - 1 \in 1..Len(s) - 1 /\ (i - 1) + 1 = i
      BY <1>1, <3>1
    <3>3. new[i - 1] = s[i]
      BY <1>1, <3>2
    <3>4. i - 1 \in About(new, type, gen)
      BY <1>1, <1>4, <3>2, <3>3 DEF About
    <3>5. \A j \in About(new, type, gen) : j <= i - 1
      BY <1>1, <1>2, <1>4, <3>1 DEF About
    <3>6. QED BY <1>4, <3>3, <3>4, <3>5 DEF Says
  <2>3. QED BY <2>1, <2>2
<1>5. QED BY <1>3, <1>4 DEF Says, new

-----------------------------------------------------------------------------
(* Panel and frame settle.                                                 *)

SettleState(p) == <<p.list, p.ready, p.gen, p.tops, p.unplaced>>

LEMMA InitSettles == Init => Settles
<1> SUFFICES ASSUME Init PROVE Settles
  OBVIOUS
<1>1. /\ toFrame = <<[type |-> "enable"]>> /\ ~panel.ready
      /\ \A i \in 1..Len(toFrame) : toFrame[i].type = "enable"
  BY DEF Init, Start, NewPanel
<1>2. PICK dom \in SUBSET Anchored, view \in SUBSET Anchored :
        frame = NewDocument(dom, view)
  BY DEF Init, Start
<1>3. FrameRight(NewDocument(dom, view)) /\ frame.doc = "blank"
  BY <1>2, PinsInList
     DEF FrameRight, PinsFound, FindsReported, NewDocument, Standing, Resolved
<1>4. QED BY <1>1, <1>2, <1>3 DEF Settles, InOrder, Connected, LastReports, Current

\* Nothing that matters changes.
LEMMA NothingSettled ==
    ASSUME Settles, SettleState(panel') = SettleState(panel),
           UNCHANGED <<frame, loadEvent, toFrame, toPanel>>
    PROVE  Settles'
<1>1. /\ panel'.list = panel.list /\ panel'.ready = panel.ready /\ panel'.gen = panel.gen
      /\ panel'.tops = panel.tops /\ panel'.unplaced = panel.unplaced
  BY DEF SettleState
<1>2. InOrder' /\ FrameRight(frame')
  BY DEF Settles, InOrder
<1>3. Connected'
  BY <1>1 DEF Settles, Connected, Enabled, NewestPins, Current
<1>4. LastReports'
  BY <1>1 DEF Settles, LastReports, Current
<1>5. QED BY <1>2, <1>3, <1>4 DEF Settles

\* A panel that is not ready counts on nothing.
LEMMA NotReadySettles ==
    ASSUME Settles, ~panel.ready, ~panel'.ready,
           UNCHANGED <<frame, loadEvent, toFrame, toPanel>>
    PROVE  Settles'
<1>1. InOrder' /\ FrameRight(frame')
  BY DEF Settles, InOrder
<1>2. Connected'
  BY DEF Settles, Connected, Enabled, NewestPins, Current
<1>3. LastReports'
  BY DEF LastReports, Current
<1>4. QED BY <1>1, <1>2, <1>3 DEF Settles

\* New pins are sent, after all others.
LEMMA PinsSentSettle ==
    ASSUME TypeOK, PinsCurrent, Settles, NEW p \in Panels, p.ready, p.gen = panel.gen,
           NEW times \in 1..2, SendPinsTimes(p, times), UNCHANGED <<frame, loadEvent>>
    PROVE  Settles'
<1> DEFINE new == PinsMessages(p, times)
<1>0. /\ panel.gen \in Nat /\ frame.gen \in Nat /\ frame.gen <= panel.gen
      /\ toFrame \in Seq(FrameMessages) /\ Len(toFrame) \in Nat
      /\ times \in Nat /\ times > 0
  BY ReportedTypes
<1>1. panel' = [p EXCEPT !.gen = p.gen + times] /\ toFrame' = toFrame \o new
  BY DEF SendPinsTimes, PinsMessages
<1>2. panel'.gen = panel.gen + times /\ panel'.ready
  BY <1>0, <1>1 DEF Panels
<1>3. \A k \in 1..times : new[k].type = "pins" /\ new[k].gen = panel.gen + k
  BY DEF PinsMessages
<1>4. new \in Seq(FrameMessages) /\ Len(new) = times
  BY PinsMessagesType
<1>. HIDE DEF new
<1>5. /\ Len(toFrame') = Len(toFrame) + times
      /\ \A i \in 1..Len(toFrame) : toFrame'[i] = toFrame[i]
      /\ \A i \in Len(toFrame) + 1..Len(toFrame) + times :
           toFrame'[i] = new[i - Len(toFrame)]
  BY <1>0, <1>1, <1>4, Concat DEF Joined
<1>6. \A i \in 1..Len(toFrame) : toFrame[i].type = "pins" =>
        toFrame[i].gen \in Nat /\ toFrame[i].gen <= panel.gen
  BY ReportedTypes DEF PinsCurrent, PinsOk
<1>7. ASSUME NEW i \in Len(toFrame) + 1..Len(toFrame) + times
      PROVE  toFrame'[i].type = "pins" /\ toFrame'[i].gen = panel.gen + (i - Len(toFrame))
  <2>1. i - Len(toFrame) \in 1..times
    BY <1>0
  <2>2. QED BY <1>3, <1>5, <2>1
<1>8. InOrder'
  <2>1. ASSUME NEW i \in 1..Len(toFrame'), NEW j \in 1..Len(toFrame'), i < j,
               toFrame'[i].type = "pins", toFrame'[j].type = "pins"
        PROVE  toFrame'[i].gen < toFrame'[j].gen
    <3>1. CASE j \in 1..Len(toFrame)
      <4>1. i \in 1..Len(toFrame)
        BY <1>0, <2>1, <3>1
      <4>2. QED BY <1>5, <2>1, <3>1, <4>1 DEF Settles, InOrder
    <3>2. CASE j \notin 1..Len(toFrame) /\ i \in 1..Len(toFrame)
      <4>1. j \in Len(toFrame) + 1..Len(toFrame) + times
        BY <1>0, <1>5, <3>2
      <4>2. toFrame'[j].gen = panel.gen + (j - Len(toFrame)) /\ j - Len(toFrame) >= 1
        BY <1>0, <1>7, <4>1
      <4>3. toFrame'[i].gen \in Nat /\ toFrame'[i].gen <= panel.gen
        BY <1>5, <1>6, <2>1, <3>2
      <4>4. QED BY <1>0, <4>2, <4>3
    <3>3. CASE i \notin 1..Len(toFrame)
      <4>1. i \in Len(toFrame) + 1..Len(toFrame) + times
        BY <1>0, <1>5, <3>3
      <4>2. j \in Len(toFrame) + 1..Len(toFrame) + times
        BY <1>0, <1>5, <2>1, <4>1
      <4>3. /\ toFrame'[i].gen = panel.gen + (i - Len(toFrame))
            /\ toFrame'[j].gen = panel.gen + (j - Len(toFrame))
        BY <1>7, <4>1, <4>2
      <4>4. QED BY <1>0, <2>1, <4>3
    <3>4. QED BY <3>1, <3>2, <3>3
  <2>2. ASSUME NEW i \in 1..Len(toFrame'), toFrame'[i].type = "pins"
        PROVE  frame.gen < toFrame'[i].gen
    <3>1. CASE i \in 1..Len(toFrame)
      BY <1>5, <2>2, <3>1 DEF Settles, InOrder
    <3>2. CASE i \notin 1..Len(toFrame)
      <4>1. i \in Len(toFrame) + 1..Len(toFrame) + times
        BY <1>0, <1>5, <3>2
      <4>2. QED BY <1>0, <1>7, <4>1
    <3>3. QED BY <3>1, <3>2
  <2>3. QED BY <2>1, <2>2 DEF InOrder
<1>9. Connected'
  <2>1. PICK last \in 1..Len(toFrame') :
          toFrame'[last].type = "pins" /\ toFrame'[last].gen = panel'.gen
    <3>1. Len(toFrame) + times \in Len(toFrame) + 1..Len(toFrame) + times
      BY <1>0
    <3>2. Len(toFrame) + times \in 1..Len(toFrame')
      BY <1>0, <1>5
    <3>3. QED BY <1>0, <1>2, <1>7, <3>1, <3>2
  <2>2. \A j \in 1..Len(toFrame') : NewestPins(j)' => j > Len(toFrame)
    BY <1>0, <1>2, <1>5, <1>6 DEF NewestPins, Current
  <2>3. Enabled => Enabled'
    <3>1. ASSUME NEW i \in 1..Len(toFrame), toFrame[i].type = "enable"
          PROVE  Enabled'
      <4>1. i \in 1..Len(toFrame') /\ toFrame'[i].type = "enable"
        BY <1>0, <1>5, <3>1
      <4>2. \A j \in 1..Len(toFrame') : NewestPins(j)' => i < j
        BY <1>0, <1>5, <2>2
      <4>3. QED BY <4>1, <4>2 DEF Enabled
    <3>2. QED BY <3>1 DEF Enabled
  <2>4. NewestPins(last)'
    BY <1>2, <2>1 DEF NewestPins, Current
  <2>5. QED BY <1>2, <2>1, <2>3, <2>4 DEF Settles, Connected
<1>10. ~Current(frame.gen)'
  BY <1>0, <1>2 DEF Current
<1>11. QED BY <1>8, <1>9, <1>10 DEF Settles, LastReports

\* The load event: the panel is not ready, and enables the frame.
LEMMA FrameLoadedSettles == ASSUME TypeOK, Settles, FrameLoaded PROVE Settles'
<1> DEFINE m == [type |-> "enable"]
<1>1. m \in FrameMessages /\ m.type = "enable"
  BY DEF FrameMessages
<1>2. /\ toFrame' = Append(toFrame, m) /\ toFrame \in Seq(FrameMessages)
      /\ UNCHANGED frame
  BY DEF FrameLoaded, Enable, TypeOK
<1>3. ~panel'.ready
  BY DEF FrameLoaded, TypeOK, Panels
<1>. HIDE DEF m
<1>4. /\ Len(toFrame) \in Nat /\ Len(toFrame') = Len(toFrame) + 1
      /\ \A i \in 1..Len(toFrame) : toFrame'[i] = toFrame[i]
      /\ toFrame'[Len(toFrame) + 1] = m
  BY <1>1, <1>2, AppendedFields
<1>5. \A i \in 1..Len(toFrame') : toFrame'[i].type = "pins" =>
        i \in 1..Len(toFrame) /\ toFrame'[i] = toFrame[i]
  BY <1>1, <1>4
<1>6. InOrder'
  BY <1>2, <1>5 DEF Settles, InOrder
<1>7. \E i \in 1..Len(toFrame') : toFrame'[i].type = "enable"
  BY <1>1, <1>4
<1>8. Connected'
  BY <1>3, <1>7 DEF Connected, Enabled, NewestPins, Current
<1>9. QED BY <1>2, <1>3, <1>6, <1>8 DEF Settles, LastReports, Current

\* The panel takes a message that does not enable it.
LEMMA TakenSettles ==
    ASSUME TypeOK, Settles, toPanel # <<>>, toPanel' = Tail(toPanel),
           toPanel[1].type # "enabled", UNCHANGED <<frame, loadEvent>>,
           panel'.ready = panel.ready, panel'.gen = panel.gen,
           Enable \/ UNCHANGED toFrame
    PROVE  InOrder' /\ Connected' /\ FrameRight(frame')
<1>1. /\ Len(toFrame) \in Nat /\ Len(toFrame') \in Nat /\ Len(toFrame') >= Len(toFrame)
      /\ \A i \in 1..Len(toFrame) : toFrame'[i] = toFrame[i]
      /\ \A i \in 1..Len(toFrame') : toFrame'[i].type = "pins" => i \in 1..Len(toFrame)
  <2>1. toFrame \in Seq(FrameMessages) /\ Len(toFrame) \in Nat
    BY ReportedTypes
  <2>2. CASE Enable
    <3> DEFINE m == [type |-> "enable"]
    <3>1. m \in FrameMessages /\ m.type = "enable"
      BY DEF FrameMessages
    <3>2. toFrame' = Append(toFrame, m)
      BY <2>2 DEF Enable
    <3>. HIDE DEF m
    <3>3. /\ Len(toFrame') = Len(toFrame) + 1
          /\ \A i \in 1..Len(toFrame) : toFrame'[i] = toFrame[i]
          /\ toFrame'[Len(toFrame) + 1] = m
      BY <2>1, <3>1, <3>2, AppendedFields
    <3>4. QED BY <2>1, <3>1, <3>3
  <2>3. CASE UNCHANGED toFrame
    BY <2>1, <2>3
  <2>4. QED BY <2>2, <2>3
<1>2. InOrder'
  BY <1>1 DEF Settles, InOrder
<1>3. \A i \in 1..Len(toFrame') : NewestPins(i)' => i \in 1..Len(toFrame) /\ NewestPins(i)
  BY <1>1 DEF NewestPins, Current
<1>4. \A i \in 1..Len(toFrame) : i \in 1..Len(toFrame')
  BY <1>1
<1>5. Enabled => Enabled'
  BY <1>1, <1>3, <1>4 DEF Enabled
<1>6. (\E i \in 1..Len(toFrame) : NewestPins(i)) =>
        \E i \in 1..Len(toFrame') : NewestPins(i)'
  BY <1>1, <1>4 DEF NewestPins, Current
<1>7. ASSUME NEW i \in 1..Len(toPanel), toPanel[i].type = "enabled"
      PROVE  \E k \in 1..Len(toPanel') : toPanel'[k].type = "enabled"
  <2>1. /\ Len(toPanel) \in Nat /\ Len(toPanel') = Len(toPanel) - 1
        /\ \A k \in 1..Len(toPanel) - 1 : toPanel'[k] = toPanel[k + 1]
    BY Received DEF TypeOK
  <2>2. i - 1 \in 1..Len(toPanel) - 1 /\ (i - 1) + 1 = i
    BY <1>7, <2>1
  <2>3. QED BY <1>7, <2>1, <2>2
<1>8. Connected'
  BY <1>1, <1>4, <1>5, <1>6, <1>7 DEF Settles, Connected
<1>9. QED BY <1>2, <1>8 DEF Settles

LEMMA ReceivedSettles ==
    ASSUME TypeOK, PinsCurrent, Settles, PanelReceives PROVE Settles'
<1> DEFINE m == Head(toPanel)
           about == {n \in DOMAIN panel.list : n \in m.at}
           tops == [n \in about |-> m.list[n]]
           p == [panel EXCEPT !.ready = TRUE]
<1>1. /\ toPanel # <<>> /\ toPanel' = Tail(toPanel) /\ UNCHANGED <<frame, loadEvent>>
      /\ m = toPanel[1] /\ 1 \in 1..Len(toPanel) /\ toPanel \in Seq(PanelMessages)
  BY Received DEF TypeOK, PanelReceives
<1>2. /\ panel \in Panels /\ m \in PanelMessages
      /\ m.type \in {"ready", "enabled", "positions", "anchors"}
  BY <1>1, Received, PanelMessageTypes DEF TypeOK
<1>3. ReportOk(m)
  BY <1>1 DEF PinsCurrent
<1>4. CASE m.type = "enabled" /\ SendPins(p)
  <2>1. p \in Panels /\ p.ready /\ p.gen = panel.gen
    BY <1>2 DEF Panels
  <2>2. SendPinsTimes(p, 1) /\ 1 \in 1..2
    BY <1>4 DEF SendPins
  <2>. HIDE DEF p
  <2>3. QED BY <1>1, <2>1, <2>2, PinsSentSettle
\* What it learns from the last report on its pins is what the frame has found.
<1>5. ASSUME Current(frame.gen), panel'.list = panel.list, panel'.ready = panel.ready,
             panel'.gen = panel.gen, Enable \/ UNCHANGED toFrame, m.type # "enabled",
             \/ /\ m.type = "positions" /\ m.gen = panel.gen
                /\ panel'.tops = tops /\ panel'.unplaced = panel.unplaced
             \/ /\ m.type = "anchors" /\ m.gen = panel.gen
                /\ panel'.tops = panel.tops /\ panel'.unplaced = about
             \/ /\ ~(m.type \in {"positions", "anchors"} /\ m.gen = panel.gen)
                /\ panel'.tops = panel.tops /\ panel'.unplaced = panel.unplaced
      PROVE  LastReports'
  <2>1. frame.gen = panel.gen /\ panel.ready
    BY <1>5 DEF Current
  <2>2. ASSUME frame.shown # None, frame.shown.gen = frame.gen
        PROVE  Says(toPanel', "positions", frame.gen, frame.shown.at,
                    panel'.tops = [n \in frame.shown.at |-> panel.list[n]])
    <3> DEFINE known == panel.tops = [n \in frame.shown.at |-> panel.list[n]]
               then == panel'.tops = [n \in frame.shown.at |-> panel.list[n]]
    <3>1. Says(toPanel, "positions", frame.gen, frame.shown.at, known)
      BY <1>5, <2>2 DEF Settles, LastReports
    <3>2. ASSUME m.type = "positions", m.gen = frame.gen, m.at = frame.shown.at
          PROVE  then
      <4>1. m.at \subseteq DOMAIN m.list /\ (m.list = panel.list \/ m.at = {})
        BY <1>3, <2>1, <3>2 DEF ReportOk, Current
      <4>2. about = m.at /\ panel'.tops = tops
        BY <1>5, <2>1, <3>2, <4>1
      <4>3. \A n \in about : m.list[n] = panel.list[n]
        BY <4>1, <4>2
      <4>4. QED BY <3>2, <4>2, <4>3
    <3>3. ASSUME ~(m.type = "positions" /\ m.gen = frame.gen), known PROVE then
      BY <1>5, <2>1, <3>3
    <3>4. known \in BOOLEAN /\ then \in BOOLEAN
      OBVIOUS
    <3>. HIDE DEF known, then
    <3>5. Says(Tail(toPanel), "positions", frame.gen, frame.shown.at, then)
      BY <1>1, <3>1, <3>2, <3>3, <3>4, SaysTaken
    <3>6. QED BY <1>1, <3>5 DEF then
  <2>3. ASSUME frame.doc = "complete"
        PROVE  Says(toPanel', "anchors", frame.gen, frame.lost,
                    panel'.unplaced = frame.lost)
    <3> DEFINE known == panel.unplaced = frame.lost
               then == panel'.unplaced = frame.lost
    <3>1. Says(toPanel, "anchors", frame.gen, frame.lost, known)
      BY <1>5, <2>3 DEF Settles, LastReports
    <3>2. ASSUME m.type = "anchors", m.gen = frame.gen, m.at = frame.lost
          PROVE  then
      <4>1. m.at \subseteq DOMAIN m.list /\ m.list = panel.list
        BY <1>3, <2>1, <3>2 DEF ReportOk, Current
      <4>2. about = m.at /\ panel'.unplaced = about
        BY <1>5, <2>1, <3>2, <4>1
      <4>3. QED BY <3>2, <4>2
    <3>3. ASSUME ~(m.type = "anchors" /\ m.gen = frame.gen), known PROVE then
      BY <1>5, <2>1, <3>3
    <3>4. known \in BOOLEAN /\ then \in BOOLEAN
      OBVIOUS
    <3>. HIDE DEF known, then
    <3>5. Says(Tail(toPanel), "anchors", frame.gen, frame.lost, then)
      BY <1>1, <3>1, <3>2, <3>3, <3>4, SaysTaken
    <3>6. QED BY <1>1, <3>5 DEF then
  <2>4. QED BY <1>1, <1>5, <2>2, <2>3 DEF LastReports
<1>6. ASSUME panel'.list = panel.list, panel'.ready = panel.ready,
             panel'.gen = panel.gen, Enable \/ UNCHANGED toFrame, m.type # "enabled",
             \/ /\ m.type = "positions" /\ m.gen = panel.gen
                /\ panel'.tops = tops /\ panel'.unplaced = panel.unplaced
             \/ /\ m.type = "anchors" /\ m.gen = panel.gen
                /\ panel'.tops = panel.tops /\ panel'.unplaced = about
             \/ /\ ~(m.type \in {"positions", "anchors"} /\ m.gen = panel.gen)
                /\ panel'.tops = panel.tops /\ panel'.unplaced = panel.unplaced
      PROVE  Settles'
  <2>1. InOrder' /\ Connected' /\ FrameRight(frame')
    BY <1>1, <1>6, TakenSettles
  <2>2. Current(frame.gen) => LastReports'
    BY <1>5, <1>6
  <2>3. ~Current(frame.gen) => LastReports'
    BY <1>1, <1>6 DEF LastReports, Current
  <2>4. QED BY <2>1, <2>2, <2>3 DEF Settles
<1>7. CASE m.type = "ready" /\ Enable /\ UNCHANGED panel
  BY <1>6, <1>7
<1>8. CASE m.type \in {"positions", "anchors"} /\ ~Newest(m) /\ UNCHANGED <<panel, toFrame>>
  BY <1>6, <1>8 DEF Newest
<1>9. CASE /\ m.type = "positions" /\ Newest(m)
           /\ panel' = [panel EXCEPT !.tops = tops] /\ UNCHANGED toFrame
  <2>1. /\ panel'.list = panel.list /\ panel'.ready = panel.ready
        /\ panel'.gen = panel.gen /\ panel'.tops = tops
        /\ panel'.unplaced = panel.unplaced
    BY <1>2, <1>9 DEF Panels
  <2>2. QED BY <1>6, <1>9, <2>1 DEF Newest
<1>10. CASE /\ m.type = "anchors" /\ Newest(m)
            /\ panel' = [panel EXCEPT !.unplaced = about, !.heard = panel.gen,
                                      !.about = m.list]
            /\ UNCHANGED toFrame
  <2>1. /\ panel'.list = panel.list /\ panel'.ready = panel.ready
        /\ panel'.gen = panel.gen /\ panel'.tops = panel.tops
        /\ panel'.unplaced = about
    <3>. HIDE DEF about, m
    <3>1. QED BY <1>2, <1>10 DEF Panels
  <2>2. QED BY <1>6, <1>10, <2>1 DEF Newest
<1>11. QED BY <1>4, <1>7, <1>8, <1>9, <1>10 DEF PanelReceives

LEMMA NewDocumentRight ==
    ASSUME NEW dom, NEW view PROVE FrameRight(NewDocument(dom, view))
BY PinsInList DEF FrameRight, PinsFound, FindsReported, NewDocument, Standing, Resolved

\* A frame without pins has placed none.
LEMMA NoPins ==
    ASSUME NEW f, FrameOk(f), f.pins = <<>>
    PROVE  f.placed = {} /\ f.gone = {} /\ Resolved(f) = {} /\ Standing(f) = {}
BY PinsInList DEF FrameOk, Resolved, Standing

\* What reports are posted, one after the other.
LEMMA ReportsAppended ==
    ASSUME NEW f \in Frames, f.placed \subseteq Pins(f.pins),
           NEW s \in Seq(PanelMessages), NEW force \in BOOLEAN
    PROVE  /\ s \o Positions(f) =
                IF ~f.enabled \/ f.shown = [gen |-> f.gen, at |-> InView(f)] THEN s
                ELSE Append(s, PositionsOf(f))
           /\ s \o Anchors(f, force) =
                IF ~force /\ f.lost = Lost(f) THEN s ELSE Append(s, AnchorsOf(f))
           /\ s \o Positions(f) \in Seq(PanelMessages)
<1> DEFINE m == PositionsOf(f)
           k == AnchorsOf(f)
<1>1. Positions(f) = IF ~f.enabled \/ f.shown = [gen |-> f.gen, at |-> InView(f)]
                     THEN <<>> ELSE <<m>>
  BY DEF Positions, PositionsOf
<1>2. Anchors(f, force) = IF ~force /\ f.lost = Lost(f) THEN <<>> ELSE <<k>>
  BY DEF Anchors, AnchorsOf
<1>3. m \in PanelMessages /\ k \in PanelMessages
  BY ReportTypes
<1>. HIDE DEF m, k
<1>4. s \o <<m>> = Append(s, m) /\ s \o <<k>> = Append(s, k) /\ s \o <<>> = s
  BY <1>3, AppendIsConcat, ConcatEmptySeq
<1>5. s \o Positions(f) \in Seq(PanelMessages)
  BY <1>1, <1>3, <1>4, AppendProperties
<1>6. QED BY <1>1, <1>2, <1>4, <1>5 DEF m, k

\* No message is taken.
NothingTaken ==
    /\ Len(toPanel') \in Nat /\ Len(toPanel') >= Len(toPanel)
    /\ \A i \in 1..Len(toPanel) : toPanel'[i] = toPanel[i]

\* The frame goes on as it was enabled, with the same pins.
LEMMA StaysConnected ==
    ASSUME TypeOK, Settles, UNCHANGED <<panel, toFrame, loadEvent>>, frame'.doc = frame.doc,
           frame'.enabled = frame.enabled, frame'.gen = frame.gen, NothingTaken
    PROVE  InOrder' /\ Connected'
<1>1. InOrder'
  BY DEF Settles, InOrder
<1>2. \A i \in 1..Len(toPanel) : i \in 1..Len(toPanel') /\ toPanel'[i] = toPanel[i]
  BY ReportedTypes DEF NothingTaken
<1>3. Connected'
  BY <1>2 DEF Settles, Connected, Enabled, NewestPins, Current
<1>4. QED BY <1>1, <1>3

\* The fields of a frame that has reported.
LEMMA ReportedFields ==
    ASSUME NEW g, FrameOk(g), NEW force, PlaceAndReport(g, force), PinsFound(g)
    PROVE  /\ FrameRight(frame')
           /\ frame'.doc = g.doc /\ frame'.enabled = g.enabled /\ frame'.gen = g.gen
           /\ frame'.lost = Lost(g)
           /\ frame'.shown = [gen |-> g.gen, at |-> InView(g)]
<1> DEFINE lost == Lost(g)
           shown == [gen |-> g.gen, at |-> InView(g)]
<1>1. frame' = [[g EXCEPT !.redraw = FALSE, !.shifted = FALSE, !.shown = shown]
                  EXCEPT !.lost = lost]
  BY DEF PlaceAndReport, Drawn
<1>2. /\ g \in Frames /\ shown.gen = g.gen /\ shown.at = InView(g) /\ g.gen \in Nat
      /\ shown # None
  <2>1. shown \in Reports
    BY ReportTypes DEF FrameOk
  <2>2. QED BY <2>1, NoneAssumption DEF FrameOk, Frames
<1>. HIDE DEF lost, shown
<1>3. /\ frame'.doc = g.doc /\ frame'.enabled = g.enabled /\ frame'.gen = g.gen
      /\ frame'.lost = lost /\ frame'.shown = shown
      /\ frame'.pins = g.pins /\ frame'.dom = g.dom /\ frame'.placed = g.placed
      /\ frame'.view = g.view
      /\ frame'.gone = g.gone /\ frame'.waiting = g.waiting /\ frame'.recheck = g.recheck
  BY <1>1, <1>2 DEF Frames
<1>4. /\ InView(frame') = InView(g) /\ Resolved(frame') = Resolved(g)
      /\ Lost(frame') = lost /\ Standing(frame') = Standing(g)
      /\ InView(g) \subseteq Standing(g)
  BY <1>3 DEF InView, Standing, Resolved, Lost, lost
<1>5. PinsFound(frame')
  BY <1>3, <1>4 DEF PinsFound
<1>6. FindsReported(frame')
  BY <1>2, <1>3, <1>4 DEF FindsReported
<1>7. QED BY <1>3, <1>5, <1>6 DEF FrameRight, lost, shown

\* Positions of g are posted, unless the panel has been told, or is to be, where they are.
LEMMA PositionsSaid ==
    ASSUME TypeOK, PinsCurrent, Settles, NEW g, FrameOk(g), Current(g.gen),
           g.shown = frame.shown, g.gen >= frame.gen
    PROVE  Says(toPanel \o Positions(g), "positions", g.gen, InView(g),
                panel.tops = [n \in InView(g) |-> panel.list[n]])
<1> DEFINE known == panel.tops = [n \in InView(g) |-> panel.list[n]]
<1>1. /\ g \in Frames /\ g.gen \in Nat /\ g.placed \subseteq Pins(g.pins)
      /\ toPanel \in Seq(PanelMessages) /\ known \in BOOLEAN /\ frame.gen \in Nat
      /\ g.enabled
  BY ReportedTypes DEF PinsCurrent, Current, FrameOk, Frames
<1>2. CASE g.shown = [gen |-> g.gen, at |-> InView(g)]
  <2>1. [gen |-> g.gen, at |-> InView(g)] \in Reports
    BY <1>1, ReportTypes
  <2>2. frame.shown # None /\ frame.shown.gen = g.gen /\ frame.shown.at = InView(g)
    BY <1>2, <2>1, NoneAssumption
  <2>3. frame.gen = g.gen
    BY <1>1, <2>2 DEF Settles, FrameRight, FindsReported
  <2>4. Says(toPanel, "positions", g.gen, InView(g), known)
    BY <2>2, <2>3 DEF Settles, LastReports
  <2>5. toPanel \o Positions(g) = toPanel
    BY <1>1, <1>2, ReportsAppended
  <2>6. QED BY <2>4, <2>5
<1>3. CASE g.shown # [gen |-> g.gen, at |-> InView(g)]
  <2> DEFINE m == PositionsOf(g)
  <2>1. toPanel \o Positions(g) = Append(toPanel, m)
    BY <1>1, <1>3, ReportsAppended
  <2>2. /\ m \in PanelMessages /\ m.type = "positions" /\ m.gen = g.gen
        /\ m.at = InView(g)
    BY <1>1, ReportTypes DEF PositionsOf
  <2>. HIDE DEF m, known
  <2>3. Says(Append(toPanel, m), m.type, m.gen, m.at, known)
    BY <1>1, <2>2, SaysNow
  <2>4. QED BY <2>1, <2>2, <2>3 DEF known
<1>4. QED BY <1>2, <1>3

\* Positions of g are no report on what is missing.
LEMMA PositionsOnly ==
    ASSUME TypeOK, NEW g, FrameOk(g), NEW at, NEW known \in BOOLEAN,
           Says(toPanel, "anchors", g.gen, at, known)
    PROVE  Says(toPanel \o Positions(g), "anchors", g.gen, at, known)
<1> DEFINE m == PositionsOf(g)
<1>1. /\ g \in Frames /\ g.placed \subseteq Pins(g.pins)
      /\ toPanel \in Seq(PanelMessages)
  BY ReportedTypes DEF FrameOk
<1>2. m \in PanelMessages /\ m.type = "positions"
  BY <1>1, ReportTypes DEF PositionsOf
<1>3. toPanel \o Positions(g) \in {toPanel, Append(toPanel, m)}
  BY <1>1, ReportsAppended
<1>. HIDE DEF m
<1>4. Says(Append(toPanel, m), "anchors", g.gen, at, known)
  BY <1>1, <1>2, SaysStill
<1>5. QED BY <1>3, <1>4

\* The frame has looked for the pins of g, which are new or those it had, and posts
\* what has changed.
LEMMA PlacedSettles ==
    ASSUME TypeOK, PinsCurrent, Settles, UNCHANGED panel, NEW g, FrameOk(g), PinsFound(g),
           g.shown = frame.shown, g.gen >= frame.gen, NEW force \in BOOLEAN,
           ~force => g.gen = frame.gen /\ g.doc = frame.doc /\ g.lost = frame.lost,
           PlaceAndReport(g, force)
    PROVE  FrameRight(frame') /\ LastReports' /\ NothingTaken
<1> DEFINE first == toPanel \o Positions(g)
           k == AnchorsOf(g)
<1>1. /\ FrameRight(frame') /\ frame'.doc = g.doc /\ frame'.gen = g.gen
      /\ frame'.lost = Lost(g) /\ frame'.shown = [gen |-> g.gen, at |-> InView(g)]
  BY ReportedFields
<1>2. /\ g \in Frames /\ g.gen \in Nat /\ g.placed \subseteq Pins(g.pins)
      /\ toPanel \in Seq(PanelMessages) /\ Len(toPanel) \in Nat
  BY ReportedTypes DEF FrameOk, Frames
<1>3. toPanel' = first \o Anchors(g, force) /\ first \in Seq(PanelMessages)
  BY <1>2, ReportsAppended DEF PlaceAndReport
<1>4. /\ k \in PanelMessages /\ k.type = "anchors" /\ k.gen = g.gen /\ k.at = Lost(g)
  BY <1>2, ReportTypes DEF AnchorsOf
<1>. HIDE DEF first, k
<1>5. toPanel' = IF ~force /\ g.lost = Lost(g) THEN first ELSE Append(first, k)
  BY <1>2, <1>3, ReportsAppended DEF k
<1>6. ASSUME Current(g.gen)
      PROVE  Says(toPanel', "positions", g.gen, InView(g),
                  panel.tops = [n \in InView(g) |-> panel.list[n]])
  <2> DEFINE known == panel.tops = [n \in InView(g) |-> panel.list[n]]
  <2>1. Says(first, "positions", g.gen, InView(g), known) /\ known \in BOOLEAN
    BY <1>6, PositionsSaid DEF first
  <2>. HIDE DEF known
  <2>2. Says(Append(first, k), "positions", g.gen, InView(g), known)
    BY <1>3, <1>4, <2>1, SaysStill
  <2>3. QED BY <1>5, <2>1, <2>2 DEF known
<1>7. ASSUME Current(g.gen), g.doc = "complete"
      PROVE  Says(toPanel', "anchors", g.gen, Lost(g), panel.unplaced = Lost(g))
  <2> DEFINE known == panel.unplaced = Lost(g)
  <2>1. known \in BOOLEAN
    OBVIOUS
  <2>. HIDE DEF known
  <2>2. CASE ~force /\ g.lost = Lost(g)
    <3>1. Says(toPanel, "anchors", g.gen, Lost(g), known)
      BY <1>7, <2>2 DEF Settles, LastReports, known
    <3>2. Says(first, "anchors", g.gen, Lost(g), known)
      BY <2>1, <3>1, PositionsOnly DEF first
    <3>3. QED BY <1>5, <2>2, <3>2 DEF known
  <2>3. CASE ~(~force /\ g.lost = Lost(g))
    <3>1. Says(Append(first, k), k.type, k.gen, k.at, known)
      BY <1>3, <1>4, <2>1, SaysNow
    <3>2. QED BY <1>4, <1>5, <2>3, <3>1 DEF known
  <2>4. QED BY <2>2, <2>3
<1>8. LastReports'
  <2>1. Current(frame.gen)' => Current(g.gen)
    BY <1>1 DEF Current
  <2>2. frame'.shown.at = InView(g)
    BY <1>1
  <2>3. QED BY <1>1, <1>6, <1>7, <2>1, <2>2 DEF LastReports
<1>9. NothingTaken
  <2>1. PostedAfter(toPanel, toPanel', g, {PositionsOf(g), AnchorsOf(g)})
    BY ReportedType
  <2>2. QED BY <2>1 DEF PostedAfter, NothingTaken
<1>10. QED BY <1>1, <1>8, <1>9

LEMMA ForcedSettles ==
    ASSUME TypeOK, PinsCurrent, Settles, UNCHANGED panel, NEW g, FrameOk(g), PinsFound(g),
           g.shown = frame.shown, g.gen >= frame.gen, PlaceAndReport(g, TRUE)
    PROVE  FrameRight(frame') /\ LastReports' /\ NothingTaken
<1>1. ~TRUE => g.gen = frame.gen /\ g.doc = frame.doc /\ g.lost = frame.lost
  OBVIOUS
<1>2. TRUE \in BOOLEAN
  OBVIOUS
<1>3. QED BY <1>1, <1>2, PlacedSettles

LEMMA RecheckSettles ==
    ASSUME TypeOK, PinsPlaced, PinsCurrent, Settles, Recheck PROVE Settles'
<1> DEFINE f == [frame EXCEPT !.recheck = FALSE]
           placed == Standing(f) \cup Resolved(f)
           g == [f EXCEPT !.placed = placed, !.gone = {}]
<1>1. /\ FrameOk(frame) /\ frame \in Frames /\ PinsFound(frame) /\ FindsReported(frame)
      /\ UNCHANGED <<panel, toFrame, loadEvent>>
  BY FrameIsOk DEF TypeOK, Settles, FrameRight, Recheck
<1>2. /\ FrameOk(f) /\ f.gen = frame.gen /\ f.shown = frame.shown /\ f.doc = frame.doc
      /\ f.pins = frame.pins /\ f.waiting = frame.waiting /\ f.lost = frame.lost
      /\ f.enabled = frame.enabled /\ f.placed = frame.placed /\ f.gone = frame.gone
      /\ f.dom = frame.dom /\ f.recheck = FALSE /\ f.redraw = frame.redraw
  BY <1>1 DEF FrameOk, Frames
<1>3. /\ Standing(f) = Standing(frame) /\ Resolved(f) = Resolved(frame)
      /\ Lost(f) = Lost(frame)
  BY <1>2 DEF Standing, Resolved, Lost
<1>4. placed = Resolved(f) /\ placed \subseteq Pins(f.pins) /\ placed \in SUBSET Numbers
  BY <1>1, <1>2, <1>3, ListNumbers, PinsInList DEF PinsFound, Resolved, Frames
<1>5. \/ frame.waiting # None /\ frame' = f /\ toPanel' = toPanel
      \/ PlaceAndReport(g, FALSE)
  BY DEF Recheck
<1>. HIDE DEF f, placed
\* Pins that wait have not been placed.
<1>6. CASE frame.waiting # None /\ frame' = f /\ toPanel' = toPanel
  <2>1. f.doc = "loading" /\ f.pins = <<>>
    BY <1>2, <1>6 DEF FrameOk
  <2>2. f.placed = Resolved(f) /\ f.gone = {}
    BY <1>2, <2>1, NoPins
  <2>3. FrameRight(f)
    BY <1>1, <1>2, <1>3, <2>1, <2>2 DEF FrameRight, PinsFound, FindsReported
  <2>4. NothingTaken
    BY <1>6, ReportedTypes DEF NothingTaken
  <2>5. InOrder' /\ Connected'
    BY <1>1, <1>2, <1>6, <2>4, StaysConnected
  <2>6. LastReports'
    BY <1>1, <1>2, <1>6, <2>1 DEF Settles, LastReports, Current
  <2>7. QED BY <1>6, <2>3, <2>5, <2>6 DEF Settles
<1>7. CASE PlaceAndReport(g, FALSE)
  <2>1. /\ FrameOk(g) /\ g.gen = f.gen /\ g.shown = f.shown /\ g.pins = f.pins
        /\ g.waiting = f.waiting /\ g.doc = f.doc /\ g.lost = f.lost
        /\ g.enabled = f.enabled /\ g.dom = f.dom /\ g.placed = placed /\ g.gone = {}
    BY <1>2, <1>4 DEF FrameOk, Frames
  <2>2. Resolved(g) = Resolved(f) /\ Standing(g) = placed
    BY <2>1 DEF Resolved, Standing
  <2>3. PinsFound(g)
    BY <1>1, <1>2, <1>4, <2>1, <2>2 DEF PinsFound
  <2>. HIDE DEF g
  <2>4. frame'.doc = g.doc /\ frame'.enabled = g.enabled /\ frame'.gen = g.gen
    BY <1>7, <2>1, <2>3, ReportedFields
  <2>5. g.gen >= frame.gen
    BY <1>2, <2>1, ReportedTypes
  <2>6. FrameRight(frame') /\ LastReports' /\ NothingTaken
    BY <1>1, <1>2, <1>7, <2>1, <2>3, <2>5, PlacedSettles
  <2>7. InOrder' /\ Connected'
    BY <1>1, <1>2, <2>1, <2>4, <2>6, StaysConnected
  <2>8. QED BY <2>6, <2>7 DEF Settles
<1>8. QED BY <1>5, <1>6, <1>7

LEMMA RedrawSettles ==
    ASSUME TypeOK, PinsPlaced, PinsCurrent, Settles, Redraw PROVE Settles'
<1> DEFINE shown == [gen |-> frame.gen, at |-> InView(frame)]
<1>1. /\ FrameOk(frame) /\ frame \in Frames /\ PinsFound(frame) /\ FindsReported(frame)
      /\ UNCHANGED <<panel, toFrame, loadEvent>> /\ frame.gen \in Nat
      /\ frame' = [frame EXCEPT !.redraw = FALSE, !.shifted = FALSE, !.shown = shown]
      /\ toPanel' = toPanel \o Positions(frame) /\ shown.gen = frame.gen
      /\ shown.at = InView(frame)
  BY FrameIsOk, ReportedTypes DEF TypeOK, Settles, FrameRight, Redraw, Drawn
<1>. HIDE DEF shown
<1>2. /\ frame'.gen = frame.gen /\ frame'.shown = shown /\ frame'.doc = frame.doc
      /\ frame'.pins = frame.pins /\ frame'.waiting = frame.waiting
      /\ frame'.lost = frame.lost /\ frame'.enabled = frame.enabled
      /\ frame'.placed = frame.placed /\ frame'.gone = frame.gone
      /\ frame'.dom = frame.dom /\ frame'.recheck = frame.recheck
      /\ frame'.view = frame.view
  BY <1>1 DEF Frames
<1>3. /\ InView(frame') = InView(frame) /\ Resolved(frame') = Resolved(frame)
      /\ Lost(frame') = Lost(frame) /\ Standing(frame') = Standing(frame)
      /\ InView(frame) \subseteq Standing(frame)
  BY <1>2 DEF InView, Standing, Resolved, Lost
<1>4. FrameRight(frame')
  <2>1. shown # None
    <3>1. [gen |-> frame.gen, at |-> InView(frame)] \in Reports
      BY <1>1, ReportTypes DEF FrameOk
    <3>2. QED BY <3>1, NoneAssumption DEF shown
  <2>2. QED BY <1>1, <1>2, <1>3, <2>1 DEF FrameRight, PinsFound, FindsReported
<1>5. NothingTaken
  BY <1>1, PositionsPosted, ReportedTypes DEF PostedAfter, NothingTaken, FrameOk
<1>6. InOrder' /\ Connected'
  BY <1>1, <1>2, <1>5, StaysConnected
<1>7. ASSUME Current(frame.gen) PROVE LastReports'
  <2>1. Says(toPanel', "positions", frame.gen, InView(frame),
             panel.tops = [n \in InView(frame) |-> panel.list[n]])
    BY <1>1, <1>7, PositionsSaid
  <2>2. frame.doc = "complete" =>
          Says(toPanel', "anchors", frame.gen, frame.lost, panel.unplaced = frame.lost)
    BY <1>1, <1>7, PositionsOnly DEF Settles, LastReports
  <2>3. QED BY <1>1, <1>2, <2>1, <2>2 DEF LastReports
<1>8. ~Current(frame.gen) => LastReports'
  BY <1>1, <1>2 DEF LastReports, Current
<1>9. QED BY <1>4, <1>6, <1>7, <1>8 DEF Settles

LEMMA CompleteSettles ==
    ASSUME TypeOK, PinsPlaced, PinsCurrent, Settles, DocumentComplete PROVE Settles'
<1> DEFINE f == [frame EXCEPT !.doc = "complete"]
<1>1. /\ FrameOk(frame) /\ frame \in Frames /\ PinsFound(frame) /\ FindsReported(frame)
      /\ UNCHANGED <<panel, toFrame>> /\ loadEvent' /\ frame.doc = "loading"
      /\ frame.gen \in Nat
  BY FrameIsOk, ReportedTypes DEF TypeOK, Settles, FrameRight, DocumentComplete
<1>2. /\ f \in Frames /\ f.doc = "complete" /\ f.gen = frame.gen /\ f.shown = frame.shown
      /\ f.pins = frame.pins /\ f.waiting = frame.waiting /\ f.lost = frame.lost
      /\ f.enabled = frame.enabled /\ f.placed = frame.placed /\ f.gone = frame.gone
      /\ f.dom = frame.dom /\ f.recheck = frame.recheck
      /\ frame.waiting # None => frame.waiting \in Lists /\ f.enabled
  BY <1>1 DEF FrameOk, Frames
<1>3. \/ frame.waiting = None /\ frame' = f /\ toPanel' = toPanel
      \/ frame.waiting # None /\ SetPins(f, frame.waiting)
  BY DEF DocumentComplete
<1>. HIDE DEF f
\* The load event is still to come.
<1>4. Connected'
  BY <1>1 DEF Connected
<1>5. CASE frame.waiting = None /\ frame' = f /\ toPanel' = toPanel
  <2>1. frame.gen = 0
    BY <1>1, <1>5 DEF PinsFound
  <2>2. Standing(f) = Standing(frame) /\ Resolved(f) = Resolved(frame)
    BY <1>2 DEF Standing, Resolved
  <2>3. FrameRight(f)
    BY <1>1, <1>2, <2>1, <2>2 DEF FrameRight, PinsFound, FindsReported
  <2>4. ~Current(frame.gen)'
    BY <1>1, <1>2, <1>5, <2>1, ReportedTypes DEF PinsCurrent, Current
  <2>5. InOrder'
    BY <1>1, <1>2, <1>5 DEF Settles, InOrder
  <2>6. QED BY <1>4, <1>5, <2>3, <2>4, <2>5 DEF Settles, LastReports
<1>6. CASE frame.waiting # None /\ SetPins(f, frame.waiting)
  <2>1. PICK g : /\ FrameOk(g) /\ g.gen = f.gen /\ g.pins = frame.waiting
                 /\ g.waiting = None /\ g.shown = f.shown /\ g.doc = f.doc
                 /\ g.enabled = f.enabled /\ g.placed = Resolved(g) /\ g.gone = {}
                 /\ PlaceAndReport(g, TRUE)
    <3>1. /\ f \in Frames /\ f.doc = "complete" /\ f.enabled
          /\ frame.waiting \in Lists
      BY <1>2, <1>6
    <3>2. ASSUME NEW list \in Lists, SetPins(f, list)
          PROVE  \E g : /\ FrameOk(g) /\ g.gen = f.gen /\ g.pins = list
                        /\ g.waiting = None /\ g.shown = f.shown /\ g.doc = f.doc
                        /\ g.enabled = f.enabled /\ g.placed = Resolved(g) /\ g.gone = {}
                        /\ PlaceAndReport(g, TRUE)
      BY <3>1, <3>2, SetType
    <3>3. QED BY <1>6, <3>1, <3>2
  <2>2. PinsFound(g)
    BY <1>1, <1>2, <1>6, <2>1 DEF PinsFound, Standing
  <2>3. g.gen >= frame.gen
    BY <1>1, <1>2, <2>1
  <2>4. FrameRight(frame') /\ LastReports'
    BY <1>1, <1>2, <2>1, <2>2, <2>3, ForcedSettles
  <2>5. frame'.gen = frame.gen
    BY <1>2, <2>1, <2>2, ReportedFields
  <2>6. InOrder'
    BY <1>1, <2>5 DEF Settles, InOrder
  <2>7. QED BY <1>4, <2>4, <2>6 DEF Settles
<1>7. QED BY <1>3, <1>5, <1>6

LEMMA FrameReceivesSettles ==
    ASSUME TypeOK, PinsPlaced, PinsCurrent, Settles, FrameReceives PROVE Settles'
<1> DEFINE m == Head(toFrame)
           f == [frame EXCEPT !.gen = m.gen]
<1>1. /\ FrameOk(frame) /\ frame \in Frames /\ PinsFound(frame) /\ FindsReported(frame)
      /\ UNCHANGED <<panel, loadEvent>> /\ toFrame # <<>> /\ toFrame' = Tail(toFrame)
      /\ frame.gen \in Nat /\ panel.gen \in Nat /\ toFrame \in Seq(FrameMessages)
  BY FrameIsOk, ReportedTypes DEF TypeOK, Settles, FrameRight, FrameReceives
<1>2. /\ Len(toFrame) \in Nat /\ Len(toFrame) > 0 /\ Len(toFrame') = Len(toFrame) - 1
      /\ \A i \in 1..Len(toFrame) - 1 : toFrame'[i] = toFrame[i + 1]
      /\ m \in FrameMessages /\ m = toFrame[1] /\ 1 \in 1..Len(toFrame)
  BY <1>1, Received
<1>3. m.type \in {"enable", "pins"}
      /\ (m.type = "pins" =>
            /\ m.gen \in Nat /\ m.gen <= panel.gen /\ m.gen > frame.gen /\ m.gen > 0
            /\ m.list \in Lists /\ m.list # None)
  <2>1. /\ m.type \in {"enable", "pins"}
        /\ m.type = "pins" => m.gen \in Nat /\ m.list \in Lists
    BY <1>2, FrameMessageTypes
  <2>2. m.type = "pins" => m.gen <= panel.gen /\ frame.gen < m.gen
    BY <1>2 DEF PinsCurrent, PinsOk, Settles, InOrder
  <2>3. QED BY <1>1, <2>1, <2>2, NoneAssumption
<1>. HIDE DEF m
\* The other messages are still to come.
<1>4. ASSUME NEW i \in 1..Len(toFrame), i # 1
      PROVE  i - 1 \in 1..Len(toFrame') /\ toFrame'[i - 1] = toFrame[i]
  <2>1. i - 1 \in 1..Len(toFrame) - 1 /\ (i - 1) + 1 = i
    BY <1>2, <1>4
  <2>2. QED BY <1>2, <2>1
<1>5. ASSUME NEW i \in 1..Len(toFrame')
      PROVE  i + 1 \in 1..Len(toFrame) /\ toFrame'[i] = toFrame[i + 1] /\ i + 1 > 1
  BY <1>2
<1>6. ASSUME frame'.gen # frame.gen => m.type = "pins" /\ frame'.gen = m.gen
      PROVE  InOrder'
  <2>1. ASSUME NEW i \in 1..Len(toFrame'), NEW j \in 1..Len(toFrame'), i < j,
               toFrame'[i].type = "pins", toFrame'[j].type = "pins"
        PROVE  toFrame'[i].gen < toFrame'[j].gen
    <3>1. i + 1 < j + 1
      BY <1>2, <2>1
    <3>2. QED BY <1>5, <2>1, <3>1 DEF Settles, InOrder
  <2>2. ASSUME NEW i \in 1..Len(toFrame'), toFrame'[i].type = "pins"
        PROVE  frame'.gen < toFrame'[i].gen
    <3>1. frame.gen < toFrame'[i].gen
      BY <1>5, <2>2 DEF Settles, InOrder
    <3>2. m.type = "pins" => m.gen < toFrame'[i].gen
      BY <1>2, <1>5, <2>2 DEF Settles, InOrder
    <3>3. QED BY <1>6, <3>1, <3>2
  <2>3. QED BY <2>1, <2>2 DEF InOrder
<1>7. ASSUME frame.doc = "complete", ~loadEvent, Enabled, m.type = "pins",
             ~frame.enabled
      PROVE  /\ ~NewestPins(1)
             /\ frame'.enabled \/ \E i \in 1..Len(toFrame') :
                  /\ toFrame'[i].type = "enable"
                  /\ \A j \in 1..Len(toFrame') : NewestPins(j)' => i < j
  <2>1. PICK i \in 1..Len(toFrame) :
          /\ toFrame[i].type = "enable"
          /\ \A j \in 1..Len(toFrame) : NewestPins(j) => i < j
    BY <1>7 DEF Enabled
  <2>2. i # 1 /\ ~NewestPins(1)
    BY <1>2, <1>7, <2>1
  <2>3. i - 1 \in 1..Len(toFrame') /\ toFrame'[i - 1].type = "enable"
    BY <1>4, <2>1, <2>2
  <2>4. ASSUME NEW j \in 1..Len(toFrame'), NewestPins(j)' PROVE i - 1 < j
    <3>1. NewestPins(j + 1) /\ j + 1 \in 1..Len(toFrame)
      BY <1>1, <1>5, <2>4 DEF NewestPins, Current
    <3>2. QED BY <1>2, <2>1, <3>1
  <2>5. QED BY <2>2, <2>3, <2>4
<1>8. ASSUME NEW i \in 1..Len(toFrame), NewestPins(i), i # 1
      PROVE  \E j \in 1..Len(toFrame') : NewestPins(j)'
  BY <1>1, <1>4, <1>8 DEF NewestPins, Current
<1>9. ASSUME NEW i \in 1..Len(toFrame), toFrame[i].type = "enable", m.type # "enable"
      PROVE  \E j \in 1..Len(toFrame') : toFrame'[j].type = "enable"
  BY <1>2, <1>4, <1>9
<1>10. CASE /\ \/ frame.doc \in {"blank", "plain"}
               \/ m.type = "pins" /\ ~frame.enabled
            /\ UNCHANGED <<frame, toPanel>>
  <2>1. Connected'
    <3>1. CASE frame.doc = "complete" /\ ~loadEvent
      <4>1. m.type = "pins" /\ ~frame.enabled
        BY <1>10, <3>1
      <4>2. Enabled' /\ ~NewestPins(1)
        BY <1>7, <1>10, <3>1, <4>1 DEF Settles, Connected, Enabled
      <4>3. QED BY <1>1, <1>8, <1>9, <1>10, <3>1, <4>1, <4>2 DEF Settles, Connected
    <3>2. CASE ~(frame.doc = "complete" /\ ~loadEvent)
      BY <1>1, <1>10, <3>2 DEF Connected
    <3>3. QED BY <3>1, <3>2
  <2>2. InOrder'
    <3>1. frame'.gen = frame.gen
      BY <1>10
    <3>2. QED BY <1>6, <3>1
  <2>3. LastReports'
    BY <1>1, <1>10 DEF Settles, LastReports, Current
  <2>4. QED BY <1>10, <2>1, <2>2, <2>3 DEF Settles
<1>11. CASE /\ m.type = "enable" /\ frame' = [frame EXCEPT !.enabled = TRUE]
            /\ toPanel' = Append(toPanel, [type |-> "enabled"])
  <2> DEFINE k == [type |-> "enabled"]
  <2>1. /\ frame'.gen = frame.gen /\ frame'.shown = frame.shown /\ frame'.doc = frame.doc
        /\ frame'.pins = frame.pins /\ frame'.waiting = frame.waiting
        /\ frame'.lost = frame.lost /\ frame'.enabled = TRUE
        /\ frame'.placed = frame.placed /\ frame'.gone = frame.gone
        /\ frame'.dom = frame.dom /\ frame'.recheck = frame.recheck
        /\ frame'.redraw = frame.redraw /\ frame'.shifted = frame.shifted
        /\ frame'.view = frame.view
    BY <1>1, <1>11 DEF Frames
  <2>2. /\ InView(frame') = InView(frame) /\ Resolved(frame') = Resolved(frame)
        /\ Lost(frame') = Lost(frame) /\ Standing(frame') = Standing(frame)
    BY <2>1 DEF InView, Standing, Resolved, Lost
  <2>3. FrameRight(frame')
    BY <1>1, <2>1, <2>2 DEF FrameRight, PinsFound, FindsReported
  <2>4. k \in PanelMessages /\ k.type = "enabled" /\ toPanel \in Seq(PanelMessages)
    BY ReportedTypes DEF PanelMessages
  <2>5. toPanel' = Append(toPanel, k)
    BY <1>11
  <2>. HIDE DEF k
  <2>6. \E i \in 1..Len(toPanel') : toPanel'[i].type = "enabled"
    BY <2>4, <2>5, AppendedFields
  <2>7. ~NewestPins(1)
    BY <1>2, <1>11 DEF NewestPins
  <2>8. Connected'
    BY <1>1, <1>8, <2>1, <2>6, <2>7 DEF Settles, Connected, Enabled
  <2>9. LastReports'
    <3>1. ASSUME NEW type \in {"positions", "anchors"}, NEW at, NEW known \in BOOLEAN,
                 Says(toPanel, type, frame.gen, at, known)
          PROVE  Says(toPanel', type, frame.gen, at, known)
      BY <2>4, <2>5, <3>1, SaysStill
    <3>2. Current(frame.gen)' = Current(frame.gen)
      BY <1>1, <2>1 DEF Current
    <3>3. QED BY <1>1, <2>1, <3>1, <3>2 DEF Settles, LastReports
  <2>10. InOrder'
    BY <1>6, <2>1
  <2>11. QED BY <2>3, <2>8, <2>9, <2>10 DEF Settles
<1>12. CASE /\ frame.doc = "loading" /\ m.type = "pins" /\ frame.enabled
            /\ frame' = [f EXCEPT !.waiting = m.list] /\ UNCHANGED toPanel
  <2>1. /\ frame'.gen = m.gen /\ frame'.shown = frame.shown /\ frame'.doc = "loading"
        /\ frame'.pins = frame.pins /\ frame'.waiting = m.list
        /\ frame'.enabled = TRUE
        /\ frame'.placed = frame.placed /\ frame'.gone = frame.gone
        /\ frame'.dom = frame.dom /\ frame'.recheck = frame.recheck
    BY <1>1, <1>3, <1>12 DEF Frames
  <2>2. /\ Standing(frame') = Standing(frame) /\ Resolved(frame') = Resolved(frame)
    BY <2>1 DEF Standing, Resolved
  <2>3. frame.shown # None => frame.shown.gen \in Nat /\ frame.shown.gen < m.gen
    BY <1>1, <1>3, <1>12, ReportedTypes DEF FindsReported
  <2>4. FrameRight(frame')
    BY <1>1, <1>3, <1>12, <2>1, <2>2, <2>3 DEF FrameRight, PinsFound, FindsReported
  <2>5. Connected'
    BY <2>1 DEF Connected
  <2>6. LastReports'
    BY <1>3, <1>12, <2>1, <2>3 DEF LastReports
  <2>7. InOrder'
    BY <1>6, <1>12, <2>1
  <2>8. QED BY <2>4, <2>5, <2>6, <2>7 DEF Settles
<1>13. CASE /\ frame.doc = "complete" /\ m.type = "pins" /\ frame.enabled
            /\ SetPins(f, m.list)
  <2>1. /\ f \in Frames /\ f.doc = "complete" /\ f.gen = m.gen /\ f.shown = frame.shown
        /\ f.enabled = TRUE /\ m.list \in Lists /\ SetPins(f, m.list)
    BY <1>1, <1>3, <1>13 DEF Frames
  <2>. HIDE DEF f
  <2>2. PICK g : /\ FrameOk(g) /\ g.gen = f.gen /\ g.pins = m.list
                 /\ g.waiting = None /\ g.shown = f.shown /\ g.doc = f.doc
                 /\ g.enabled = f.enabled /\ g.placed = Resolved(g) /\ g.gone = {}
                 /\ PlaceAndReport(g, TRUE)
    <3>1. ASSUME NEW list \in Lists, SetPins(f, list)
          PROVE  \E g : /\ FrameOk(g) /\ g.gen = f.gen /\ g.pins = list
                        /\ g.waiting = None /\ g.shown = f.shown /\ g.doc = f.doc
                        /\ g.enabled = f.enabled /\ g.placed = Resolved(g) /\ g.gone = {}
                        /\ PlaceAndReport(g, TRUE)
      BY <2>1, <3>1, SetType
    <3>2. QED BY <2>1, <3>1
  <2>3. PinsFound(g)
    BY <1>3, <1>13, <2>1, <2>2 DEF PinsFound, Standing
  <2>4. g.gen >= frame.gen
    BY <1>1, <1>3, <1>13, <2>1, <2>2
  <2>5. FrameRight(frame') /\ LastReports' /\ NothingTaken
    BY <1>1, <2>1, <2>2, <2>3, <2>4, ForcedSettles
  <2>6. frame'.gen = m.gen /\ frame'.enabled = TRUE
    BY <2>1, <2>2, <2>3, ReportedFields
  <2>7. InOrder'
    BY <1>6, <1>13, <2>6
  <2>8. \A i \in 1..Len(toPanel) : i \in 1..Len(toPanel') /\ toPanel'[i] = toPanel[i]
    BY <2>5, ReportedTypes DEF NothingTaken
  <2>9. panel.ready /\ NewestPins(1) => frame'.gen = panel.gen
    BY <1>2, <2>6 DEF NewestPins, Current
  <2>10. ASSUME ~loadEvent PROVE Connected'
    <3>1. panel.ready => frame.gen = panel.gen \/ \E i \in 1..Len(toFrame) : NewestPins(i)
      BY <1>13, <2>10 DEF Settles, Connected
    <3>2. frame.gen # panel.gen
      BY <1>1, <1>3, <1>13
    <3>3. panel.ready => \/ frame'.gen = panel.gen
                         \/ \E i \in 1..Len(toFrame') : NewestPins(i)'
      BY <1>8, <2>9, <3>1, <3>2
    <3>4. \/ panel.ready
          \/ \E i \in 1..Len(toFrame') : toFrame'[i].type = "enable"
          \/ \E i \in 1..Len(toPanel') : toPanel'[i].type = "enabled"
      BY <1>9, <1>13, <2>8, <2>10 DEF Settles, Connected
    <3>5. QED BY <1>1, <2>6, <3>3, <3>4 DEF Connected, Enabled
  <2>11. loadEvent => Connected'
    BY <1>1 DEF Connected
  <2>12. QED BY <2>5, <2>7, <2>10, <2>11 DEF Settles
<1>14. QED BY <1>10, <1>11, <1>12, <1>13 DEF FrameReceives, m

\* A page begins, a script of the artifact changes it, or its elements move.
LEMMA DocumentSettles ==
    ASSUME TypeOK, PinsPlaced, PinsCurrent, Settles,
           \/ BridgeStarts \/ PlainPage \/ Navigate \/ Scroll \/ Shift
           \/ \E t \in Anchored : Mutate(t)
    PROVE  Settles'
<1>1. /\ FrameOk(frame) /\ frame \in Frames /\ PinsFound(frame) /\ FindsReported(frame)
      /\ panel.ready => panel.gen > 0
      /\ panel.gen \in Nat /\ frame.gen \in Nat
  BY FrameIsOk, ReportedTypes DEF TypeOK, Settles, FrameRight, PinsCurrent
<1>2. ASSUME UNCHANGED panel, frame'.gen = 0 PROVE LastReports'
  BY <1>1, <1>2 DEF LastReports, Current
\* A document that begins has no pins.
<1>3. ASSUME NEW doc \in {"loading", "plain"}, frame.doc = "blank",
             frame' = [frame EXCEPT !.doc = doc], UNCHANGED <<panel, toFrame>>
      PROVE  Settles'
  <2>1. /\ frame'.gen = frame.gen /\ frame'.shown = frame.shown /\ frame'.doc = doc
        /\ frame'.pins = frame.pins /\ frame'.waiting = frame.waiting
        /\ frame'.lost = frame.lost /\ frame'.enabled = frame.enabled
        /\ frame'.placed = frame.placed /\ frame'.gone = frame.gone
        /\ frame'.dom = frame.dom /\ frame'.recheck = frame.recheck
    BY <1>1, <1>3 DEF Frames
  <2>2. Standing(frame') = Standing(frame) /\ Resolved(frame') = Resolved(frame)
    BY <2>1 DEF Standing, Resolved
  <2>3. frame.gen = 0
    BY <1>1, <1>3 DEF PinsFound, TypeOK
  <2>4. FrameRight(frame')
    BY <1>1, <1>3, <2>1, <2>2, <2>3 DEF FrameRight, PinsFound, FindsReported
  <2>5. Connected' /\ InOrder'
    BY <1>3, <2>1 DEF Settles, Connected, InOrder
  <2>6. LastReports'
    BY <1>2, <1>3, <2>1, <2>3
  <2>7. QED BY <2>4, <2>5, <2>6 DEF Settles
<1>4. CASE BridgeStarts
  BY <1>3, <1>4 DEF BridgeStarts
<1>5. CASE PlainPage
  BY <1>3, <1>5 DEF PlainPage
<1>6. CASE Navigate
  <2>1. PICK dom, view : frame' = NewDocument(dom, view)
    BY <1>6 DEF Navigate
  <2>2. frame'.gen = 0 /\ frame'.doc = "blank"
    BY <2>1 DEF NewDocument
  <2>3. FrameRight(frame')
    BY <2>1, NewDocumentRight
  <2>4. InOrder' /\ Connected' /\ LastReports'
    BY <1>2, <1>6, <2>2 DEF Navigate, InOrder, Connected
  <2>5. QED BY <2>3, <2>4 DEF Settles
<1>7. ASSUME NEW t \in Anchored, Mutate(t) PROVE Settles'
  <2> DEFINE dom == IF t \in frame.dom THEN frame.dom \ {t} ELSE frame.dom \cup {t}
             gone == frame.gone \cup {n \in frame.placed : frame.pins[n] = t}
             recheck == frame.recheck \/ frame.enabled
             redraw == frame.redraw \/ frame.enabled
  <2>0. PICK view :
          frame' = [frame EXCEPT !.dom = dom, !.gone = gone, !.recheck = recheck,
                                 !.redraw = redraw, !.view = view]
    BY <1>7 DEF Mutate, Moves
  <2>1. /\ frame'.gen = frame.gen /\ frame'.shown = frame.shown
        /\ frame'.doc = frame.doc /\ frame'.pins = frame.pins
        /\ frame'.waiting = frame.waiting /\ frame'.lost = frame.lost
        /\ frame'.enabled = frame.enabled /\ frame'.placed = frame.placed
    <3>. HIDE DEF dom, gone, recheck, redraw
    <3>1. QED BY <1>1, <2>0 DEF Frames
  <2>2. /\ frame'.gone = frame.gone \cup {n \in frame.placed : frame.pins[n] = t}
        /\ \A s : s # t /\ s \in frame.dom => s \in frame'.dom
        /\ frame'.recheck = (frame.recheck \/ frame.enabled)
        /\ frame.enabled => frame'.redraw
    BY <1>1, <2>0 DEF Frames
  <2>3. Standing(frame') \subseteq Resolved(frame')
    BY <1>1, <2>1, <2>2 DEF PinsFound, Standing, Resolved
  <2>4. Lost(frame') = Lost(frame)
    BY <2>1 DEF Lost
  <2>5. ASSUME ~frame.enabled PROVE frame'.placed = Resolved(frame') /\ frame'.gone = {}
    <3>1. frame.gen = 0 /\ frame.pins = <<>>
      BY <1>1, <2>5 DEF PinsFound
    <3>2. frame.placed = {} /\ frame.gone = {} /\ Pins(<<>>) = {}
      BY <1>1, <3>1, NoPins, PinsInList
    <3>3. QED BY <2>1, <2>2, <3>1, <3>2 DEF Resolved
  <2>6. PinsFound(frame')
    BY <1>1, <2>1, <2>2, <2>3, <2>5 DEF PinsFound
  <2>7. FindsReported(frame')
    <3>1. frame'.gen > 0 => frame'.redraw
      <4>1. frame.gen > 0 => frame.enabled
        BY <1>1 DEF PinsFound
      <4>2. QED BY <2>1, <2>2, <4>1
    <3>2. QED BY <1>1, <2>1, <2>4, <3>1 DEF FindsReported
  <2>8. UNCHANGED <<panel, toFrame, loadEvent, toPanel>>
    BY <1>7 DEF Mutate
  <2>9. NothingTaken
    BY <2>8, ReportedTypes DEF NothingTaken
  <2>10. InOrder' /\ Connected'
    BY <2>1, <2>8, <2>9, StaysConnected
  <2>11. LastReports'
    BY <2>1, <2>8 DEF Settles, LastReports, Current
  <2>12. QED BY <2>6, <2>7, <2>10, <2>11 DEF Settles, FrameRight
<1>8. CASE Scroll \/ Shift
  <2>1. /\ frame'.gen = frame.gen /\ frame'.shown = frame.shown
        /\ frame'.doc = frame.doc /\ frame'.pins = frame.pins
        /\ frame'.waiting = frame.waiting /\ frame'.lost = frame.lost
        /\ frame'.enabled = frame.enabled /\ frame'.placed = frame.placed
        /\ frame'.gone = frame.gone /\ frame'.dom = frame.dom
        /\ frame'.recheck = frame.recheck
        /\ \/ frame'.redraw = TRUE
           \/ frame'.shifted = TRUE /\ frame'.redraw = frame.redraw
    <3>1. PICK view : \/ frame' = [frame EXCEPT !.redraw = TRUE, !.view = view]
                      \/ frame' = [frame EXCEPT !.shifted = TRUE, !.view = view]
      BY <1>8 DEF Scroll, Shift, Moves
    <3>2. CASE frame' = [frame EXCEPT !.redraw = TRUE, !.view = view]
      BY <1>1, <3>2 DEF Frames
    <3>3. CASE frame' = [frame EXCEPT !.shifted = TRUE, !.view = view]
      BY <1>1, <3>3 DEF Frames
    <3>4. QED BY <3>1, <3>2, <3>3
  <2>2. /\ Standing(frame') = Standing(frame) /\ Resolved(frame') = Resolved(frame)
        /\ Lost(frame') = Lost(frame)
    BY <2>1 DEF Standing, Resolved, Lost
  <2>3. PinsFound(frame')
    BY <1>1, <2>1, <2>2 DEF PinsFound
  <2>4. FindsReported(frame')
    BY <1>1, <2>1, <2>2 DEF FindsReported
  <2>5. UNCHANGED <<panel, toFrame, loadEvent, toPanel>>
    BY <1>8 DEF Scroll, Shift
  <2>6. NothingTaken
    BY <2>5, ReportedTypes DEF NothingTaken
  <2>7. InOrder' /\ Connected'
    BY <2>1, <2>5, <2>6, StaysConnected
  <2>8. LastReports'
    BY <2>1, <2>5 DEF Settles, LastReports, Current
  <2>9. QED BY <2>3, <2>4, <2>7, <2>8 DEF Settles, FrameRight
<1>9. QED BY <1>4, <1>5, <1>6, <1>7, <1>8

\* The pins of another list, or of the same once more, are sent.
LEMMA SentSettles ==
    ASSUME TypeOK, PinsCurrent, Settles, NEW p \in Panels, p.ready = panel.ready,
           p.gen = panel.gen, NEW times \in 1..2, SendPinsTimes(p, times),
           UNCHANGED <<frame, loadEvent, toPanel>>
    PROVE  Settles'
<1>1. CASE p.ready
  BY <1>1, PinsSentSettle
<1>2. CASE ~p.ready
  <2>1. panel' = p /\ UNCHANGED toFrame
    BY <1>2 DEF SendPinsTimes
  <2>2. QED BY <1>2, <2>1, NotReadySettles
<1>3. QED BY <1>1, <1>2

LEMMA LoadedSettles ==
    ASSUME TypeOK, PinsCurrent, Settles, NEW l \in Loads, Loaded(l) PROVE Settles'
<1> DEFINE p == [panel EXCEPT !.list = load[l].list, !.rev = load[l].rev,
                   !.first = FALSE, !.status = "shown",
                   !.unplaced = {}, !.about = load[l].list]
<1>1. /\ load[l].list \in Lists /\ load[l].rev \in Revs /\ panel \in Panels
      /\ UNCHANGED <<frame, loadEvent, toPanel>>
  BY DEF TypeOK, Loaded
<1>2. p \in Panels /\ p.ready = panel.ready /\ p.gen = panel.gen
  BY <1>1 DEF Panels
<1>3. \/ UNCHANGED <<panel, toFrame>>
      \/ SendPinsTimes(p, 1) \/ SendPinsTimes(p, 2)
  BY DEF Loaded, SendPins
<1>. HIDE DEF p
<1>4. CASE UNCHANGED <<panel, toFrame>>
  BY <1>1, <1>4, NothingSettled
<1>5. CASE SendPinsTimes(p, 1) \/ SendPinsTimes(p, 2)
  BY <1>1, <1>2, <1>5, SentSettles
<1>6. QED BY <1>3, <1>4, <1>5

\* The other steps of the panel concern the list alone.
LEMMA ListStepsSettle ==
    ASSUME TypeOK, Settles,
           \/ OthersChange \/ Submit \/ Apply \/ SubmitFails
           \/ \E l \in Loads : Submitted(l) \/ Reload(l) \/ Answer(l) \/ LoadFails(l)
    PROVE  Settles'
<1>1. panel \in Panels
  BY DEF TypeOK
<1>2. UNCHANGED <<frame, loadEvent, toPanel, toFrame>>
  BY DEF OthersChange, Submit, Apply, SubmitFails, Submitted, Reload, Answer, LoadFails
<1>3. CASE OthersChange \/ Submit \/ Apply
  <2>1. UNCHANGED panel
    BY <1>3 DEF OthersChange, Submit, Apply
  <2>2. QED BY <1>2, <2>1, NothingSettled
<1>4. CASE SubmitFails
  <2>1. SettleState(panel') = SettleState(panel)
    BY <1>1, <1>4 DEF SubmitFails, Panels, SettleState
  <2>2. QED BY <1>2, <2>1, NothingSettled
<1>5. ASSUME NEW l \in Loads, Submitted(l) \/ Reload(l) \/ Answer(l) \/ LoadFails(l)
      PROVE  Settles'
  <2>1. CASE Submitted(l) \/ Reload(l)
    <3>1. StartLoad(l)
      BY <2>1 DEF Submitted, Reload
    <3>2. SettleState(panel') = SettleState(panel)
      BY <1>1, <3>1 DEF StartLoad, Panels, SettleState
    <3>3. QED BY <1>2, <3>2, NothingSettled
  <2>2. CASE Answer(l) \/ LoadFails(l)
    <3>1. SettleState(panel') = SettleState(panel)
      BY <1>1, <2>2 DEF Answer, LoadFails, Panels, SettleState
    <3>2. QED BY <1>2, <3>1, NothingSettled
  <2>3. QED BY <1>5, <2>1, <2>2
<1>6. QED BY <1>3, <1>4, <1>5

LEMMA ShowPanelSettles ==
    ASSUME TypeOK, PinsCurrent, Settles, ShowPanel PROVE Settles'
<1>1. /\ SendPinsTimes(panel, 1) /\ UNCHANGED <<frame, loadEvent, toPanel>>
      /\ panel \in Panels /\ 1 \in 1..2
  BY DEF ShowPanel, SendPins, TypeOK
<1>2. QED BY <1>1, SentSettles

LEMMA NextSettles ==
    TypeOK /\ PinsPlaced /\ PinsCurrent /\ Settles /\ [Next]_vars => Settles'
<1> SUFFICES ASSUME TypeOK, PinsPlaced, PinsCurrent, Settles, [Next]_vars PROVE Settles'
  OBVIOUS
<1>1. CASE UNCHANGED vars
  BY <1>1, NothingSettled DEF vars
<1>2. CASE Users
  BY <1>2, ListStepsSettle, ShowPanelSettles, DocumentSettles DEF Users
<1>3. CASE System
  BY <1>3, ListStepsSettle, LoadedSettles, FrameLoadedSettles, ReceivedSettles,
     FrameReceivesSettles, RecheckSettles, RedrawSettles, CompleteSettles,
     DocumentSettles
     DEF System
<1>4. QED BY <1>1, <1>2, <1>3 DEF Next

\* With nothing on its way, what is known of the last reports is what was found.
LEMMA SettledAgrees ==
    ASSUME TypeOK, PinsCurrent, Settles, Quiet, frame.doc = "complete" PROVE Agrees
<1>1. toFrame = <<>> /\ toPanel = <<>> /\ ~loadEvent /\ ~frame.recheck /\ ~frame.redraw
  BY DEF Quiet
<1>2. panel.ready /\ frame.gen = panel.gen
  BY <1>1 DEF Settles, Connected, Enabled
<1>3. frame.waiting = None
  BY DEF TypeOK
<1>4. Current(frame.gen) /\ frame.pins = panel.list /\ frame.gen > 0
  BY <1>2, <1>3 DEF Current, PinsCurrent, FramePins
<1>5. frame.placed = Resolved(frame) /\ frame.gone = {}
  BY <1>1 DEF Settles, FrameRight, PinsFound
<1>6. /\ frame.lost = Lost(frame)
      /\ frame.shown # None /\ frame.shown.gen = frame.gen
      /\ frame.shown.at \subseteq Standing(frame)
      /\ ~frame.shifted => frame.shown.at = InView(frame)
  BY <1>1, <1>4 DEF Settles, FrameRight, FindsReported
<1>7. ASSUME NEW type, NEW at, NEW known, Says(toPanel, type, frame.gen, at, known)
      PROVE  known
  BY <1>1, <1>7 DEF Says, About
<1>8. panel.tops = [n \in frame.shown.at |-> panel.list[n]]
  BY <1>4, <1>6, <1>7 DEF Settles, LastReports
<1>9. panel.unplaced = Lost(frame)
  BY <1>4, <1>6, <1>7 DEF Settles, LastReports
<1> DEFINE found == {n \in Pins(panel.list) : panel.list[n] \in frame.dom}
<1>10. Standing(frame) = found /\ Lost(frame) = Pins(panel.list) \ found
  BY <1>4, <1>5 DEF Standing, Lost, Resolved
<1>11. InView(frame) = {n \in found : panel.list[n] \in frame.view}
  BY <1>4, <1>10 DEF InView
<1>12. /\ DOMAIN panel.tops = frame.shown.at
       /\ \A n \in DOMAIN panel.tops : panel.tops[n] = panel.list[n]
  BY <1>8
<1>13. QED BY <1>2, <1>4, <1>6, <1>9, <1>10, <1>11, <1>12 DEF Agrees

-----------------------------------------------------------------------------
(* The theorems.                                                           *)

LEMMA Invariance == Spec => []IInv
<1>1. Init => IInv
  BY InitTypeOK, InitFresh, InitReported, InitSettles DEF IInv, Fresh, Reported
<1>2. IInv /\ [Next]_vars => IInv'
  BY NextTypeOK, NextFresh, NextReported, NextSettles DEF IInv, Fresh, Reported
<1>3. QED BY <1>1, <1>2, PTL DEF Spec

\* The panel, the frame, the loads and the messages keep their types: pins wait only
\* while the document loads, a report is missing only pins of the list shown.
THEOREM TypeCorrect == Spec => []TypeOK
<1>1. IInv => TypeOK
  BY DEF IInv
<1>2. QED BY <1>1, Invariance, PTL

\* A list that is shown is not older than this viewer's last change that was
\* answered, however many loads overlap (load, loadSeq).
THEOREM ListIsFresh == Spec => []ListFresh
<1>1. IInv => ListFresh
  BY DEF IInv
<1>2. QED BY <1>1, Invariance, PTL

\* No report on an older list is taken for one on the list that is shown, however the
\* messages, the loads and the frame's navigation interleave (pinGen, gen).
THEOREM ReportsAreCurrent == Spec => []ReportsCurrent
<1>1. IInv => ReportsCurrent
  BY DEF IInv, ReportsOk, TopsCurrent, ReportsCurrent
<1>2. QED BY <1>1, Invariance, PTL

\* Whenever nothing is on its way between the panel and a page with the bridge, the
\* pins of the frame are those of the list shown, and the panel knows of each of the
\* first PinLimit whether it is on the page, and whether it is in view unless the layout
\* has shifted since the bridge last looked, whatever came in between (comments.js,
\* bridge.js): the first half of PinsSettle.
THEOREM RestIsAgreement == Spec => [](Quiet /\ frame.doc = "complete" => Agrees)
<1>1. IInv => (Quiet /\ frame.doc = "complete" => Agrees)
  BY SettledAgrees DEF IInv
<1>2. QED BY <1>1, Invariance, PTL
=============================================================================
