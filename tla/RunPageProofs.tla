---------------------------- MODULE RunPageProofs ----------------------------
(***************************************************************************)
(* Proofs about the event stream, for any number of transactions and        *)
(* events: whatever the order of their commits, a connection skips only     *)
(* what was overtaken.                                                     *)
(***************************************************************************)
EXTENDS RunPage, SequenceTheorems, FiniteSetTheorems, TLAPS

(* An id belongs to one transaction until it is committed, once.            *)
IdsInv ==
  /\ \A e \in Event : at[e] <= run.n /\ (at[e] # 0 => e <= lastEvent)
  /\ \A w \in Writer : \A e \in open[w] : at[e] = 0 /\ e <= lastEvent
  /\ \A w, v \in Writer : w # v => open[w] \cap open[v] = {}

(* A connection stands at an event it has sent.                            *)
CursorInv == cursor = 0 \/ cursor \in Committed

StreamInv == PageTypeOK /\ IdsInv /\ CursorInv /\ SkippedWasOvertaken

-----------------------------------------------------------------------------
LEMMA UnsentFinite ==
  ASSUME PageTypeOK
  PROVE  Unsent \subseteq Event /\ Cardinality(Unsent) \in Nat
<1>1. Unsent \subseteq Event
  BY DEF Unsent, Committed
<1>2. IsFiniteSet(Event)
  BY PageAssumption, FS_Interval DEF Event
<1> QED BY <1>1, <1>2, FS_Subset, FS_CardinalityType

LEMMA WithoutOne ==
  ASSUME NEW s \in Seq(Run), NEW i \in DOMAIN s
  PROVE  RemoveAt(s, i) \in Seq(Run)
<1>1. Len(s) \in Nat /\ i \in 1 .. Len(s) /\ \A j \in 1 .. Len(s) : s[j] \in Run
  OBVIOUS
<1>2. SubSeq(s, 1, i - 1) \in Seq(Run)
  BY <1>1, SubSeqProperties
<1>3. SubSeq(s, i + 1, Len(s)) \in Seq(Run)
  BY <1>1, SubSeqProperties
<1> QED BY <1>2, <1>3, ConcatProperties DEF RemoveAt

-----------------------------------------------------------------------------
LEMMA PageInitTypes == PageInit => PageTypeOK
<1> SUFFICES ASSUME PageInit PROVE PageTypeOK
  OBVIOUS
<1>1. run \in Run /\ page \in Run \cup {Nothing}
  BY DEF PageInit, Run, Live
<1>2. answers \in Seq(Run)
  BY DEF PageInit
<1>3. at \in [Event -> Nat] /\ open \in [Writer -> SUBSET Event]
  BY DEF PageInit
<1>4. lastEvent \in 0 .. MaxEvents /\ cursor \in 0 .. MaxEvents
  BY PageAssumption DEF PageInit
<1> QED BY <1>1, <1>2, <1>3, <1>4 DEF PageInit, PageTypeOK

LEMMA RowStepTypes ==
  ASSUME PageTypeOK, NEW w \in Writer, Insert(w) \/ Commit(w) \/ Rollback(w)
  PROVE  PageTypeOK'
<1> USE PageAssumption
<1>1. CASE Insert(w)
  <2>1. lastEvent + 1 \in Event /\ lastEvent' \in 0 .. MaxEvents
    BY <1>1 DEF Insert, PageTypeOK, Event
  <2>2. open' \in [Writer -> SUBSET Event]
    BY <1>1, <2>1 DEF Insert, PageTypeOK
  <2> QED BY <1>1, <2>1, <2>2 DEF Insert, PageTypeOK, streamVars, pageVars, Event
<1>2. CASE Commit(w)
  <2>1. run' \in Run
    BY <1>2 DEF Commit, PageTypeOK, Run
  <2>2. at' \in [Event -> Nat]
    BY <1>2 DEF Commit, PageTypeOK, Run
  <2>3. open' \in [Writer -> SUBSET Event]
    BY <1>2 DEF Commit, PageTypeOK
  <2> QED BY <1>2, <2>1, <2>2, <2>3 DEF Commit, PageTypeOK, streamVars, pageVars, Event
<1>3. CASE Rollback(w)
  BY <1>3 DEF Rollback, PageTypeOK, streamVars, pageVars, Event
<1> QED BY <1>1, <1>2, <1>3

LEMMA PollTypes ==
  ASSUME PageTypeOK, Poll
  PROVE  PageTypeOK'
<1>1. Unsent \subseteq Event /\ Cardinality(Unsent) \in Nat
  BY UnsentFinite
<1>2. cursor' \in Event
  BY <1>1 DEF Poll
<1>3. Event \subseteq 0 .. MaxEvents /\ Event' = Event
  BY PageAssumption DEF Event
<1>4. cursor' \in 0 .. MaxEvents
  BY <1>2, <1>3
<1>5. heard' \subseteq Event
  BY <1>1 DEF Poll, PageTypeOK
<1>6. inbox' \in Nat
  <2>1. inbox \in Nat /\ inbox' = inbox + Cardinality(Unsent)
    BY DEF Poll, PageTypeOK
  <2> QED BY <1>1, <2>1
<1> QED BY <1>3, <1>4, <1>5, <1>6 DEF Poll, PageTypeOK, rowVars

LEMMA PageStepTypes ==
  ASSUME PageTypeOK,
         Hear \/ Answer \/ ShowSome \/ RequestFails \/ Break \/ RefreshAfterError
  PROVE  PageTypeOK'
<1>0. Event' = Event /\ MaxEvents \in Nat
  BY PageAssumption DEF Event
<1>1. CASE Hear
  BY <1>0, <1>1 DEF Hear, PageTypeOK, rowVars, streamVars
<1>2. CASE Answer
  <2>1. answers' \in Seq(Run)
    BY <1>2 DEF Answer, PageTypeOK
  <2>2. asked' \in Nat
    BY <1>2 DEF Answer, PageTypeOK
  <2> QED BY <1>0, <1>2, <2>1, <2>2 DEF Answer, PageTypeOK, rowVars, streamVars
<1>3. CASE ShowSome
  <2>1. PICK i \in DOMAIN answers : Show(i)
    BY <1>3 DEF ShowSome
  <2>2. answers[i] \in Run /\ answers \in Seq(Run)
    BY <2>1 DEF PageTypeOK
  <2>3. answers' \in Seq(Run) /\ page' \in Run
    BY <2>1, <2>2, WithoutOne DEF Show
  <2>4. newest' \in Nat \cup {0 - 1}
    BY <2>1, <2>2 DEF Show, PageTypeOK, Run
  <2>5. /\ source' \in {"none", "open", "broken", "closed"}
        /\ cursor' \in 0 .. MaxEvents /\ heard' \subseteq Event /\ inbox' \in Nat
    BY <1>0, <2>1 DEF Show, Reconnect, PageTypeOK, streamVars
  <2> QED BY <1>0, <2>1, <2>3, <2>4, <2>5 DEF Show, PageTypeOK, rowVars
<1>4. CASE RequestFails
  BY <1>0, <1>4 DEF RequestFails, PageTypeOK, rowVars, streamVars
<1>5. CASE Break
  BY <1>0, <1>5 DEF Break, PageTypeOK, rowVars, streamVars
<1>6. CASE RefreshAfterError
  BY <1>0, <1>6 DEF RefreshAfterError, PageTypeOK, rowVars, streamVars
<1> QED BY <1>1, <1>2, <1>3, <1>4, <1>5, <1>6

LEMMA PageTypesInductive == PageTypeOK /\ [PageNext]_runPageVars => PageTypeOK'
<1> SUFFICES ASSUME PageTypeOK, [PageNext]_runPageVars PROVE PageTypeOK'
  OBVIOUS
<1>1. CASE PageNext
  BY <1>1, RowStepTypes, PollTypes, PageStepTypes DEF PageNext
<1>2. CASE UNCHANGED runPageVars
  BY <1>2 DEF runPageVars, rowVars, streamVars, pageVars, PageTypeOK, Event
<1> QED BY <1>1, <1>2

(* Every variable of the page, the stream and the rows keeps its type. *)
THEOREM PageTypes == PageSpec => []PageTypeOK
  BY PageInitTypes, PageTypesInductive, PTL DEF PageSpec

-----------------------------------------------------------------------------
(* A commit: what was committed stays as it was, and what is new has come   *)
(* after it.                                                               *)
LEMMA CommitPublishes ==
  ASSUME PageTypeOK, IdsInv, NEW w \in Writer, Commit(w)
  PROVE  /\ \A e \in Event : at[e] # 0 => at'[e] = at[e] /\ at[e] < run'.n
         /\ \A e \in Event : at[e] = 0 /\ at'[e] # 0 => at'[e] = run'.n
<1>1. run.n \in Nat /\ run'.n = run.n + 1
  BY DEF Commit, PageTypeOK, Run
<1>2. \A e \in Event : at[e] \in Nat /\ at[e] <= run.n
  BY DEF PageTypeOK, IdsInv
<1>3. \A e \in Event : at'[e] = IF e \in open[w] THEN run.n + 1 ELSE at[e]
  BY DEF Commit
<1>4. \A e \in open[w] : at[e] = 0
  BY DEF IdsInv
<1> QED BY <1>1, <1>2, <1>3, <1>4

LEMMA RowStepKeepsStream ==
  ASSUME StreamInv, NEW w \in Writer, Insert(w) \/ Commit(w) \/ Rollback(w)
  PROVE  (IdsInv /\ CursorInv /\ SkippedWasOvertaken)'
<1>0. /\ PageTypeOK /\ IdsInv /\ CursorInv /\ SkippedWasOvertaken
      /\ cursor' = cursor /\ heard' = heard /\ Event' = Event
      /\ MaxEvents \in Nat
  BY PageAssumption DEF StreamInv, Insert, Commit, Rollback, streamVars, Event
<1>1. CASE Insert(w)
  <2>1. at' = at /\ run' = run /\ lastEvent \in Nat /\ lastEvent' = lastEvent + 1
    BY <1>0, <1>1 DEF Insert, PageTypeOK
  <2>2. \A v \in Writer : open'[v] = IF v = w THEN open[v] \cup {lastEvent + 1} ELSE open[v]
    BY <1>0, <1>1 DEF Insert, PageTypeOK
  <2>3. lastEvent + 1 \in Event /\ at[lastEvent + 1] = 0
    BY <1>0, <1>1, <2>1 DEF Insert, IdsInv, Event, PageTypeOK
  <2>4. IdsInv'
    <3>1. \A e \in Event : e \in Nat
      BY DEF Event
    <3>2. (\A e \in Event : at[e] <= run.n /\ (at[e] # 0 => e <= lastEvent))'
      BY <1>0, <2>1, <3>1 DEF IdsInv
    <3>3. (\A v \in Writer : \A e \in open[v] : at[e] = 0 /\ e <= lastEvent)'
      <4> SUFFICES ASSUME NEW v \in Writer, NEW e \in open'[v]
                   PROVE  at[e] = 0 /\ e <= lastEvent + 1
        BY <2>1
      <4>1. CASE e = lastEvent + 1
        BY <2>1, <2>3, <4>1
      <4>2. CASE e \in open[v]
        <5>1. e \in Event
          BY <1>0, <4>2 DEF PageTypeOK
        <5> QED BY <1>0, <2>1, <3>1, <4>2, <5>1 DEF IdsInv
      <4> QED BY <2>2, <4>1, <4>2
    <3>4. \A v \in Writer : lastEvent + 1 \notin open[v]
      BY <1>0, <2>1 DEF IdsInv
    <3>5. (\A u, v \in Writer : u # v => open[u] \cap open[v] = {})'
      BY <1>0, <2>2, <3>4 DEF IdsInv
    <3> QED BY <3>2, <3>3, <3>5 DEF IdsInv
  <2>5. Committed' = Committed
    BY <1>0, <2>1 DEF Committed
  <2> QED BY <1>0, <2>1, <2>4, <2>5 DEF CursorInv, SkippedWasOvertaken, Skipped, Overtaken
<1>2. CASE Commit(w)
  <2>1. /\ \A e \in Event : at[e] # 0 => at'[e] = at[e] /\ at[e] < run'.n
        /\ \A e \in Event : at[e] = 0 /\ at'[e] # 0 => at'[e] = run'.n
    BY <1>0, <1>2, CommitPublishes
  <2>2. /\ run.n \in Nat /\ run'.n = run.n + 1 /\ lastEvent' = lastEvent
        /\ at \in [Event -> Nat] /\ open \in [Writer -> SUBSET Event]
        /\ cursor \in Nat /\ \A e \in Event : e \in Nat
    BY <1>0, <1>2 DEF Commit, PageTypeOK, Run, Event
  <2>3. /\ \A e \in Event : at'[e] = IF e \in open[w] THEN run.n + 1 ELSE at[e]
        /\ \A v \in Writer : open'[v] = IF v = w THEN {} ELSE open[v]
    BY <1>2, <2>2 DEF Commit
  <2>4. IdsInv'
    <3>1. (\A e \in Event : at[e] <= run.n /\ (at[e] # 0 => e <= lastEvent))'
      BY <1>0, <2>2, <2>3 DEF IdsInv
    <3>2. (\A v \in Writer : \A e \in open[v] : at[e] = 0 /\ e <= lastEvent)'
      BY <1>0, <2>2, <2>3 DEF IdsInv
    <3>3. (\A u, v \in Writer : u # v => open[u] \cap open[v] = {})'
      BY <1>0, <2>3 DEF IdsInv
    <3> QED BY <3>1, <3>2, <3>3 DEF IdsInv
  <2>5. Committed \subseteq Committed'
    BY <1>0, <2>1 DEF Committed
  <2>6. CursorInv'
    BY <1>0, <2>5 DEF CursorInv
  <2>7. ASSUME NEW e \in Skipped' PROVE Overtaken(e)'
    <3>1. e \in Event /\ at'[e] # 0 /\ e <= cursor /\ e \notin heard
      BY <1>0, <2>7 DEF Skipped, Committed
    <3>2. CASE at[e] # 0
      <4>1. e \in Skipped
        BY <3>1, <3>2 DEF Skipped, Committed
      <4>2. PICK f \in Committed : f > e /\ at[f] < at[e]
        BY <1>0, <4>1 DEF SkippedWasOvertaken, Overtaken
      <4>3. at'[f] = at[f] /\ at'[e] = at[e] /\ f \in Committed'
        BY <2>1, <2>5, <3>1, <3>2, <4>2 DEF Committed
      <4> QED BY <4>2, <4>3 DEF Overtaken
    <3>3. CASE at[e] = 0
      <4>1. at'[e] = run'.n
        BY <2>1, <3>1, <3>3
      <4>2. cursor \in Committed
        BY <1>0, <2>2, <3>1 DEF CursorInv, Event
      <4>3. cursor # e /\ cursor \in Event /\ at[cursor] # 0
        BY <3>3, <4>2 DEF Committed
      <4>4. cursor > e /\ at'[cursor] < at'[e] /\ cursor \in Committed'
        BY <2>1, <2>2, <2>5, <3>1, <4>1, <4>2, <4>3
      <4> QED BY <4>4 DEF Overtaken
    <3> QED BY <2>2, <3>2, <3>3
  <2>8. SkippedWasOvertaken'
    BY <2>7 DEF SkippedWasOvertaken
  <2> QED BY <2>4, <2>6, <2>8
<1>3. CASE Rollback(w)
  <2>1. /\ at' = at /\ run' = run /\ lastEvent' = lastEvent
        /\ \A v \in Writer : open'[v] = IF v = w THEN {} ELSE open[v]
    BY <1>0, <1>3 DEF Rollback, PageTypeOK
  <2>2. IdsInv'
    BY <1>0, <2>1 DEF IdsInv
  <2>3. Committed' = Committed
    BY <1>0, <2>1 DEF Committed
  <2> QED BY <1>0, <2>1, <2>2, <2>3 DEF CursorInv, SkippedWasOvertaken, Skipped, Overtaken
<1> QED BY <1>1, <1>2, <1>3

LEMMA PollKeepsStream ==
  ASSUME StreamInv, Poll
  PROVE  (IdsInv /\ CursorInv /\ SkippedWasOvertaken)'
<1>0. /\ PageTypeOK /\ IdsInv /\ CursorInv /\ SkippedWasOvertaken
      /\ run' = run /\ at' = at /\ open' = open /\ lastEvent' = lastEvent
      /\ Event' = Event /\ cursor \in Nat /\ \A e \in Event : e \in Nat
  BY DEF StreamInv, Poll, rowVars, Event, PageTypeOK
<1>1. Committed' = Committed
  BY <1>0 DEF Committed
<1>3. cursor' \in Unsent
  BY DEF Poll
<1>4. IdsInv'
  BY <1>0 DEF IdsInv
<1>5. CursorInv'
  BY <1>1, <1>3 DEF CursorInv, Poll, Unsent
<1>6. Skipped' \subseteq Skipped
  <2> SUFFICES ASSUME NEW e \in Skipped' PROVE e \in Skipped
    OBVIOUS
  <2>1. e \in Committed /\ e \notin heard /\ e \notin Unsent
    BY <1>1 DEF Skipped, Poll
  <2>2. e <= cursor
    BY <1>0, <2>1 DEF Unsent, Committed
  <2> QED BY <2>1, <2>2 DEF Skipped
<1>7. SkippedWasOvertaken'
  BY <1>0, <1>1, <1>6 DEF SkippedWasOvertaken, Overtaken
<1> QED BY <1>4, <1>5, <1>7

LEMMA PageStepKeepsStream ==
  ASSUME StreamInv,
         Hear \/ Answer \/ ShowSome \/ RequestFails \/ Break \/ RefreshAfterError
  PROVE  (IdsInv /\ CursorInv /\ SkippedWasOvertaken)'
<1>0. /\ PageTypeOK /\ IdsInv /\ CursorInv /\ SkippedWasOvertaken
      /\ run' = run /\ at' = at /\ open' = open /\ lastEvent' = lastEvent
      /\ Event' = Event /\ \A e \in Event : e \in Nat /\ e > 0
  BY DEF StreamInv, Hear, Answer, ShowSome, Show, RequestFails, Break,
         RefreshAfterError, rowVars, Event
<1>1. Committed' = Committed /\ Committed \subseteq Event
  BY <1>0 DEF Committed
<1>2. IdsInv'
  BY <1>0 DEF IdsInv
<1>3. \/ cursor' = cursor /\ heard' = heard
      \/ cursor' = 0 /\ heard' = {}
  BY DEF Hear, Answer, ShowSome, Show, Reconnect, RequestFails, Break,
         RefreshAfterError, streamVars
<1>4. CursorInv'
  BY <1>0, <1>1, <1>3 DEF CursorInv
<1>5. Skipped' \subseteq Skipped
  BY <1>0, <1>1, <1>3 DEF Skipped
<1>6. SkippedWasOvertaken'
  BY <1>0, <1>1, <1>5 DEF SkippedWasOvertaken, Overtaken
<1> QED BY <1>2, <1>4, <1>6

LEMMA StreamInductive == StreamInv /\ [PageNext]_runPageVars => StreamInv'
<1> SUFFICES ASSUME StreamInv, [PageNext]_runPageVars PROVE StreamInv'
  OBVIOUS
<1>1. PageTypeOK'
  BY PageTypesInductive DEF StreamInv
<1>2. CASE PageNext
  BY <1>1, <1>2, RowStepKeepsStream, PollKeepsStream, PageStepKeepsStream
     DEF PageNext, StreamInv
<1>3. CASE UNCHANGED runPageVars
  BY <1>1, <1>3 DEF runPageVars, rowVars, streamVars, pageVars, StreamInv, IdsInv,
     CursorInv, SkippedWasOvertaken, Skipped, Overtaken, Committed, Event
<1> QED BY <1>2, <1>3

LEMMA StreamStarts == PageInit => StreamInv
<1> SUFFICES ASSUME PageInit PROVE StreamInv
  OBVIOUS
<1>1. PageTypeOK
  BY PageInitTypes
<1>2. IdsInv
  BY DEF PageInit, IdsInv
<1>3. CursorInv /\ Skipped = {}
  BY DEF PageInit, CursorInv, Skipped, Committed
<1> QED BY <1>1, <1>2, <1>3 DEF StreamInv, SkippedWasOvertaken

(* The ids are taken before the commits, and still a connection passes only *)
(* over events that were committed after one with a higher id.              *)
THEOREM SkippedAreOvertaken == PageSpec => []SkippedWasOvertaken
<1>1. StreamInv => SkippedWasOvertaken
  BY DEF StreamInv
<1> QED BY <1>1, StreamStarts, StreamInductive, PTL DEF PageSpec
=============================================================================
