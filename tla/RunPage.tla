------------------------------- MODULE RunPage -------------------------------
(***************************************************************************)
(* A run page that is open in a browser: the events of the run in           *)
(* flow_event (events.py), the stream that run_events sends of them         *)
(* (group_api.py) and RunPage.tsx, which loads the run again at every event. *)
(*                                                                         *)
(* A transaction of a worker or of the API takes event ids from a sequence  *)
(* when it flushes, and its events and its change of the run become visible *)
(* when it commits.  Several are open at a time.  An event stands for those *)
(* whose group is the run's; the stream filters by it.                     *)
(*                                                                         *)
(* The page opens a source when it knows the run and the run is not over,   *)
(* and another each time the status it shows changes.  The address has no   *)
(* position, so a new connection starts at 0 and hears all events again.    *)
(***************************************************************************)
EXTENDS Integers, Sequences, FiniteSets, SequencesExt

CONSTANTS
  Writer,          \* transactions open at a time
  MaxEvents,       \* bound on event ids
  MaxFaults        \* bound on broken connections and failed requests

ASSUME PageAssumption == MaxEvents \in Nat /\ MaxFaults \in Nat

VARIABLES
  run,             \* the committed run: its status and how many commits it had
  at,              \* for each event the commit that published it, 0 before
  open,            \* the events each transaction has inserted
  lastEvent,       \* the last id taken from the sequence
  page,            \* the run the page shows
  source,          \* its event source
  cursor,          \* the position of its connection, kept by the server
  heard,           \* the events sent on this connection
  inbox,           \* how many of them the page has not handled
  asked,           \* requests for the run that no server has read yet
  answers,         \* answers on their way
  timers,          \* refreshes due after an error
  faults,          \* broken connections and failed requests so far
  newest,          \* history: the newest state of the run the page has shown
  lost             \* history: a request has failed and none was read since

rowVars == <<run, at, open, lastEvent>>
streamVars == <<cursor, heard>>
pageVars == <<page, source, inbox, asked, answers, timers, faults, newest, lost>>
runPageVars == <<rowVars, streamVars, pageVars>>

Event == 1..MaxEvents
Live == {"RUNNING", "WAITING"}
Terminal == {"SUCCESS", "CANCELLED"}
Run == [n : Nat, status : Live \cup Terminal]
Nothing == [n |-> 0 - 1, status |-> "none"]

PageInit ==
  /\ run = [n |-> 0, status |-> "RUNNING"]
  /\ at = [e \in Event |-> 0]
  /\ open = [w \in Writer |-> {}]
  /\ lastEvent = 0
  /\ page = Nothing
  /\ source = "none"
  /\ cursor = 0
  /\ heard = {}
  /\ inbox = 0
  /\ asked = 1
  /\ answers = <<>>
  /\ timers = 0
  /\ faults = 0
  /\ newest = 0 - 1
  /\ lost = FALSE

-----------------------------------------------------------------------------
(* Transactions. *)

(* emit_event and the flush that gives the event its id.                   *)
Insert(w) ==
  /\ lastEvent < MaxEvents
  /\ lastEvent' = lastEvent + 1
  /\ open' = [open EXCEPT ![w] = @ \cup {lastEvent + 1}]
  /\ UNCHANGED <<run, at, streamVars, pageVars>>

(* A cancelled run is written on by what was under way; one that has        *)
(* succeeded can only be cancelled.                                        *)
Commit(w) ==
  /\ open[w] # {}
  /\ \E st \in Live \cup Terminal :
       /\ run.status = "SUCCESS" => st \in Terminal
       /\ run' = [n |-> run.n + 1, status |-> st]
  /\ at' = [e \in Event |-> IF e \in open[w] THEN run.n + 1 ELSE at[e]]
  /\ open' = [open EXCEPT ![w] = {}]
  /\ UNCHANGED <<lastEvent, streamVars, pageVars>>

(* An exception or a crash; the ids are gone. *)
Rollback(w) ==
  /\ open[w] # {}
  /\ open' = [open EXCEPT ![w] = {}]
  /\ UNCHANGED <<run, at, lastEvent, streamVars, pageVars>>

-----------------------------------------------------------------------------
(* The stream. *)

Committed == {e \in Event : at[e] # 0}
Unsent == {e \in Committed : e > cursor}

(* wrong variant: moves to the last id given, committed or not *)
PollToLastId ==
  /\ source = "open"
  /\ Unsent # {}
  /\ cursor' = lastEvent
  /\ heard' = heard \cup Unsent
  /\ inbox' = inbox + Cardinality(Unsent)
  /\ UNCHANGED <<rowVars, page, source, asked, answers, timers, faults, newest, lost>>

(* wrong variant: the position is the id expected next *)
PollPastLast ==
  /\ source = "open"
  /\ \E last \in Unsent :
       /\ \A e \in Unsent : e <= last
       /\ cursor' = last + 1
  /\ heard' = heard \cup Unsent
  /\ inbox' = inbox + Cardinality(Unsent)
  /\ UNCHANGED <<rowVars, page, source, asked, answers, timers, faults, newest, lost>>

Poll ==
  /\ source = "open"
  /\ \E last \in Unsent :
       /\ \A e \in Unsent : e <= last
       /\ cursor' = last
  /\ heard' = heard \cup Unsent
  /\ inbox' = inbox + Cardinality(Unsent)
  /\ UNCHANGED <<rowVars, page, source, asked, answers, timers, faults, newest, lost>>

-----------------------------------------------------------------------------
(* The page. *)

(* wrong variant: does not ask again while an answer is due *)
HearUnlessBusy ==
  /\ inbox > 0
  /\ inbox' = inbox - 1
  /\ asked' = IF asked = 0 /\ answers = <<>> THEN 1 ELSE asked
  /\ UNCHANGED <<rowVars, streamVars, page, source, answers, timers, faults, newest, lost>>

(* The listener of the source calls refresh. *)
Hear ==
  /\ inbox > 0
  /\ inbox' = inbox - 1
  /\ asked' = asked + 1
  /\ UNCHANGED <<rowVars, streamVars, page, source, answers, timers, faults, newest, lost>>

(* get_run reads the run. *)
Answer ==
  /\ asked > 0
  /\ asked' = asked - 1
  /\ answers' = Append(answers, run)
  /\ lost' = FALSE
  /\ UNCHANGED <<rowVars, streamVars, page, source, inbox, timers, faults, newest>>

(* The effect of the page, run again when the status it shows has changed:  *)
(* the old source is closed, and none is opened when the run is over.       *)
Reconnect(status) ==
  /\ source' = IF status \in Terminal THEN "closed" ELSE "open"
  /\ cursor' = 0 /\ heard' = {} /\ inbox' = 0

(* Answers arrive in any order, and the last to arrive is shown.            *)
Show(i) ==
  /\ page' = answers[i]
  /\ answers' = RemoveAt(answers, i)
  /\ newest' = IF answers[i].n > newest THEN answers[i].n ELSE newest
  /\ IF answers[i].status = page.status
       THEN UNCHANGED <<source, inbox, streamVars>>
       ELSE Reconnect(answers[i].status)
  /\ UNCHANGED <<rowVars, asked, timers, faults, lost>>

(* The page shows the error and asks no more. *)
RequestFails ==
  /\ asked > 0 /\ faults < MaxFaults
  /\ asked' = asked - 1
  /\ faults' = faults + 1
  /\ lost' = TRUE
  /\ UNCHANGED <<rowVars, streamVars, page, source, inbox, answers, timers, newest>>

(* onerror closes the source for good and refreshes once, later.            *)
Break ==
  /\ source = "open" /\ faults < MaxFaults
  /\ faults' = faults + 1
  /\ source' = "broken"
  /\ inbox' = 0
  /\ timers' = timers + 1
  /\ UNCHANGED <<rowVars, streamVars, page, asked, answers, newest, lost>>

RefreshAfterError ==
  /\ timers > 0
  /\ timers' = timers - 1
  /\ asked' = asked + 1
  /\ UNCHANGED <<rowVars, streamVars, page, source, inbox, answers, faults, newest, lost>>

ShowSome == \E i \in DOMAIN answers : Show(i)

PageNext ==
  \/ \E w \in Writer : Insert(w) \/ Commit(w) \/ Rollback(w)
  \/ Poll \/ Hear \/ Answer \/ ShowSome
  \/ RequestFails \/ Break \/ RefreshAfterError

PageSpec == PageInit /\ [][PageNext]_runPageVars

(* The server polls once a second, requests are answered, and no           *)
(* transaction stays open.  Nothing need fail, and nothing need happen to   *)
(* the run.                                                                *)
FairPageSpec ==
  /\ PageSpec
  /\ \A w \in Writer : WF_runPageVars(Commit(w) \/ Rollback(w))
  /\ WF_runPageVars(Poll) /\ WF_runPageVars(Hear) /\ WF_runPageVars(Answer)
  /\ WF_runPageVars(ShowSome) /\ WF_runPageVars(RefreshAfterError)

-----------------------------------------------------------------------------
(* Properties. *)

(* Type invariant. *)
PageTypeOK ==
  /\ run \in Run
  /\ at \in [Event -> Nat]
  /\ open \in [Writer -> SUBSET Event]
  /\ lastEvent \in 0..MaxEvents
  /\ page \in Run \cup {Nothing}
  /\ source \in {"none", "open", "broken", "closed"}
  /\ cursor \in 0..MaxEvents
  /\ heard \subseteq Event
  /\ inbox \in Nat /\ asked \in Nat /\ timers \in Nat /\ faults \in Nat
  /\ answers \in Seq(Run)
  /\ newest \in Nat \cup {0 - 1}
  /\ lost \in BOOLEAN

Overtaken(e) == \E f \in Committed : f > e /\ at[f] < at[e]

Skipped == {e \in Committed : e <= cursor} \ heard

(* A connection never hears of an event it has passed without sending it.   *)
(* That befalls only events that were committed after one with a higher id: *)
(* whoever takes an id and commits before the next id is taken is heard.    *)
SkippedWasOvertaken == \A e \in Skipped : Overtaken(e)

(* The page comes to show the run as it is and stays with it, whatever      *)
(* connections were replaced on the way, or one of these is the reason:     *)
(* it has shown an end of the run and closed its source, the source broke,  *)
(* the last request failed, an older answer came after a newer one, or the  *)
(* connection has skipped an event.                                        *)
PageFollowsRun ==
  <>[](\/ page = run
       \/ page.status \in Terminal
       \/ source = "broken" \/ lost
       \/ page.n < newest
       \/ Skipped # {})
=============================================================================
