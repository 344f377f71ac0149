----------------------------- MODULE LogStream -----------------------------
(***************************************************************************)
(* The log of a deployment on its way to the people who watch it:          *)
(* internal/logstream, the pipelines and cancels that write to a topic and *)
(* close it, and the handlers that stream it (server/sse.go, and in the    *)
(* same way githook, which watches the row it has just inserted).          *)
(*                                                                         *)
(* Lines are numbered, by deployment, in the order a topic took them.      *)
(* Publish, Subscribe and the marking of a topic as closed each happen     *)
(* under the topic's mutex; the list of closed topics has another, so a    *)
(* close is two steps.                                                     *)
(***************************************************************************)
EXTENDS Naturals, Sequences, FiniteSets

CONSTANTS
  Dep,         \* the deployments
  Viewer,      \* the requests that stream a log
  MaxSaid,     \* bound, by deployment: lines its pipeline logs
  maxLines,    \* past twice this many lines, a topic keeps this many
  subBuffer,   \* lines a subscriber's channel holds
  keepClosed   \* closed topics kept

ASSUME LimitAssumption ==
  maxLines \in Nat \ {0} /\ subBuffer \in Nat \ {0} /\ keepClosed \in Nat /\ MaxSaid \in [Dep -> Nat]

VARIABLES
  status,   \* by deployment: its row, as far as a viewer tells
  pipe,     \* by deployment, its pipeline's place
  stop,     \* by deployment, the place of Worker.Cancel
  topics,   \* Broker.topics
  closed,   \* Broker.closed: the closed topics, oldest first
  view,     \* by viewer: its place, what it watches, what it read of the row
  channel,  \* by viewer, the lines in its channel, and whether that is closed
  \* History, for the properties alone.
  said,     \* by deployment, the lines a topic of its took
  evicted,  \* the deployments whose topic was dropped once
  got,      \* by viewer, the lines it was sent
  lost,     \* the viewers whose channel was once full
  late      \* the viewers that subscribed when nobody was left to close the topic

broker == <<topics, closed, said, evicted>>
logVars == <<status, pipe, stop, broker, view, channel, got, lost, late>>

NoTopic == [lines |-> <<>>, dropped |-> 0, closed |-> FALSE, subs |-> {}, held |-> FALSE]
NewTopic == [NoTopic EXCEPT !.held = TRUE]
topicFor(d) == IF topics[d].held THEN topics[d] ELSE NewTopic

IsTerminal(s) == s \in {"done", "deleted"}
Idle == [place |-> "idle", dep |-> 0, terminal |-> FALSE]
NoChannel == [lines |-> <<>>, closed |-> TRUE]

LogInit ==
  /\ status = [d \in Dep |-> "queued"]
  /\ pipe = [d \in Dep |-> "none"] /\ stop = [d \in Dep |-> "no"]
  /\ topics = [d \in Dep |-> NoTopic] /\ closed = <<>>
  /\ view = [v \in Viewer |-> Idle]
  /\ channel = [v \in Viewer |-> NoChannel]
  /\ said = [d \in Dep |-> 0] /\ evicted = {}
  /\ got = [v \in Viewer |-> <<>>] /\ lost = {} /\ late = {}

-----------------------------------------------------------------------------
(* The broker. *)

\* Mutant of Trim: what is cut off is not counted.
TrimUncounted(t) ==
  IF Len(t.lines) <= 2 * maxLines THEN t
  ELSE [t EXCEPT !.lines = SubSeq(@, Len(@) - maxLines + 1, Len(@))]

Trim(t) ==
  LET cut == Len(t.lines) - maxLines
  IN IF Len(t.lines) <= 2 * maxLines THEN t
     ELSE [t EXCEPT !.lines = SubSeq(@, cut + 1, Len(@)), !.dropped = @ + cut]

\* A closed topic takes nothing; a subscriber whose channel is full misses the line.
Publish(d) ==
  LET t == topicFor(d)
      line == said[d] + 1
      behind == {v \in t.subs : Len(channel[v].lines) = subBuffer}
  IN IF t.closed THEN UNCHANGED <<topics, said, channel, lost>>
     ELSE /\ topics' = [topics EXCEPT ![d] = Trim([t EXCEPT !.lines = Append(@, line)])]
          /\ said' = [said EXCEPT ![d] = line]
          /\ channel' = [v \in Viewer |->
               IF v \in t.subs \ behind THEN [channel[v] EXCEPT !.lines = Append(@, line)]
               ELSE channel[v]]
          /\ lost' = lost \cup behind

\* Mutant of Close: the subscribers are let go of, their channels stay open.
CloseQuietly(d) ==
  /\ topics' = [topics EXCEPT ![d] = [topicFor(d) EXCEPT !.closed = TRUE, !.subs = {}]]
  /\ channel' = channel

\* Broker.Close, first half; the second is due only from whoever closed the topic.
Close(d) ==
  LET t == topicFor(d)
  IN /\ topics' = [topics EXCEPT ![d] = [t EXCEPT !.closed = TRUE, !.subs = {}]]
     /\ channel' = [v \in Viewer |->
          IF v \in t.subs THEN [channel[v] EXCEPT !.closed = TRUE] ELSE channel[v]]

\* Broker.Close, second half.
Evict(d) ==
  LET all == Append(closed, d)
      excess == IF Len(all) > keepClosed THEN Len(all) - keepClosed ELSE 0
      gone == {all[i] : i \in 1..excess}
  IN /\ closed' = SubSeq(all, excess + 1, Len(all))
     /\ topics' = [e \in Dep |-> IF e \in gone THEN NoTopic ELSE topics[e]]
     /\ evicted' = evicted \cup gone

-----------------------------------------------------------------------------
(* The writers. *)

Unwatched == UNCHANGED <<view, got, late>>

\* The worker claims the row and starts a pipeline.
Claim(d) ==
  /\ status[d] = "queued"
  /\ status' = [status EXCEPT ![d] = "building"]
  /\ pipe' = [pipe EXCEPT ![d] = "build"]
  /\ UNCHANGED <<stop, broker, channel, lost>> /\ Unwatched

Log(d) ==
  /\ pipe[d] \in {"build", "deploy", "end"}
  /\ said[d] < MaxSaid[d]
  /\ Publish(d)
  /\ UNCHANGED <<status, pipe, stop, closed, evicted>> /\ Unwatched

\* A pipeline's guarded status write, and where it goes from there.
SetStatus(d, from, to, place) ==
  /\ status' = IF status[d] = from THEN [status EXCEPT ![d] = to] ELSE status
  /\ pipe' = [pipe EXCEPT ![d] = place]
  /\ UNCHANGED <<stop, broker, channel, lost>> /\ Unwatched

Advance(d) ==
  /\ pipe[d] = "build"
  /\ SetStatus(d, "building", "deploying", IF status[d] = "building" THEN "deploy" ELSE "end")

\* The build failed, or the cutover went one way or the other.
Settle(d) ==
  /\ pipe[d] \in {"build", "deploy"}
  /\ SetStatus(d, IF pipe[d] = "build" THEN "building" ELSE "deploying", "done", "end")

CloseAtEnd(d) ==
  /\ pipe[d] = "end"
  /\ Close(d)
  /\ pipe' = [pipe EXCEPT ![d] = IF topicFor(d).closed THEN "none" ELSE "evict"]
  /\ UNCHANGED <<status, stop, closed, said, evicted, lost>> /\ Unwatched

EvictAtEnd(d) ==
  /\ pipe[d] = "evict"
  /\ Evict(d)
  /\ pipe' = [pipe EXCEPT ![d] = "none"]
  /\ UNCHANGED <<status, stop, said, channel, lost>> /\ Unwatched

\* Worker.Cancel: the row, a line, the topic; the pipeline may go on for a while.
Cancel(d) ==
  /\ status[d] \in {"queued", "building"}
  /\ status' = [status EXCEPT ![d] = "done"]
  /\ stop' = [stop EXCEPT ![d] = "line"]
  /\ UNCHANGED <<pipe, broker, channel, lost>> /\ Unwatched

CancelLine(d) ==
  /\ stop[d] = "line"
  /\ Publish(d)
  /\ stop' = [stop EXCEPT ![d] = "close"]
  /\ UNCHANGED <<status, pipe, closed, evicted>> /\ Unwatched

CancelClose(d) ==
  /\ stop[d] = "close"
  /\ Close(d)
  /\ stop' = [stop EXCEPT ![d] = IF topicFor(d).closed THEN "no" ELSE "evict"]
  /\ UNCHANGED <<status, pipe, closed, said, evicted, lost>> /\ Unwatched

CancelEvict(d) ==
  /\ stop[d] = "evict"
  /\ Evict(d)
  /\ stop' = [stop EXCEPT ![d] = "no"]
  /\ UNCHANGED <<status, pipe, said, channel, lost>> /\ Unwatched

\* The app is deleted and the row with it: nobody tells the broker.
Delete(d) ==
  /\ status[d] # "deleted"
  /\ status' = [status EXCEPT ![d] = "deleted"]
  /\ UNCHANGED <<pipe, stop, broker, channel, lost>> /\ Unwatched

-----------------------------------------------------------------------------
(* The viewers. *)

\* handleLogsSSE reads the row first.
Look(v, d) ==
  /\ view[v].place \in {"idle", "told"} /\ status[d] # "deleted"
  /\ view' = [view EXCEPT ![v] =
                [place |-> "look", dep |-> d, terminal |-> IsTerminal(status[d])]]
  /\ UNCHANGED <<status, pipe, stop, broker, channel, got, lost, late>>

Goto(v, place) == view' = [view EXCEPT ![v].place = place]

\* The request is over: what the properties remember of it is dropped.
Over(v) ==
  /\ got' = [got EXCEPT ![v] = <<>>]
  /\ lost' = lost \ {v} /\ late' = late \ {v}

\* SubscribeExisting: a finished deployment whose log is gone is done at once.
NothingHeld(v) ==
  /\ view[v].place = "look" /\ view[v].terminal /\ ~topics[view[v].dep].held
  /\ Goto(v, "told")
  /\ UNCHANGED <<status, pipe, stop, broker, channel, got, lost, late>>

\* The topic of d is open, or would be made anew, and nobody is left to close it.
Abandoned(d) ==
  /\ IsTerminal(status[d]) /\ ~topicFor(d).closed
  /\ pipe[d] \in {"none", "evict"} /\ stop[d] \in {"no", "evict"}

\* Mutant of Subscribe: the history is read and the channel registered later on.
SubscribeInTwo(v) ==
  LET d == view[v].dep
      t == topicFor(d)
  IN /\ \/ view[v].place = "look" /\ Goto(v, "register") /\ got' = [got EXCEPT ![v] = t.lines]
        \/ view[v].place = "register" /\ Goto(v, "stream") /\ got' = got
     /\ topics' = IF view[v].place = "look" THEN [topics EXCEPT ![d] = t]
                  ELSE [topics EXCEPT ![d] = [t EXCEPT !.subs = IF t.closed THEN @ ELSE @ \cup {v}]]
     /\ channel' = [channel EXCEPT ![v].closed = t.closed /\ view[v].place = "register"]
     /\ UNCHANGED <<status, pipe, stop, closed, said, evicted, lost, late>>

\* History and registration at once, and the history sent before anything else.
Subscribe(v) ==
  LET d == view[v].dep
      t == topicFor(d)
  IN /\ view[v].place = "look"
     /\ view[v].terminal => topics[d].held
     /\ topics' = [topics EXCEPT ![d] = [t EXCEPT !.subs = IF t.closed THEN @ ELSE @ \cup {v}]]
     /\ channel' = [channel EXCEPT ![v].closed = t.closed]
     /\ got' = [got EXCEPT ![v] = t.lines]
     /\ late' = IF Abandoned(d) THEN late \cup {v} ELSE late
     /\ Goto(v, "stream")
     /\ UNCHANGED <<status, pipe, stop, closed, said, evicted, lost>>

Receive(v) ==
  /\ view[v].place = "stream" /\ channel[v].lines # <<>>
  /\ got' = [got EXCEPT ![v] = Append(@, Head(channel[v].lines))]
  /\ channel' = [channel EXCEPT ![v].lines = Tail(@)]
  /\ UNCHANGED <<status, pipe, stop, broker, view, lost, late>>

Done(v) ==
  /\ view[v].place = "stream" /\ channel[v] = NoChannel
  /\ Goto(v, "told")
  /\ Over(v)
  /\ UNCHANGED <<status, pipe, stop, broker, channel>>

\* Mutant of Unsubscribe: the channel is closed and stays registered.
CloseChannel(v) ==
  /\ channel' = [channel EXCEPT ![v] = NoChannel]
  /\ topics' = topics

Unsubscribe(v) ==
  /\ channel' = [channel EXCEPT ![v] = NoChannel]
  /\ topics' = [d \in Dep |-> [topics[d] EXCEPT !.subs = @ \ {v}]]

\* The client goes away, or the server shuts down.
Leave(v) ==
  /\ view[v].place = "stream"
  /\ Unsubscribe(v)
  /\ view' = [view EXCEPT ![v] = Idle]
  /\ Over(v)
  /\ UNCHANGED <<status, pipe, stop, closed, said, evicted>>

-----------------------------------------------------------------------------

Pipeline(d) == Advance(d) \/ Settle(d) \/ CloseAtEnd(d) \/ EvictAtEnd(d)
Canceller(d) == CancelLine(d) \/ CancelClose(d) \/ CancelEvict(d)
Stream(v) == NothingHeld(v) \/ Subscribe(v) \/ Receive(v) \/ Done(v)

LogNext ==
  \/ \E d \in Dep : Claim(d) \/ Log(d) \/ Pipeline(d) \/ Cancel(d) \/ Canceller(d) \/ Delete(d)
  \/ \E v \in Viewer : Stream(v) \/ Leave(v) \/ \E d \in Dep : Look(v, d)

LogSpec == LogInit /\ [][LogNext]_logVars

\* Queued rows get claimed (Deploy's QueueDrains), goroutines run, clients that stay
\* connected read.
LogFairSpec ==
  /\ LogSpec
  /\ \A d \in Dep : WF_logVars(Claim(d)) /\ WF_logVars(Pipeline(d)) /\ WF_logVars(Canceller(d))
  /\ \A v \in Viewer : WF_logVars(Stream(v))

-----------------------------------------------------------------------------

LogTypeOK ==
  /\ status \in [Dep -> {"queued", "building", "deploying", "done", "deleted"}]
  /\ pipe \in [Dep -> {"none", "build", "deploy", "end", "evict"}]
  /\ stop \in [Dep -> {"no", "line", "close", "evict"}]
  /\ \A d \in Dep :
       /\ topics[d].dropped \in Nat /\ topics[d].subs \subseteq Viewer
       /\ topics[d].closed \in BOOLEAN /\ topics[d].held \in BOOLEAN
       /\ \A i \in DOMAIN topics[d].lines : topics[d].lines[i] \in 1..said[d]
  /\ \A v \in Viewer : view[v].place \in {"idle", "look", "stream", "told"}
  /\ Len(closed) <= keepClosed /\ evicted \subseteq Dep

\* "No line is missed or duplicated across the seam" between history and channel:
\* what a viewer was sent and what waits in its channel are consecutive lines, up to
\* the topic's last one while that is open, unless the viewer fell behind; and even
\* then they are in order.
NoSeam ==
  \A v \in Viewer :
    LET all == got[v] \o channel[v].lines
        t == topics[view[v].dep]
    IN view[v].place = "stream" =>
       /\ \A i \in 1..(Len(all) - 1) :
            IF v \in lost THEN all[i] < all[i + 1] ELSE all[i] + 1 = all[i + 1]
       /\ v \in t.subs \ lost /\ all # <<>> => all[Len(all)] = said[view[v].dep]

\* A registered channel is open, so that neither a line nor a close ever meets a
\* closed one, which would bring the process down.
SubscribersOpen ==
  \A d \in Dep : \A v \in topics[d].subs :
    ~channel[v].closed /\ view[v].place = "stream" /\ view[v].dep = d

\* The history shown says how many lines are missing at its front, no more and no
\* less, unless the topic was dropped and begun again.
HistoryHonest ==
  \A d \in Dep \ evicted :
    LET t == topics[d]
    IN t.held => t.lines = [i \in 1..(said[d] - t.dropped) |-> t.dropped + i]

\* Finished logs do not pile up: those on the list, and those just being closed.
FewClosed ==
  Cardinality({d \in Dep : topics[d].held /\ topics[d].closed
                            /\ pipe[d] # "evict" /\ stop[d] # "evict"}) <= keepClosed

\* When the stream says done, the row has reached its final status: the page that
\* reloads on it, and the git client that takes its exit code from it, rely on that.
DoneMeansSettled == \A v \in Viewer : view[v].place = "told" => IsTerminal(status[view[v].dep])

\* Every viewer that stays is told that the deployment finished, unless the row was
\* deleted, or its topic was made anew after the deployment was over: by a viewer
\* that had read the row before and subscribed after the topic was dropped.
ViewerTold ==
  \A v \in Viewer :
    view[v].place = "stream" /\ v \notin late
      ~> view[v].place # "stream" \/ status[view[v].dep] = "deleted"

\* The broker's tables are in step with the rows and the viewers, under its two
\* mutexes and between them (logstream/broker.go).
LogInv == LogTypeOK /\ SubscribersOpen /\ FewClosed /\ DoneMeansSettled

=============================================================================
