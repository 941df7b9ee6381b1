------------------------------- MODULE Streams -------------------------------
(***************************************************************************)
(* What the daemon pushes and what the panel shows: publish, subscribe and *)
(* tick (internal/daemon/{ops,daemon}.go), a session's queue and its calls *)
(* (session.go), and the widget's mirror of the streams (Service.qml).     *)
(*                                                                         *)
(* Of the streams, `status' stands for every one that is pushed when it    *)
(* changes; `groups' is pushed so too, but the panel forgets it when the   *)
(* status it gets is of another run of the proxy or another subscription;  *)
(* `connections' is broadcast by the ticker, without pubMu.                *)
(***************************************************************************)
EXTENDS Naturals, Sequences, FiniteSets

CONSTANTS
    Sessions,  \* the sessions the daemon may serve at once
    GroupSets, \* what the groups of a running core may be
    NoGroups,  \* those of a core that does not run
    Queue,     \* the lines under way to a client that cut it off, 256 and a socket's
    MaxCalls,  \* bound: the panel's calls on the streams in flight
    MaxOps,    \* bound: the calls that change what runs
    Patient,   \* whether the panel is toggled only once its last call is answered
    None

ASSUME NoneAssumption == None \notin Sessions /\ NoGroups \notin GroupSets
ASSUME BoundAssumption == Queue \in Nat /\ MaxCalls \in Nat /\ MaxOps \in Nat

Subs == {1, 2}
PanelStreams == {"groups", "connections"}
AllStreams == {"status"} \cup PanelStreams
\* Of a status, what tells one runtime from another.
Statuses == [sub : Subs \cup {0}, started : 0..MaxOps]
Groups == GroupSets \cup {NoGroups}
ASSUME NullAssumption == None \notin Statuses \cup Groups

VARIABLES
    status, groups, \* what the daemon and its core are, and
    ops,       \* how many calls changed it; a start's time is its number
    op,        \* the call that holds opMu
    pubMu,     \* who holds pubMu, and the streams it has still to publish
    lastPushed, lastStatus,
    tick,      \* the ticker
    sess,      \* the sessions
    line,      \* per session, what is under way to its client
    widget,    \* the panel
    \* History, read by properties only:
    moved      \* the core changed its groups since they were last published

core == <<status, groups, ops>>
pushed == <<lastPushed, lastStatus>>
vars == <<core, op, pubMu, pushed, tick, sess, line, widget, moved>>

NoOp == [kind |-> "none", at |-> "idle"]
NoTick == [at |-> "idle", run |-> 0]
Unlocked == [todo |-> <<>>, sess |-> None, call |-> 0]
NoSession == [at |-> "free", streams |-> {}, calls |-> {}]
NothingPushed == [status |-> None, groups |-> None]
NoStatus == [sub |-> 0, started |-> 0]

(***************************************************************************)
(* Sending to sessions.  A client that lets its queue fill is cut off.     *)
(***************************************************************************)
Open(s) == sess[s].at = "open"
Subscribers(stream) == {s \in Sessions : sess[s].at # "free" /\ stream \in sess[s].streams}

sendLineDrops(sessions, to, message) ==  \* mutant: drops what does not fit
    /\ line' = [s \in Sessions |->
                   IF s \in to /\ sessions[s].at = "open" /\ Len(line[s]) < Queue
                   THEN Append(line[s], message) ELSE line[s]]
    /\ sess' = sessions
sendLine(sessions, to, message) ==
    /\ line' = [s \in Sessions |->
                   IF s \in to /\ sessions[s].at = "open" /\ Len(line[s]) < Queue
                   THEN Append(line[s], message) ELSE line[s]]
    /\ sess' = [s \in Sessions |->
                   IF s \in to /\ sessions[s].at = "open" /\ Len(line[s]) >= Queue
                   THEN [sessions[s] EXCEPT !.at = "closed"] ELSE sessions[s]]

(***************************************************************************)
(* publishLocked, by the holder of pubMu.                                  *)
(***************************************************************************)
snapshot(stream) == IF stream = "status" THEN status ELSE groups

NewRuntime(s, t) == s.sub # t.sub \/ s.started # t.started

publishLocked(stream, also) ==
    LET data == snapshot(stream)
        known == IF stream = "status" /\ NewRuntime(status, lastStatus)
                 THEN [lastPushed EXCEPT !.groups = None] ELSE lastPushed
        to == IF known[stream] # data THEN Subscribers(stream) ELSE {}
    IN /\ lastPushed' = [known EXCEPT ![stream] = data]
       /\ lastStatus' = IF stream = "status" THEN data ELSE lastStatus
       /\ sendLine(sess, to \cup ({also} \ {None}), [stream |-> stream, data |-> data])

\* What a publish of the groups leaves of the core's own changes.
Seen(stream) == moved' = (moved /\ stream # "groups")

(***************************************************************************)
(* A call that changes something: the core first, then the memory, then a  *)
(* publish, a stream at a time under pubMu.                                *)
(***************************************************************************)
OpCore(kind) ==
    /\ op = NoOp /\ ops < MaxOps
    /\ kind = "start" => status.started = 0
    /\ kind = "stop" => status.started # 0
    /\ ops' = ops + 1
    /\ groups' \in CASE kind = "start" -> GroupSets
                     [] kind = "stop" -> {NoGroups}
                     [] kind = "use" -> IF status.started # 0 THEN GroupSets ELSE {NoGroups}
    /\ op' = [kind |-> kind, at |-> "memory"]
    /\ UNCHANGED <<status, pubMu, pushed, tick, sess, line, widget, moved>>

OpMemory ==
    /\ op.at = "memory"
    /\ status' = CASE op.kind = "start" -> [status EXCEPT !.started = ops]
                   [] op.kind = "stop" -> [status EXCEPT !.started = 0]
                   [] op.kind = "use" -> [status EXCEPT !.sub = 3 - status.sub]
    /\ op' = [op EXCEPT !.at = "publish"]
    /\ UNCHANGED <<groups, ops, pubMu, pushed, tick, sess, line, widget, moved>>

OpPublish ==
    /\ op.at = "publish" /\ pubMu = Unlocked
    /\ publishLocked("status", None) /\ Seen("status")
    /\ pubMu' = [Unlocked EXCEPT !.todo = <<"groups">>]
    /\ op' = [op EXCEPT !.at = "publishing"]
    /\ UNCHANGED <<core, tick, widget>>

OpPublishes ==
    /\ op.at = "publishing"
    /\ publishLocked("groups", None) /\ Seen("groups")
    /\ pubMu' = Unlocked /\ op' = NoOp
    /\ UNCHANGED <<core, tick, widget>>

\* The core changes groups on its own too.
CoreMoves ==
    /\ groups # NoGroups
    /\ groups' \in GroupSets \ {groups}
    /\ moved' = TRUE
    /\ UNCHANGED <<status, ops, op, pubMu, pushed, tick, sess, line, widget>>

(***************************************************************************)
(* The ticker.                                                             *)
(***************************************************************************)
TickGroups ==
    /\ tick = NoTick /\ pubMu = Unlocked
    /\ status.started # 0 /\ Subscribers("groups") # {}
    /\ publishLocked("groups", None) /\ Seen("groups")
    /\ UNCHANGED <<core, op, pubMu, tick, widget>>

TickRead ==
    /\ tick = NoTick /\ status.started # 0 /\ Subscribers("connections") # {}
    /\ groups # NoGroups
    /\ tick' = [at |-> "read", run |-> status.started]
    /\ UNCHANGED <<core, op, pubMu, pushed, sess, line, widget, moved>>

broadcast ==
    /\ tick.at = "read"
    /\ sendLine(sess, Subscribers("connections"), [stream |-> "connections", data |-> tick.run])
    /\ tick' = NoTick
    /\ UNCHANGED <<core, op, pubMu, pushed, widget, moved>>

(***************************************************************************)
(* A session's calls, each in a goroutine of its own.                      *)
(***************************************************************************)
InOrder(streams) == (IF "status" \in streams THEN <<"status">> ELSE <<>>)
                    \o (IF "groups" \in streams THEN <<"groups">> ELSE <<>>)

subscribe(s, call) ==
    /\ pubMu = Unlocked /\ call \in sess[s].calls
    /\ pubMu' = [sess |-> s, call |-> call.id,
                 todo |-> IF call.on THEN InOrder(call.streams \ sess[s].streams) ELSE <<>>]
    /\ sess' = [sess EXCEPT ![s].calls = @ \ {call},
                            ![s].streams = IF call.on THEN @ \cup call.streams
                                           ELSE @ \ call.streams]
    /\ UNCHANGED <<core, op, pushed, tick, line, widget, moved>>

SubscribePublishes ==
    /\ pubMu.sess # None /\ pubMu.todo # <<>>
    /\ publishLocked(Head(pubMu.todo), pubMu.sess) /\ Seen(Head(pubMu.todo))
    /\ pubMu' = [pubMu EXCEPT !.todo = Tail(@)]
    /\ UNCHANGED <<core, op, tick, widget>>

\* The lock is released and the reply sent.
Reply ==
    /\ pubMu.sess # None /\ pubMu.todo = <<>>
    /\ sendLine(sess, {pubMu.sess}, [stream |-> "reply", data |-> pubMu.call])
    /\ pubMu' = Unlocked
    /\ UNCHANGED <<core, op, pushed, tick, widget, moved>>

\* serve has waited for the calls, and the client found the connection closed.
SessionEnds(s) ==
    /\ sess[s].at = "closed" /\ sess[s].calls = {} /\ pubMu.sess # s
    /\ widget.sess # s
    /\ sess' = [sess EXCEPT ![s] = NoSession]
    /\ line' = [line EXCEPT ![s] = <<>>]
    /\ UNCHANGED <<core, op, pubMu, pushed, tick, widget, moved>>

(***************************************************************************)
(* The widget.  `pending' are its calls without a reply, `again' the one   *)
(* whose reply lets refresh go on to subscribe.                            *)
(***************************************************************************)
Ready == widget.sess # None
wantedStreamsFew == {"status"}          \* mutant: forgets the panel is open
wantedStreams == IF widget.open THEN AllStreams ELSE {"status"}
FreeIds == {id \in 1..MaxCalls :
               /\ id \notin widget.pending
               /\ \A s \in Sessions : \A call \in sess[s].calls : call.id # id
               /\ pubMu.call # id}
NextId == CHOOSE id \in FreeIds : TRUE

\* What a call on session s makes of the widget and of the sessions.
call(s, sessions, w, on, streams, again) ==
    /\ widget' = [w EXCEPT !.pending = @ \cup {NextId},
                           !.again = IF again THEN NextId ELSE @]
    /\ sess' = IF sessions[s].at = "open"
               THEN [sessions EXCEPT ![s].calls =
                        @ \cup {[id |-> NextId, on |-> on, streams |-> streams]}]
               ELSE sessions

\* The daemon admits the panel and greets it.
Connect(s) ==
    /\ ~Ready /\ sess[s].at = "free" /\ FreeIds # {}
    /\ call(s, [sess EXCEPT ![s].at = "open"], [widget EXCEPT !.sess = s],
            TRUE, wantedStreams, FALSE)
    /\ UNCHANGED <<core, op, pubMu, pushed, tick, line, moved>>

disconnected(w) == [w EXCEPT !.sess = None, !.pending = {}, !.again = 0]

\* The connection ends, at either side.
Disconnect ==
    /\ Ready
    /\ sess' = [sess EXCEPT ![widget.sess].at = "closed"]
    /\ widget' = disconnected(widget)
    /\ UNCHANGED <<core, op, pubMu, pushed, tick, line, moved>>

forgetRuntime(w) == [w EXCEPT !.groups = NoGroups, !.loaded = FALSE, !.conns = {}]

\* The daemon refuses the panel, or is not there.
forgetAll ==
    /\ ~Ready
    /\ widget' = forgetRuntime([widget EXCEPT !.status = NoStatus])
    /\ UNCHANGED <<core, op, pubMu, pushed, tick, sess, line, moved>>

applyStatus(w, data) ==
    LET next == [w EXCEPT !.status = data]
    IN IF NewRuntime(data, w.status) THEN forgetRuntime(next) ELSE next

applyEvent(w, message) ==
    IF message.stream \notin wantedStreams THEN w
    ELSE CASE message.stream = "status" -> applyStatus(w, message.data)
           [] message.stream = "groups" ->
                 [w EXCEPT !.groups = message.data, !.loaded = (w.status.started # 0)]
           [] message.stream = "connections" -> [w EXCEPT !.conns = @ \cup {message.data}]

ReadEvent ==
    /\ Ready /\ line[widget.sess] # <<>> /\ Head(line[widget.sess]).stream # "reply"
    /\ widget' = applyEvent(widget, Head(line[widget.sess]))
    /\ line' = [line EXCEPT ![widget.sess] = Tail(@)]
    /\ UNCHANGED <<core, op, pubMu, pushed, tick, sess, moved>>

ReadReply ==
    /\ Ready /\ line[widget.sess] # <<>> /\ Head(line[widget.sess]).stream = "reply"
    /\ LET id == Head(line[widget.sess]).data
           w == [widget EXCEPT !.pending = @ \ {id}, !.again = IF @ = id THEN 0 ELSE @]
       IN IF widget.again = id
          THEN FreeIds # {} /\ call(widget.sess, sess, w, TRUE, wantedStreams, FALSE)
          ELSE widget' = w /\ UNCHANGED sess
    /\ line' = [line EXCEPT ![widget.sess] = Tail(@)]
    /\ UNCHANGED <<core, op, pubMu, pushed, tick, moved>>

TogglePanel ==
    /\ Patient => widget.pending = {}
    /\ LET w == [widget EXCEPT !.open = ~@]
       IN IF Ready
          THEN FreeIds # {} /\ call(widget.sess, sess, w, w.open, PanelStreams, FALSE)
          ELSE widget' = w /\ UNCHANGED sess
    /\ UNCHANGED <<core, op, pubMu, pushed, tick, line, moved>>

refresh ==
    /\ Ready /\ FreeIds # {} /\ widget.again = 0
    /\ Patient => widget.pending = {}
    /\ call(widget.sess, sess, widget, FALSE, AllStreams, TRUE)
    /\ UNCHANGED <<core, op, pubMu, pushed, tick, line, moved>>

\* The daemon restarts; the panel keeps what it shows.
Restart ==
    /\ status' = [status EXCEPT !.started = 0]
    /\ groups' = NoGroups /\ UNCHANGED ops
    /\ op' = NoOp /\ pubMu' = Unlocked /\ tick' = NoTick
    /\ lastPushed' = NothingPushed /\ lastStatus' = NoStatus
    /\ sess' = [s \in Sessions |-> NoSession] /\ line' = [s \in Sessions |-> <<>>]
    /\ widget' = disconnected(widget)
    /\ moved' = FALSE

Init ==
    /\ status = [sub |-> 1, started |-> 0]
    /\ groups = NoGroups /\ ops = 0
    /\ op = NoOp /\ pubMu = Unlocked /\ tick = NoTick
    /\ lastPushed = NothingPushed /\ lastStatus = NoStatus
    /\ sess = [s \in Sessions |-> NoSession] /\ line = [s \in Sessions |-> <<>>]
    /\ widget = [sess |-> None, open |-> FALSE, status |-> NoStatus, groups |-> NoGroups,
                 loaded |-> FALSE, conns |-> {}, pending |-> {}, again |-> 0]
    /\ moved = FALSE

Next ==
    \/ \E kind \in {"start", "stop", "use"} : OpCore(kind)
    \/ OpMemory \/ OpPublish \/ OpPublishes \/ CoreMoves
    \/ TickGroups \/ TickRead \/ broadcast
    \/ \E s \in Sessions : \/ \E c \in sess[s].calls : subscribe(s, c)
                           \/ SessionEnds(s) \/ Connect(s)
    \/ SubscribePublishes \/ Reply \/ Disconnect \/ forgetAll \/ ReadEvent \/ ReadReply
    \/ TogglePanel \/ refresh \/ Restart
Spec == Init /\ [][Next]_vars

(***************************************************************************)
(* Properties.                                                             *)
(***************************************************************************)
Ops == {NoOp} \cup [kind : {"start", "stop", "use"}, at : {"memory", "publish", "publishing"}]
Todos == {<<>>, <<"status">>, <<"groups">>, <<"status", "groups">>}
StreamCalls == [id : 1..MaxCalls, on : BOOLEAN, streams : SUBSET AllStreams]
Conns == [at : {"free", "open", "closed"}, streams : SUBSET AllStreams,
          calls : SUBSET StreamCalls]
Messages == [stream : {"status"}, data : Statuses] \cup [stream : {"groups"}, data : Groups]
            \cup [stream : {"connections"}, data : 1..MaxOps]
            \cup [stream : {"reply"}, data : 0..MaxCalls]
Panels == [sess : Sessions \cup {None}, open : BOOLEAN, status : Statuses, groups : Groups,
           loaded : BOOLEAN, conns : SUBSET (1..MaxOps), pending : SUBSET (1..MaxCalls),
           again : 0..MaxCalls]

\* Every variable keeps its type; no more is under way to a client than its
\* queue holds.
TypeOK ==
    /\ status \in Statuses /\ status.sub # 0
    /\ groups \in Groups /\ ops \in 0..MaxOps
    /\ op \in Ops /\ tick \in {NoTick} \cup [at : {"read"}, run : 1..MaxOps]
    /\ pubMu \in [todo : Todos, sess : Sessions \cup {None}, call : 0..MaxCalls]
    /\ lastPushed \in [status : Statuses \cup {None}, groups : Groups \cup {None}]
    /\ lastStatus \in Statuses
    /\ sess \in [Sessions -> Conns]
    /\ line \in [Sessions -> Seq(Messages)] /\ \A s \in Sessions : Len(line[s]) <= Queue
    /\ widget \in Panels /\ moved \in BOOLEAN

\* Nothing is on its way to the panel and no call is in progress.
Settled ==
    /\ op = NoOp /\ pubMu = Unlocked
    /\ Ready /\ widget.pending = {} /\ Open(widget.sess) /\ line[widget.sess] = <<>>

\* Whoever pushed what in which order, and though a push is left out when it
\* equals the last one, the panel ends up with the present status.
ShowsStatus == Settled => widget.status = status

\* An open panel ends up with the present groups, known to be those of the run
\* it shows, though it forgets them at every new runtime and the daemon pushes
\* them only when it thinks they changed.
ShowsGroups ==
    Settled /\ widget.open /\ ~moved =>
        widget.groups = groups /\ widget.loaded = (status.started # 0)

\* The panel is a mirror of the daemon once nothing is under way.
MirrorsDaemon == ShowsStatus /\ ShowsGroups

\* The panel's streams run while the panel is open, and cost the daemon nothing
\* otherwise.
PanelFollows ==
    Settled => sess[widget.sess].streams =
                  IF widget.open THEN AllStreams ELSE {"status"}

(***************************************************************************)
(* The strengthening of MirrorsDaemon and PanelFollows, for a patient      *)
(* owner.  What the panel will know is what it shows now, at place 0, with *)
(* what is under way to it, at the places 1 to Len(l).                     *)
(***************************************************************************)
IsStatus(l, k) == k = 0 \/ l[k].stream = "status"
IsGroups(l, k) == k = 0 \/ l[k].stream = "groups"
StatusOf(w, l, k) == IF k = 0 THEN w.status ELSE l[k].data
GroupsOf(w, l, k) == IF k = 0 THEN w.groups ELSE l[k].data

\* Having read k messages of l, the panel shows status v.
StatusAt(w, l, k, v) ==
    \A j \in 0..k : /\ IsStatus(l, j)
                    /\ \A i \in (j+1)..k : ~IsStatus(l, i)
                    => StatusOf(w, l, j) = v

\* Having read all of l, the panel shows groups g, of the runtime of status v.
GroupsArrive(w, l, g, v) ==
    \A k \in 0..Len(l) : /\ IsGroups(l, k)
                         /\ \A i \in (k+1)..Len(l) : ~IsGroups(l, i)
                         => /\ GroupsOf(w, l, k) = g
                            /\ k = 0 => w.loaded = (v.started # 0)
                            /\ StatusAt(w, l, k, v)
                            /\ \A i \in (k+1)..Len(l) : IsStatus(l, i) => l[i].data = v

NoReply(l) == \A k \in DOMAIN l : l[k].stream # "reply"
OneReply(l, id) == \E k \in DOMAIN l :
    /\ l[k] = [stream |-> "reply", data |-> id]
    /\ \A i \in DOMAIN l : i # k => l[i].stream # "reply"

\* What the streams of the panel's session are once its call has run.
Awaited == IF widget.again # 0 THEN {} ELSE wantedStreams

\* What a call under way is for, and which streams it finds.
Asks(c, streams) ==
    \/ c.on /\ widget.again = 0 /\ streams = {} /\ c.streams = wantedStreams
    \/ c.on /\ widget.again = 0 /\ widget.open /\ streams = {"status"} /\ c.streams = PanelStreams
    \/ ~c.on /\ widget.again = 0 /\ ~widget.open /\ streams = AllStreams /\ c.streams = PanelStreams
    \/ ~c.on /\ widget.again = c.id /\ streams = wantedStreams /\ c.streams = AllStreams

\* One call of the panel's at most is under way: it waits for its goroutine, its
\* goroutine has the lock, or its reply comes.
Idle(s) == /\ widget.again = 0 /\ sess[s].calls = {} /\ pubMu.sess # s /\ NoReply(line[s])
           /\ sess[s].streams = wantedStreams
Waits(s, id) == /\ pubMu.sess # s /\ NoReply(line[s])
                /\ \E c \in StreamCalls : /\ sess[s].calls = {c} /\ c.id = id
                                          /\ Asks(c, sess[s].streams)
Runs(s, id) == /\ pubMu.sess = s /\ pubMu.call = id /\ sess[s].calls = {} /\ NoReply(line[s])
               /\ sess[s].streams = Awaited
               /\ pubMu.todo = <<"status">> => ~widget.open
Replies(s, id) == /\ pubMu.sess # s /\ sess[s].calls = {} /\ OneReply(line[s], id)
                  /\ sess[s].streams = Awaited
CallInv(s) ==
    \/ widget.pending = {} /\ Idle(s)
    \/ \E id \in 1..MaxCalls : /\ widget.pending = {id} /\ widget.again \in {0, id}
                               /\ Waits(s, id) \/ Runs(s, id) \/ Replies(s, id)

\* Session s has the stream, and its first value was sent.
Fed(s, stream) ==
    /\ stream \in sess[s].streams
    /\ pubMu.sess = s => \A k \in DOMAIN pubMu.todo : pubMu.todo[k] # stream

\* What was pushed last is what is under way to the panel.
FeedInv(s) ==
    /\ Fed(s, "status") => /\ lastPushed.status # None
                           /\ StatusAt(widget, line[s], Len(line[s]), lastStatus)
    /\ Fed(s, "groups") /\ widget.open =>
          IF lastPushed.groups = None THEN op.at \in {"publish", "publishing"}
          ELSE GroupsArrive(widget, line[s], lastPushed.groups, lastStatus)

\* What was pushed last is the present value, but for a call that has changed
\* it and not published yet.
PushInv ==
    /\ lastPushed.status # None =>
          lastPushed.status = lastStatus /\ (status = lastStatus \/ op.at = "publish")
    /\ lastPushed.groups # None /\ ~moved /\ op.at = "idle" => lastPushed.groups = groups
    /\ op.at = "publishing" => pubMu = [Unlocked EXCEPT !.todo = <<"groups">>]

\* A session that is not there has nothing; the panel's is there.
FreeInv ==
    /\ \A s \in Sessions : sess[s].at = "free" => /\ sess[s] = NoSession
                                                  /\ line[s] = <<>> /\ pubMu.sess # s
    /\ Ready => sess[widget.sess].at # "free"
    /\ ~Ready => widget.pending = {} /\ widget.again = 0

StreamInv ==
    /\ PushInv /\ FreeInv
    /\ Ready /\ Open(widget.sess) => CallInv(widget.sess) /\ FeedInv(widget.sess)
=============================================================================
