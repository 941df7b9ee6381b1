------------------------------ MODULE Sessions ------------------------------
(***************************************************************************)
(* Connections between clients and the daemon: admission, the session's    *)
(* reader, handlers and writer (internal/daemon/session.go), the daemon's  *)
(* shutdown (Run, accept and admit in internal/daemon/daemon.go) and the   *)
(* client library (internal/client/client.go).                             *)
(*                                                                         *)
(* A socket is two queues.  A line to the daemon is a call's       *)
(* number, or a call cut short by its write deadline, whose text runs into *)
(* the next line; a line back is a greeting, a reply or a numbered event.  *)
(* What a handler does is the Daemon module's subject: here it runs, and   *)
(* answers.                                                                *)
(***************************************************************************)
EXTENDS Naturals, Sequences, FiniteSets

CONSTANTS
    Conns,         \* connections, each dialled once
    Callers,       \* the connections that make calls
    Listeners,     \* the connections that listen to events
    Calls,         \* the calls a connection may make, numbers from 1
    MaxClients,    \* sessions served at once
    MaxInFlight,   \* calls of a session handled at once
    SendQueue,     \* lines a session queues for its writer
    EventQueue,    \* events a client queues for its reader
    Buffer,        \* lines the socket holds for a client
    MaxCalls,      \* bound on the calls made
    MaxEvents,     \* bound on the events pushed
    MaxFaults      \* bound on cancelled, cut and closed calls and connections

ASSUME SessionsAssumption ==
    /\ IsFiniteSet(Conns) /\ Callers \subseteq Conns /\ Listeners \subseteq Conns
    /\ Calls \subseteq Nat \ {0}
    /\ \A n \in {MaxClients, MaxInFlight, SendQueue, EventQueue, Buffer} : n \in Nat \ {0}
    /\ \A n \in {MaxCalls, MaxEvents, MaxFaults} : n \in Nat

VARIABLES
    phase,      \* the daemon's shutdown
    st,         \* where each connection's goroutine is
    sessions,   \* the places these connections take
    others,     \* the places other clients hold meanwhile
    done,       \* session.close was called
    forced,     \* why it is not the client's wish
    out,        \* lines queued for the writer
    writer,     \* the writer goroutine
    running,    \* calls being handled
    slots,      \* calls that hold a place in flight
    handled,    \* how often each call ran
    up, upEnd,  \* the lines to the daemon, and that no more will come
    down,       \* the lines to the client
    cst,        \* the client's connection
    call,       \* each call of the client
    cancelled,  \* calls whose context has ended
    events, got,          \* events queued for the reader, and the last it read
    pushed, calls, faults

place == <<st, sessions, others>>
queue == <<done, forced, out>>
work == <<running, slots, handled>>
server == <<phase, place, queue, writer, work>>
wire == <<up, upEnd, down>>
client == <<cst, call, cancelled, events, got>>
count == <<pushed, calls, faults>>
vars == <<server, wire, client, count>>

Hello == [type |-> "hello", id |-> 0, code |-> "ok"]
Refusal == [type |-> "refused", id |-> 0, code |-> "error"]
Reply(i, code) == [type |-> "reply", id |-> i, code |-> code]
Event(n) == [type |-> "event", id |-> n, code |-> "ok"]
Lines == [type : {"hello", "refused", "reply", "event"}, id : Nat,
          code : {"ok", "busy", "error"}]
Whole(i) == [call |-> i, cut |-> FALSE]
Cut(i) == [call |-> i, cut |-> TRUE]
Requests == {r \in [call : Calls \cup {0}, cut : BOOLEAN] : r.call = 0 => r.cut}
CallStates == {"new", "ready", "sent", "failed", "unsent", "ok", "busy", "error",
               "gaveUp", "lost"}

Init ==
    /\ phase = "up" /\ st = [c \in Conns |-> "none"] /\ sessions = {}
    /\ others \in 0 .. MaxClients /\ done = [c \in Conns |-> FALSE] /\ forced = [c \in Conns |-> FALSE]
    /\ out = [c \in Conns |-> <<>>] /\ writer = [c \in Conns |-> "none"]
    /\ running = [c \in Conns |-> {}] /\ slots = [c \in Conns |-> {}]
    /\ handled = [c \in Conns |-> [i \in Calls |-> 0]]
    /\ up = [c \in Conns |-> <<>>] /\ upEnd = [c \in Conns |-> FALSE]
    /\ down = [c \in Conns |-> <<>>]
    /\ cst = [c \in Conns |-> "off"]
    /\ call = [c \in Conns |-> [i \in Calls |-> "new"]]
    /\ cancelled = [c \in Conns |-> {}]
    /\ events = [c \in Conns |-> <<>>] /\ got = [c \in Conns |-> 0]
    /\ pushed = 0 /\ calls = 0 /\ faults = 0

------------------------------------------------------------------------------
(* sendLine: a closed session drops the line, a full queue closes it.      *)
Queued(q, c, m) == IF done[c] \/ Len(q[c]) = SendQueue THEN q[c] ELSE Append(q[c], m)
OverflowsNever(c) == FALSE
Overflows(c) == ~done[c] /\ Len(out[c]) = SendQueue

SendLine(c, m) ==
    /\ out' = [out EXCEPT ![c] = Queued(out, c, m)]
    /\ done' = [done EXCEPT ![c] = @ \/ Overflows(c)]
    /\ forced' = [forced EXCEPT ![c] = @ \/ Overflows(c)]

(* accept: the listener is open until the shutdown closes it.              *)
Accept(c) ==
    /\ cst[c] = "dialling" /\ st[c] = "none" /\ phase \in {"up", "stopping"}
    /\ st' = [st EXCEPT ![c] = "accepted"]
    /\ UNCHANGED <<phase, sessions, others, queue, writer, work, wire, client, count>>

Full == Cardinality(sessions) + others >= MaxClients

(* admit refuses an account that does not own the install and a client     *)
(* beyond the limit.                                                       *)
Refuse(c, mayServe) ==
    /\ st[c] = "accepted" /\ (mayServe => Full)
    /\ st' = [st EXCEPT ![c] = "over"] /\ done' = [done EXCEPT ![c] = TRUE]
    /\ forced' = [forced EXCEPT ![c] = TRUE]
    /\ down' = [down EXCEPT ![c] = Append(@, Refusal)]
    /\ UNCHANGED <<phase, sessions, others, out, writer, work, up, upEnd, client, count>>

Admit(c) ==
    /\ st[c] = "accepted" /\ ~Full
    /\ st' = [st EXCEPT ![c] = "reading"]
    /\ sessions' = sessions \cup {c}
    /\ out' = [out EXCEPT ![c] = <<Hello>>]
    /\ writer' = [writer EXCEPT ![c] = "run"]
    /\ got' = [got EXCEPT ![c] = pushed]
    /\ UNCHANGED <<phase, others, done, forced, work, wire, cst, call, cancelled,
                   events, count>>

(* The goroutine that closes a session when the daemon's context ends.     *)
CloseOnCancelNot(c) == FALSE
CloseOnCancel(c) ==
    /\ phase # "up" /\ c \in sessions /\ ~done[c]
    /\ done' = [done EXCEPT ![c] = TRUE] /\ forced' = [forced EXCEPT ![c] = TRUE]
    /\ UNCHANGED <<phase, place, out, writer, work, wire, client, count>>

(* The reader takes a line.  A whole request gets a place in flight and a  *)
(* handler, or a busy answer; what is not a request is answered to call 0. *)
(* A cut line ends at the end of the input, and counts as a request only   *)
(* when nothing but its newline is missing.  What the scanner had buffered *)
(* when the session closed may still be taken.                             *)
RequestUnbounded(c, i) ==
    /\ running' = [running EXCEPT ![c] = @ \cup {i}]
    /\ slots' = [slots EXCEPT ![c] = @ \cup {i}]
    /\ UNCHANGED queue

Request(c, i) ==
    IF Cardinality(slots[c]) < MaxInFlight
    THEN /\ running' = [running EXCEPT ![c] = @ \cup {i}]
         /\ slots' = [slots EXCEPT ![c] = @ \cup {i}]
         /\ UNCHANGED queue
    ELSE /\ SendLine(c, Reply(i, "busy"))
         /\ UNCHANGED <<running, slots>>

NotRequest(c) ==
    /\ SendLine(c, Reply(0, "error"))
    /\ UNCHANGED <<running, slots>>

Read(c) ==
    /\ st[c] = "reading" /\ up[c] # <<>>
    /\ LET line == Head(up[c])
       IN  \/ /\ ~line.cut /\ Request(c, line.call)
              /\ up' = [up EXCEPT ![c] = Tail(@)]
           \/ /\ line.cut /\ Len(up[c]) > 1
              /\ IF up[c][2].cut
                 THEN /\ up' = [up EXCEPT ![c] = <<Cut(0)>> \o Tail(Tail(@))]
                      /\ UNCHANGED <<queue, running, slots>>
                 ELSE /\ up' = [up EXCEPT ![c] = Tail(Tail(@))]
                      /\ NotRequest(c)
           \/ /\ line.cut /\ Len(up[c]) = 1 /\ (upEnd[c] \/ done[c])
              /\ NotRequest(c) \/ (line.call # 0 /\ Request(c, line.call))
              /\ up' = [up EXCEPT ![c] = <<>>]
    /\ UNCHANGED <<phase, place, writer, handled, upEnd, down, client, count>>

ReadEnds(c) ==
    /\ st[c] = "reading"
    /\ done[c] \/ (upEnd[c] /\ up[c] = <<>>)
    /\ st' = [st EXCEPT ![c] = "waiting"]
    /\ UNCHANGED <<phase, sessions, others, queue, writer, work, wire, client, count>>

(* A handler ends: the answer is queued first, its place freed after it.   *)
Handle(c, i) ==
    /\ i \in running[c]
    /\ running' = [running EXCEPT ![c] = @ \ {i}]
    /\ handled' = [handled EXCEPT ![c][i] = @ + 1]
    /\ SendLine(c, Reply(i, "ok"))
    /\ UNCHANGED <<phase, place, writer, slots, wire, client, count>>

Release(c, i) ==
    /\ i \in slots[c] \ running[c]
    /\ slots' = [slots EXCEPT ![c] = @ \ {i}]
    /\ UNCHANGED <<phase, place, queue, writer, running, handled, wire, client, count>>

(* serve's deferred steps: wait for the calls, let the writer drain, close *)
(* the session and give its place back.                                    *)
CallsWaited(c) == st[c] = "waiting" /\ slots[c] = {}

Drain(c) ==
    /\ CallsWaited(c)
    /\ st' = [st EXCEPT ![c] = "draining"]
    /\ UNCHANGED <<phase, sessions, others, queue, writer, work, wire, client, count>>

ServeEnds(c) ==
    /\ st[c] = "draining" /\ writer[c] = "ended"
    /\ done' = [done EXCEPT ![c] = TRUE]
    /\ st' = [st EXCEPT ![c] = "over"] /\ sessions' = sessions \ {c}
    /\ UNCHANGED <<phase, others, forced, out, writer, work, wire, client, count>>

(* The writer puts a line on the socket; a socket the client closed, or    *)
(* one that stays full for the write timeout, closes the session.          *)
Writes(c) ==
    /\ writer[c] = "run" /\ out[c] # <<>> /\ ~done[c]
    /\ cst[c] # "closed" /\ Len(down[c]) < Buffer
    /\ down' = [down EXCEPT ![c] = Append(@, Head(out[c]))]
    /\ out' = [out EXCEPT ![c] = Tail(@)]
    /\ UNCHANGED <<phase, place, done, forced, writer, work, up, upEnd, client, count>>

WriteFails(c) ==
    /\ writer[c] = "run" /\ out[c] # <<>> /\ ~done[c]
    /\ cst[c] = "closed" \/ Len(down[c]) = Buffer
    /\ done' = [done EXCEPT ![c] = TRUE] /\ forced' = [forced EXCEPT ![c] = TRUE]
    /\ writer' = [writer EXCEPT ![c] = "ended"]
    /\ UNCHANGED <<phase, place, out, work, wire, client, count>>

DrainedEarly(c) == done[c] \/ st[c] = "draining"
Drained(c) == done[c] \/ (st[c] = "draining" /\ out[c] = <<>>)

WriterEnds(c) ==
    /\ writer[c] = "run" /\ Drained(c)
    /\ writer' = [writer EXCEPT ![c] = "ended"]
    /\ UNCHANGED <<phase, place, queue, work, wire, client, count>>

(* broadcast to every session that wants the stream.                       *)
Subscribers == sessions \cap Listeners

Broadcast ==
    /\ phase \in {"up", "stopping"} /\ pushed < MaxEvents /\ Subscribers # {}
    /\ pushed' = pushed + 1
    /\ out' = [c \in Conns |-> IF c \in Subscribers THEN Queued(out, c, Event(pushed + 1))
                               ELSE out[c]]
    /\ done' = [c \in Conns |-> done[c] \/ (c \in Subscribers /\ Overflows(c))]
    /\ forced' = [c \in Conns |-> forced[c] \/ (c \in Subscribers /\ Overflows(c))]
    /\ UNCHANGED <<phase, place, writer, work, wire, client, calls, faults>>

------------------------------------------------------------------------------
(* Run after its context ends: the listeners close, the loops end, then    *)
(* every connection's goroutine, and the core is stopped last.             *)
Shutdown ==
    /\ phase = "up" /\ phase' = "stopping"
    /\ UNCHANGED <<place, queue, writer, work, wire, client, count>>

ListenersClose ==
    /\ phase = "stopping" /\ phase' = "closed"
    /\ UNCHANGED <<place, queue, writer, work, wire, client, count>>

ClientsOverSoon == sessions = {}
ClientsOver == \A c \in Conns : st[c] \in {"none", "over"}

CoreStops ==
    /\ phase = "closed" /\ ClientsOver
    /\ phase' = "stopped"
    /\ UNCHANGED <<place, queue, writer, work, wire, client, count>>

------------------------------------------------------------------------------
(* Dial connects and waits for the greeting.                               *)
Dial(c) ==
    /\ cst[c] = "off" /\ phase \in {"up", "stopping"}
    /\ cst' = [cst EXCEPT ![c] = "dialling"]
    /\ UNCHANGED <<phase, place, queue, writer, work, wire, call, cancelled, events,
                   got, count>>

ServerGone(c) == done[c] \/ (phase \in {"closed", "stopped"} /\ st[c] = "none")

Greeted(c) ==
    /\ cst[c] = "dialling"
    /\ \/ /\ down[c] # <<>> /\ down' = [down EXCEPT ![c] = Tail(@)]
          /\ cst' = [cst EXCEPT ![c] = IF Head(down[c]) = Hello THEN "open" ELSE "closed"]
       \/ /\ down[c] = <<>> /\ ServerGone(c) /\ UNCHANGED down
          /\ cst' = [cst EXCEPT ![c] = "closed"]
    /\ upEnd' = [upEnd EXCEPT ![c] = (cst'[c] = "closed")]
    /\ UNCHANGED <<phase, place, queue, writer, work, up, call, cancelled, events, got,
                   count>>

SetCall(c, i, s) == call' = [call EXCEPT ![c][i] = s]

(* Call registers its channel, waits for the write lock, and writes unless *)
(* its context has ended by then.                                          *)
Start(c, i) ==
    /\ c \in Callers /\ cst[c] = "open" /\ call[c][i] = "new" /\ (i > 1 => call[c][i - 1] # "new")
    /\ calls < MaxCalls /\ calls' = calls + 1
    /\ SetCall(c, i, "ready")
    /\ UNCHANGED <<phase, place, queue, writer, work, wire, cst, cancelled, events, got,
                   pushed, faults>>

Cancel(c, i) ==
    /\ call[c][i] \in {"ready", "sent"} /\ i \notin cancelled[c]
    /\ faults < MaxFaults /\ faults' = faults + 1
    /\ cancelled' = [cancelled EXCEPT ![c] = @ \cup {i}]
    /\ UNCHANGED <<phase, place, queue, writer, work, wire, cst, call, events, got,
                   pushed, calls>>

Sent(c, i, s, line) ==
    /\ SetCall(c, i, s)
    /\ up' = [up EXCEPT ![c] = Append(@, line)]

SendsNow(c, i) ==
    IF cst[c] = "closed" \/ upEnd[c] \/ done[c]
    THEN SetCall(c, i, "failed") /\ UNCHANGED up
    ELSE Sent(c, i, "sent", Whole(i))

Send(c, i) ==
    /\ call[c][i] = "ready"
    /\ IF i \in cancelled[c]
       THEN SetCall(c, i, "unsent") /\ UNCHANGED up
       ELSE SendsNow(c, i)
    /\ UNCHANGED <<phase, place, queue, writer, work, upEnd, down, cst, cancelled,
                   events, got, count>>

(* The write deadline passes with a part of the line written.              *)
SendCut(c, i) ==
    /\ call[c][i] = "ready" /\ i \notin cancelled[c]
    /\ cst[c] = "open" /\ ~upEnd[c] /\ ~done[c]
    /\ faults < MaxFaults /\ faults' = faults + 1
    /\ Sent(c, i, "failed", Cut(i))
    /\ UNCHANGED <<phase, place, queue, writer, work, upEnd, down, cst, cancelled,
                   events, got, pushed, calls>>

(* readLoop: a reply goes to the call that waits for it, an event to the   *)
(* queue; a full queue ends the connection, and so does the daemon's end.  *)
Closes(c) ==
    /\ cst' = [cst EXCEPT ![c] = "closed"]
    /\ upEnd' = [upEnd EXCEPT ![c] = TRUE]

TakesReply(c, m) ==
    /\ call' = [call EXCEPT ![c] = [i \in Calls |->
                  IF i = m.id /\ @[i] = "sent"
                  THEN m.code ELSE @[i]]]
    /\ UNCHANGED <<cst, upEnd, events>>

TakesEvent(c, m) ==
    /\ IF Len(events[c]) < EventQueue
       THEN /\ events' = [events EXCEPT ![c] = Append(@, m.id)]
            /\ UNCHANGED <<cst, upEnd>>
       ELSE Closes(c) /\ UNCHANGED events
    /\ UNCHANGED call

ReadLoop(c) ==
    /\ cst[c] = "open"
    /\ \/ /\ down[c] # <<>> /\ down' = [down EXCEPT ![c] = Tail(@)]
          /\ \/ Head(down[c]).type = "reply" /\ TakesReply(c, Head(down[c]))
             \/ Head(down[c]).type = "event" /\ TakesEvent(c, Head(down[c]))
       \/ /\ down[c] = <<>> /\ done[c] /\ Closes(c)
          /\ UNCHANGED <<down, call, events>>
    /\ UNCHANGED <<phase, place, queue, writer, work, up, cancelled, got, count>>

(* Call returns without a reply: its context ended, or the connection      *)
(* closed (a reply that landed before that is taken all the same).         *)
Returns(c, i) ==
    /\ call[c][i] = "sent"
    /\ \/ i \in cancelled[c] /\ SetCall(c, i, "gaveUp")
       \/ cst[c] = "closed" /\ SetCall(c, i, "lost")
    /\ UNCHANGED <<phase, place, queue, writer, work, wire, cst, cancelled, events, got,
                   count>>

ReadEvent(c) ==
    /\ events[c] # <<>>
    /\ events' = [events EXCEPT ![c] = Tail(@)]
    /\ got' = [got EXCEPT ![c] = Head(events[c])]
    /\ UNCHANGED <<phase, place, queue, writer, work, wire, cst, call, cancelled, count>>

(* A client stops sending, or closes.                                      *)
HalfClose(c) ==
    /\ cst[c] = "open" /\ ~upEnd[c] /\ faults < MaxFaults /\ faults' = faults + 1
    /\ upEnd' = [upEnd EXCEPT ![c] = TRUE]
    /\ UNCHANGED <<phase, place, queue, writer, work, up, down, client, pushed, calls>>

Close(c) ==
    /\ cst[c] = "open" /\ faults < MaxFaults /\ faults' = faults + 1
    /\ Closes(c)
    /\ UNCHANGED <<phase, place, queue, writer, work, up, down, call, cancelled, events,
                   got, pushed, calls>>

------------------------------------------------------------------------------
Serving(c) ==
    \/ Accept(c) \/ Admit(c) \/ Refuse(c, TRUE) \/ CloseOnCancel(c)
    \/ Read(c) \/ ReadEnds(c) \/ Drain(c) \/ ServeEnds(c)
    \/ \E i \in Calls : Release(c, i) \/ Handle(c, i)

Writing(c) == Writes(c) \/ WriteFails(c) \/ WriterEnds(c)

Receiving(c) ==
    \/ Greeted(c) \/ ReadLoop(c)
    \/ \E i \in Calls : Send(c, i) \/ Returns(c, i)

Progress ==
    \/ ListenersClose \/ CoreStops
    \/ \E c \in Conns : Serving(c) \/ Writing(c) \/ Receiving(c)

Next ==
    \/ Progress \/ Broadcast \/ Shutdown
    \/ \E c \in Conns :
        \/ Refuse(c, FALSE) \/ Dial(c) \/ ReadEvent(c) \/ HalfClose(c) \/ Close(c)
        \/ \E i \in Calls : Start(c, i) \/ Cancel(c, i) \/ SendCut(c, i)

Spec == Init /\ [][Next]_vars

(* Goroutines run, handlers end (callTimeout bounds each of them) and a    *)
(* write that blocks fails at its deadline.  No step repeats for ever, so  *)
(* it is enough that some step of these is taken while one can be.         *)
FairSpec == Spec /\ WF_vars(Progress)

------------------------------------------------------------------------------
(* Every variable keeps its type and every queue its bound.                *)
TypeOK ==
    /\ phase \in {"up", "stopping", "closed", "stopped"} /\ sessions \subseteq Conns
    /\ st \in [Conns -> {"none", "accepted", "reading", "waiting", "draining", "over"}]
    /\ done \in [Conns -> BOOLEAN] /\ forced \in [Conns -> BOOLEAN]
    /\ writer \in [Conns -> {"none", "run", "ended"}]
    /\ others \in 0 .. MaxClients /\ Cardinality(sessions) =< MaxClients
    /\ out \in [Conns -> Seq(Lines)] /\ down \in [Conns -> Seq(Lines)]
    /\ up \in [Conns -> Seq(Requests)] /\ events \in [Conns -> Seq(Nat)]
    /\ running \in [Conns -> SUBSET Calls] /\ slots \in [Conns -> SUBSET Calls]
    /\ \A c \in Conns :
        /\ Len(out[c]) =< SendQueue /\ Len(down[c]) =< Buffer
        /\ Len(events[c]) =< EventQueue
        /\ running[c] \subseteq slots[c] /\ Cardinality(slots[c]) =< MaxInFlight
    /\ handled \in [Conns -> [Calls -> Nat]] /\ call \in [Conns -> [Calls -> CallStates]]
    /\ cancelled \in [Conns -> SUBSET Calls] /\ got \in [Conns -> Nat]
    /\ cst \in [Conns -> {"off", "dialling", "open", "closed"}]
    /\ upEnd \in [Conns -> BOOLEAN]
    /\ pushed \in Nat /\ calls \in Nat /\ faults \in Nat

Coming(c, i) == \E k \in DOMAIN down[c] : down[c][k].type = "reply" /\ down[c][k].id = i

(* "A client that stops sending still gets the replies to what it asked":  *)
(* a session that no full queue, write timeout or shutdown ended, ended    *)
(* with an answer on its way to every call, unless a cut line ate it.      *)
HalfCloseAnswered ==
    \A c \in Conns : st[c] = "over" /\ ~forced[c] =>
        \A i \in Calls : call[c][i] = "sent" =>
            Coming(c, i) \/ \E j \in Calls : call[c][j] = "failed"

(* What a call returns tells whether it ran: once when it was answered,    *)
(* never when the daemon was busy or the context had ended before the call *)
(* was sent, and never twice.                                              *)
AnswerTells ==
    \A c \in Conns, i \in Calls :
        /\ handled[c][i] =< 1
        /\ call[c][i] = "ok" => handled[c][i] = 1
        /\ call[c][i] \in {"busy", "unsent"} => handled[c][i] = 0

(* An answer comes to every call of a session that ends by itself, and it  *)
(* tells what became of that call.                                         *)
CallsAnswered == AnswerTells /\ HalfCloseAnswered

(* What a listener has still to read follows what it has read without a    *)
(* gap: first what its own queue holds, then, while its connection is      *)
(* open, what is on the socket and in the session's queue, in order and    *)
(* all there is while the session stands.  One that falls behind loses the *)
(* connection and never an event in the middle.                            *)
Line(c) == down[c] \o out[c]
Numbers(s) == {s[k].id : k \in {k \in DOMAIN s : s[k].type = "event"}}
Ascending(s) == \A k, l \in DOMAIN s :
    k < l /\ s[k].type = "event" /\ s[l].type = "event" => s[k].id < s[l].id

Unbroken(c) ==
    LET read == got[c] + Len(events[c])
    IN  /\ \A k \in DOMAIN events[c] : events[c][k] = got[c] + k
        /\ cst[c] # "closed" =>
              /\ Ascending(Line(c))
              /\ \E top \in read .. pushed :
                    /\ Numbers(Line(c)) = read + 1 .. top
                    /\ c \in sessions /\ ~done[c] => top = pushed
NoGap == \A c \in Listeners : Unbroken(c)

(* The core is stopped after every session and every handler has ended.    *)
StopIsLast ==
    phase = "stopped" =>
        /\ sessions = {}
        /\ \A c \in Conns : running[c] = {} /\ st[c] \in {"none", "over"}

(* In the end every call on a connection whose lines were not cut has      *)
(* returned.                                                               *)
CallsEnd ==
    <>[](\A c \in Conns, i \in Calls : call[c][i] = "sent" =>
            \E j \in Calls : call[c][j] = "failed")

(* A shutdown ends: no client, however slow, keeps the core running.       *)
ShutdownEnds == phase = "stopping" ~> phase = "stopped"

(* In the end every session that closed has given its place back.          *)
PlacesReturn == <>[](\A c \in Conns : done[c] => c \notin sessions)

(* Nothing is left waiting: neither a call, nor a shutdown, nor a place.   *)
EverythingEnds == CallsEnd /\ ShutdownEnds /\ PlacesReturn

------------------------------------------------------------------------------
(* The inductive strengthenings.                                           *)
Has(s, x) == \E k \in DOMAIN s : s[k] = x
Codes == {"ok", "busy", "error"}

(* Where a connection is in its life, and what it has by then: the         *)
(* strengthening of StopIsLast.                                            *)
ServeInv(c) ==
    /\ c \in sessions <=> st[c] \in {"reading", "waiting", "draining"}
    /\ writer[c] = "run" => c \in sessions
    /\ st[c] \in {"none", "accepted"} =>
          writer[c] = "none" /\ out[c] = <<>> /\ down[c] = <<>> /\ events[c] = <<>>
    /\ st[c] \notin {"reading", "waiting"} => slots[c] = {}
    /\ IsFiniteSet(slots[c])
    /\ phase = "stopped" => st[c] \in {"none", "over"}
    /\ cst[c] \in {"off", "dialling"} =>
          ~upEnd[c] /\ \A i \in Calls : call[c][i] = "new"

(* A call is in one place at most on its way to the daemon and back, and   *)
(* the answer on its way tells what happened: the strengthening of         *)
(* AnswerTells.                                                            *)
Unread(c, i) == Has(up[c], Whole(i)) \/ Has(up[c], Cut(i))
AtRest(c, i) == i \notin running[c] /\ ~Unread(c, i)
Answer(c, i, code) == Has(out[c], Reply(i, code)) \/ Has(down[c], Reply(i, code))
Once(s) == \A k, l \in DOMAIN s : s[k].call = s[l].call /\ s[k].call # 0 => k = l
TellsInv(c, i) ==
    /\ handled[c][i] =< 1
    /\ i \in running[c] => ~Unread(c, i)
    /\ ~AtRest(c, i) => handled[c][i] = 0
    /\ \A code \in Codes : Answer(c, i, code) =>
          AtRest(c, i) /\ call[c][i] \notin {"new", "ready", "unsent"}
    /\ Answer(c, i, "ok") => handled[c][i] = 1
    /\ Answer(c, i, "busy") => handled[c][i] = 0
    /\ call[c][i] = "ok" => handled[c][i] = 1
    /\ call[c][i] \in {"new", "ready", "unsent", "busy"} =>
          AtRest(c, i) /\ handled[c][i] = 0

(* No call is lost between the client and its answer while nothing forces  *)
(* the session to close: the strengthening of HalfCloseAnswered.           *)
SomeFailed(c) == \E j \in Calls : call[c][j] = "failed"
Kept(c, i) == \/ SomeFailed(c) \/ Has(up[c], Whole(i)) \/ i \in running[c]
              \/ \E code \in Codes : Answer(c, i, code)
DrainInv(c) ==
    /\ \A i \in Calls \cup {0} : Has(up[c], Cut(i)) => SomeFailed(c)
    /\ ~forced[c] =>
          /\ done[c] => st[c] = "over"
          /\ st[c] = "over" => writer[c] = "ended"
          /\ st[c] \in {"waiting", "draining", "over"} => up[c] = <<>> /\ upEnd[c]
          /\ writer[c] = "ended" =>
                /\ st[c] \in {"draining", "over"}
                /\ \A i \in Calls, code \in Codes : ~Has(out[c], Reply(i, code))
          /\ \A i \in Calls : call[c][i] = "sent" => Kept(c, i)

(* The greeting comes before every event: with it, NoGap is inductive.     *)
GreetsFirst(c) ==
    cst[c] \in {"off", "dialling"} =>
        /\ c \in sessions => Line(c) # <<>>
        /\ Line(c) # <<>> => Line(c)[1].type # "event"

ConnInv(c) ==
    /\ ServeInv(c) /\ DrainInv(c)
    /\ Once(up[c]) /\ \A i \in Calls : TellsInv(c, i)
    /\ GreetsFirst(c) /\ (c \in Listeners => Unbroken(c))
SessionInv == \A c \in Conns : ConnInv(c)
==============================================================================
