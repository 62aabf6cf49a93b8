----------------------------- MODULE StreamHub ------------------------------
(***************************************************************************)
(* The WebSocket hub of backend/server.py: ConnectionManager, which sends  *)
(* a message to one socket after the other and may be suspended in every   *)
(* send; StreamHistory, the bounded log a late client is backfilled from;  *)
(* the part of websocket_endpoint that joins a socket to both; and the     *)
(* tasks that use them, the pumps (rx_pump, tx_pump, voice_tx) and the     *)
(* sockets' own receive loops (chat_message, clear_chat).  view is the log *)
(* a browser shows: App.tsx appends live messages and replaces its log by  *)
(* chat_history.                                                           *)
(***************************************************************************)
EXTENDS Naturals, SequencesExt

CONSTANTS
  Sockets,        \* connections; a browser that comes back is another one
  Pumps,          \* tasks of the server that broadcast
  Messages,       \* each is broadcast at most once
  Chat,           \* those that sockets send; the others come from pumps
  Nothing,        \* the message of a task that carries none
  MaxEntries,     \* _STREAM_HISTORY_MAX
  MaxClears       \* bound of the model: how often the chat is cleared

ASSUME HubAssumption ==
  /\ Sockets \cap Pumps = {}
  /\ Chat \subseteq Messages
  /\ Nothing \notin Messages
  /\ MaxEntries \in Nat \ {0} /\ MaxClears \in Nat

Tasks == Sockets \cup Pumps

VARIABLES
  clients,        \* _clients; the order in which they are sent to is left open
  phase,          \* how far websocket_endpoint has come
  link,           \* the TCP connection, up or down
  snapshot,       \* history_msgs of a joining socket
  entries,        \* StreamHistory._entries
  job,            \* the broadcast a task is suspended in
  begun,          \* messages whose broadcast has begun
  clears,         \* how often the chat was cleared
  view,           \* the log a browser shows
  missed          \* history: what a browser lost in one of the three windows

endpoint == <<phase, link, snapshot>>
screen == <<view, missed>>
hubVars == <<clients, endpoint, entries, job, begun, clears, screen>>

Idle == [kind |-> "idle", msg |-> Nothing, todo |-> {}, dead |-> {}]
Jobs == [kind : {"idle", "msg", "clear"}, msg : Messages \cup {Nothing},
         todo : SUBSET Sockets, dead : SUBSET Sockets]

HubInit ==
  /\ clients = {}
  /\ phase = [s \in Sockets |-> "new"]
  /\ link = [s \in Sockets |-> "down"]
  /\ snapshot = [s \in Sockets |-> <<>>]
  /\ entries = <<>>
  /\ job = [t \in Tasks |-> Idle]
  /\ begun = {}
  /\ clears = 0
  /\ view = [s \in Sockets |-> <<>>]
  /\ missed = [s \in Sockets |-> {}]

------------------------------------------------------------------------------
(* Connecting.  The profile is read, then accept() is awaited; the snapshot *)
(* of the history and the registration are one step; then a dozen frames    *)
(* are awaited, of which chat_history is the last that matters here.        *)

InFlight == {job[t].msg : t \in {u \in Tasks : job[u].kind = "msg"}}

Connect(s) ==
  /\ phase[s] = "new"
  /\ phase' = [phase EXCEPT ![s] = "accepting"]
  /\ link' = [link EXCEPT ![s] = "up"]
  /\ UNCHANGED <<clients, snapshot, entries, job, begun, clears, screen>>

\* mutant of Register: the socket joins the broadcasts only after its backfill
RegisterLate(s) ==
  /\ phase[s] = "accepting"
  /\ phase' = [phase EXCEPT ![s] = "joining"]
  /\ snapshot' = [snapshot EXCEPT ![s] = entries]
  /\ missed' = [missed EXCEPT ![s] = InFlight]
  /\ UNCHANGED <<clients, link, entries, job, begun, clears, view>>

Register(s) ==
  /\ phase[s] = "accepting"
  /\ phase' = [phase EXCEPT ![s] = "joining"]
  /\ snapshot' = [snapshot EXCEPT ![s] = entries]
  /\ clients' = clients \cup {s}
  /\ missed' = [missed EXCEPT ![s] = InFlight]
  /\ UNCHANGED <<link, entries, job, begun, clears, view>>

Backfill(s) ==
  /\ phase[s] = "joining"
  /\ phase' = [phase EXCEPT ![s] = "live"]
  /\ snapshot' = [snapshot EXCEPT ![s] = <<>>]
  /\ \/ /\ link[s] = "up"
        /\ view' = [view EXCEPT ![s] = snapshot[s]]
        /\ missed' = [missed EXCEPT ![s] = @ \cup ToSet(view[s])]
        /\ UNCHANGED clients
     \/ /\ link[s] = "down"                         \* send_to drops the socket
        /\ clients' = clients \ {s}
        /\ UNCHANGED screen
  /\ UNCHANGED <<link, entries, job, begun, clears>>

\* The receive loop ends; a send still due to this socket will fail.
Leave(s) ==
  /\ phase[s] = "live" /\ link[s] = "down" /\ job[s] = Idle
  /\ phase' = [phase EXCEPT ![s] = "gone"]
  /\ clients' = clients \ {s}
  /\ UNCHANGED <<link, snapshot, entries, job, begun, clears, screen>>

Drop(s) ==
  /\ link[s] = "up"
  /\ link' = [link EXCEPT ![s] = "down"]
  /\ UNCHANGED <<clients, phase, snapshot, entries, job, begun, clears, screen>>

\* disconnect_user: the socket is closed and forgotten at once.
Disconnect(s) ==
  /\ s \in clients
  /\ link' = [link EXCEPT ![s] = "down"]
  /\ clients' = clients \ {s}
  /\ UNCHANGED <<phase, snapshot, entries, job, begun, clears, screen>>

------------------------------------------------------------------------------
(* Broadcasting: the clients are copied, each is sent to, one by one,      *)
(* those that failed are dropped at the end, and the message is recorded.  *)

\* mutant of Trim: off by one
TrimLate(log) == IF Len(log) > MaxEntries + 1
                 THEN SubSeq(log, Len(log) - MaxEntries + 1, Len(log)) ELSE log

Trim(log) == IF Len(log) > MaxEntries
             THEN SubSeq(log, Len(log) - MaxEntries + 1, Len(log)) ELSE log

Record(m) == IF m \in Messages THEN Trim(Append(entries, m)) ELSE entries

Free(t) == job[t] = Idle /\ (t \in Sockets => phase[t] = "live")

\* mutant of Broadcast: the message is recorded as its broadcast begins, too
BroadcastRecording(t, m) ==
  /\ Free(t) /\ m \notin begun /\ (m \in Chat <=> t \in Sockets)
  /\ begun' = begun \cup {m}
  /\ entries' = Record(m)
  /\ job' = [job EXCEPT ![t] = [kind |-> "msg", msg |-> m, todo |-> clients, dead |-> {}]]
  /\ UNCHANGED <<clients, endpoint, clears, screen>>

Broadcast(t, m) ==
  /\ Free(t) /\ m \notin begun /\ (m \in Chat <=> t \in Sockets)
  /\ begun' = begun \cup {m}
  /\ job' = [job EXCEPT ![t] = [kind |-> "msg", msg |-> m, todo |-> clients, dead |-> {}]]
  /\ UNCHANGED <<clients, endpoint, entries, clears, screen>>

\* clear_chat: the log is emptied, then chat_cleared goes to everyone.
Clear(s) ==
  /\ Free(s) /\ clears < MaxClears
  /\ clears' = clears + 1
  /\ entries' = <<>>
  /\ job' = [job EXCEPT ![s] = [kind |-> "clear", msg |-> Nothing, todo |-> clients, dead |-> {}]]
  /\ UNCHANGED <<clients, endpoint, begun, screen>>

Show(s, j) ==
  IF j.kind = "msg"
  THEN /\ view' = [view EXCEPT ![s] = Append(@, j.msg)]
       /\ UNCHANGED missed
  ELSE /\ view' = [view EXCEPT ![s] = <<>>]
       /\ missed' = [missed EXCEPT ![s] = @ \cup ToSet(view[s])]

Send(t, s) ==
  /\ s \in job[t].todo
  /\ \/ /\ link[s] = "up"
        /\ Show(s, job[t])
        /\ job' = [job EXCEPT ![t].todo = @ \ {s}]
     \/ /\ link[s] = "down"
        /\ job' = [job EXCEPT ![t].todo = @ \ {s}, ![t].dead = @ \cup {s}]
        /\ UNCHANGED screen
  /\ UNCHANGED <<clients, endpoint, entries, begun, clears>>

Finish(t) ==
  /\ job[t].kind # "idle" /\ job[t].todo = {}
  /\ clients' = clients \ job[t].dead
  /\ entries' = Record(job[t].msg)
  /\ job' = [job EXCEPT ![t] = Idle]
  /\ UNCHANGED <<endpoint, begun, clears, screen>>

------------------------------------------------------------------------------
Socket(s) == \/ Connect(s) \/ Register(s) \/ Backfill(s) \/ Leave(s)
             \/ Drop(s) \/ Disconnect(s)
             \/ Clear(s)

HubNext ==
  \/ \E s \in Sockets : Socket(s)
  \/ \E t \in Tasks : \/ \E m \in Messages : Broadcast(t, m)
                     \/ \E s \in Sockets : Send(t, s)
                     \/ Finish(t)

HubSpec == HubInit /\ [][HubNext]_hubVars

------------------------------------------------------------------------------
HubTypeOK ==
  /\ clients \subseteq Sockets
  /\ phase \in [Sockets -> {"new", "accepting", "joining", "live", "gone"}]
  /\ link \in [Sockets -> {"up", "down"}]
  /\ \A s \in Sockets : snapshot[s] \in Seq(Messages) /\ view[s] \in Seq(Messages)
  /\ entries \in Seq(Messages) /\ Len(entries) <= MaxEntries
  /\ job \in [Tasks -> Jobs]
  /\ begun \subseteq Messages
  /\ clears \in 0..MaxClears
  /\ missed \in [Sockets -> SUBSET Messages]

\* A message comes live or with the backfill, never both (the comment above
\* `add` in websocket_endpoint).
NeverTwice == \A s \in Sockets : IsInjective(view[s])

\* A browser with a live connection shows whatever a browser connecting now
\* would be backfilled with, except for what it lost in one of three windows:
\* its broadcast was under way while the socket registered, it arrived before
\* chat_history, or before a chat_cleared that was sent earlier.
NothingElseMissed ==
  \A s \in Sockets : phase[s] = "live" /\ link[s] = "up"
                         => ToSet(entries) \subseteq ToSet(view[s]) \cup missed[s]

\* A browser never shows a message twice, and misses none but in these windows.
ShownOnce == NeverTwice /\ NothingElseMissed
=============================================================================
