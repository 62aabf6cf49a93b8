----------------------------- MODULE NetControl -----------------------------
(***************************************************************************)
(* The net control plugin (plugins/ncs.py): opening and closing a net, its *)
(* roster and round-table caller, the two tasks that file a net which has  *)
(* ended, BREAK BREAK, and the NWS poll loop; with the gate of _tx_enqueue *)
(* (backend/server.py), which asks this plugin first and may be suspended  *)
(* in the plugins after it, and with what the station puts on the queue    *)
(* past that gate.  What a contact is known as is left out.                *)
(***************************************************************************)
EXTENDS Naturals, SequencesExt

CONSTANTS
  Keys,           \* _roster_key: callsign and name of a station
  Alerts,         \* ids of NWS alerts
  Script,         \* the other transmissions of an operator
  Direct, Beacon, \* automatic IDs and voice previews; the monitoring beacon
  Breaks,         \* BREAK BREAK handlers that may run at once
  NoKey,
  MaxNets         \* bound of the model: how many nets are opened

ASSUME NcsAssumption == /\ Keys \cap Alerts = {} /\ Script \notin Keys \cup Alerts
                        /\ (Direct \cup {Beacon}) \cap (Keys \cup Alerts \cup {Script}) = {}
                        /\ {"off", "asking"} \cap Alerts = {}
                        /\ NoKey \notin Keys /\ MaxNets \in Nat

Authored == Keys \cup Alerts \cup {Script}     \* through _tx_enqueue, the gate
Items == Authored \cup Direct \cup {Beacon}   \* at most one of each is under way
NetIds == 1..MaxNets
Files == {"journal", "session"}

VARIABLES
  running, net,   \* _active; how many nets were opened
  roll,           \* keys of _roster, in order
  called, away,   \* rows that were called; rows that are not CheckedIn
  calling,        \* _current_call_key
  lines,          \* _session_rx holds something
  due,            \* files that tasks of a net have yet to write
  filed,          \* the stations in each file of each net
  unwritten,      \* history: the files that could not be written
  asEnded, overtaken,   \* history: the roster a net ended with, and the nets
                        \* whose roster changed before both files were written
  hold,           \* _break_break_pending
  breaking,       \* the handlers in their two seconds
  overlapped,     \* history: one of them began or ended beside another
  tx,             \* how far a transmission has come
  early,          \* history: what had passed the gate when the break came
  poll, seenAlerts      \* _nws_task: off, asking, or telling of an alert

roster == <<roll, called, away, calling>>
filing == <<due, filed, unwritten, asEnded, overtaken>>
brk == <<hold, breaking, overlapped, early>>
nws == <<poll, seenAlerts>>
ncsVars == <<running, net, roster, lines, filing, brk, tx, nws>>

NcsInit ==
  /\ running = FALSE /\ net = 0
  /\ roll = <<>> /\ called = {} /\ away = {} /\ calling = NoKey
  /\ lines = FALSE
  /\ due = {} /\ filed = [n \in NetIds |-> [f \in Files |-> {}]]
  /\ unwritten = {} /\ asEnded = [n \in NetIds |-> {}] /\ overtaken = {}
  /\ hold = FALSE /\ breaking = {} /\ overlapped = FALSE
  /\ tx = [i \in Items |-> "none"] /\ early = {}
  /\ poll = "off" /\ seenAlerts = {}

------------------------------------------------------------------------------
(* Transmissions.  _tx_enqueue; what is held back is gone, and those who     *)
(* enqueue do not ask.                                                       *)

Enqueue(i) ==
  /\ tx[i] = "none"
  /\ tx' = IF hold THEN tx ELSE [tx EXCEPT ![i] = "passed"]

Put(i) ==
  /\ tx[i] = "passed"
  /\ tx' = [tx EXCEPT ![i] = "queued"]
  /\ UNCHANGED <<running, net, roster, lines, filing, brk, nws>>

Air(i) ==
  /\ tx[i] = "queued"
  /\ tx' = [tx EXCEPT ![i] = "none"]
  /\ UNCHANGED <<running, net, roster, lines, filing, brk, nws>>

\* _id_rule_pump and voice_preview put straight on the queue, net or hold or not.
PutDirect(i) ==
  /\ tx[i] = "none"
  /\ tx' = [tx EXCEPT ![i] = "queued"]
  /\ UNCHANGED <<running, net, roster, lines, filing, brk, nws>>

\* _monitoring_beacon_pump: decided on when no net runs, it is put after a broadcast.
DecideBeacon ==
  /\ ~running /\ tx[Beacon] = "none"
  /\ tx' = [tx EXCEPT ![Beacon] = "passed"]
  /\ UNCHANGED <<running, net, roster, lines, filing, brk, nws>>

\* Spot reports and net scripts, which a running net keeps a line of.
ReadScript ==
  /\ Enqueue(Script)
  /\ lines' = (lines \/ running)
  /\ UNCHANGED <<running, net, roster, filing, brk, nws>>

Gated == {i \in Authored : tx[i] = "passed"}

\* mutant of BreakBreak: the queue is drained, and the gate stays open
BreakBreakOpen(b) ==
  /\ b \notin breaking
  /\ tx' = [i \in Items |-> IF tx[i] = "queued" THEN "none" ELSE tx[i]]
  /\ breaking' = breaking \cup {b}
  /\ overlapped' = (breaking # {})
  /\ early' = Gated
  /\ UNCHANGED <<hold, running, net, roster, lines, filing, nws>>

BreakBreak(b) ==
  /\ b \notin breaking
  /\ hold' = TRUE
  /\ tx' = [i \in Items |-> IF tx[i] = "queued" THEN "none" ELSE tx[i]]
  /\ breaking' = breaking \cup {b}
  /\ overlapped' = (breaking # {})
  /\ early' = Gated
  /\ UNCHANGED <<running, net, roster, lines, filing, nws>>

BreakOver(b) ==
  /\ b \in breaking
  /\ hold' = FALSE
  /\ breaking' = breaking \ {b}
  /\ overlapped' = (breaking # {b})
  /\ early' = {}
  /\ UNCHANGED <<running, net, roster, lines, filing, tx, nws>>

------------------------------------------------------------------------------
(* The net. *)

Unfiled == {n \in NetIds : \E f \in Files : <<n, f>> \in due}

StartNet ==
  /\ ~running /\ net < MaxNets
  /\ running' = TRUE /\ net' = net + 1
  /\ roll' = <<>> /\ called' = {} /\ away' = {} /\ calling' = NoKey
  /\ lines' = FALSE
  /\ seenAlerts' = {}
  /\ poll' \in {"off", "asking"}                 \* whether a zone is configured
  /\ overtaken' = overtaken \cup Unfiled
  /\ UNCHANGED <<due, filed, unwritten, asEnded, brk, tx>>

\* mutant of EndNet: the roster goes with the net
EndNetCleared ==
  /\ running
  /\ running' = FALSE /\ calling' = NoKey /\ roll' = <<>>
  /\ poll' = "off"
  /\ due' = IF roll # <<>> \/ lines THEN due \cup ({net} \X Files) ELSE due
  /\ asEnded' = [asEnded EXCEPT ![net] = ToSet(roll)]
  /\ UNCHANGED <<net, called, away, lines, filed, unwritten, overtaken, brk, tx, seenAlerts>>

EndNet ==
  /\ running
  /\ running' = FALSE /\ calling' = NoKey
  /\ poll' = "off"
  /\ due' = IF roll # <<>> \/ lines THEN due \cup ({net} \X Files) ELSE due
  /\ asEnded' = [asEnded EXCEPT ![net] = ToSet(roll)]
  /\ UNCHANGED <<net, roll, called, away, lines, filed, unwritten, overtaken, brk, tx, seenAlerts>>

\* _save_ncs_journal and _save_net_session: tasks of their own, which read the
\* roster as it is when they run; a failure is logged, and the file is not written.
FileNet(n, f, written) ==
  /\ <<n, f>> \in due
  /\ due' = due \ {<<n, f>>}
  /\ filed' = IF written THEN [filed EXCEPT ![n][f] = ToSet(roll)] ELSE filed
  /\ unwritten' = IF written THEN unwritten ELSE unwritten \cup {<<n, f>>}
  /\ UNCHANGED <<running, net, roster, lines, asEnded, overtaken, brk, tx, nws>>

\* Whether or not a net is running; a row keeps its place and its turn.
CheckInKey(k) ==
  /\ roll' = IF k \in ToSet(roll) THEN roll ELSE Append(roll, k)
  /\ away' = away \ {k}
  /\ overtaken' = IF k \in ToSet(roll) THEN overtaken ELSE overtaken \cup Unfiled
  /\ UNCHANGED <<running, net, called, calling, lines, due, filed, unwritten, asEnded, brk, tx, nws>>

PlaceOf(k) == CHOOSE i \in DOMAIN roll : roll[i] = k

RemoveKey(k) ==
  /\ k \in ToSet(roll)
  /\ roll' = RemoveAt(roll, PlaceOf(k)) /\ called' = called \ {k} /\ away' = away \ {k}
  /\ overtaken' = overtaken \cup Unfiled
  /\ UNCHANGED <<running, net, calling, lines, due, filed, unwritten, asEnded, brk, tx, nws>>

UpdateStatus(k, present) ==
  /\ k \in ToSet(roll)
  /\ away' = IF present THEN away \ {k} ELSE away \cup {k}
  /\ UNCHANGED <<running, net, roll, called, calling, lines, filing, brk, tx, nws>>

\* _announce_call: a station has had its turn whether or not it was announced.
AnnounceCall(k) ==
  /\ called' = called \cup {k} /\ calling' = k
  /\ Enqueue(k)
  /\ UNCHANGED <<running, net, roll, away, lines, filing, brk, nws>>

\* The first row that is present and was not called.
IsUncalled(k) ==
  \E i \in DOMAIN roll : /\ roll[i] = k /\ k \notin away \cup called
                         /\ \A j \in 1..(i - 1) : roll[j] \in away \cup called

CallNextKey ==
  /\ running
  /\ \/ \E k \in Keys : IsUncalled(k) /\ AnnounceCall(k)
     \/ /\ \A k \in Keys : ~IsUncalled(k)
        /\ calling' = NoKey
        /\ UNCHANGED <<running, net, roll, called, away, lines, filing, brk, tx, nws>>

CallKey(k) == running /\ k \in ToSet(roll) /\ AnnounceCall(k)

CallResetKeys ==
  /\ called' = {} /\ calling' = NoKey
  /\ UNCHANGED <<running, net, roll, away, lines, filing, brk, tx, nws>>

\* on_rx_final
RxFinal ==
  /\ running
  /\ lines' = TRUE
  /\ UNCHANGED <<running, net, roster, filing, brk, tx, nws>>

\* on_config_changed: a zone was given to a net that runs without a poll loop.
ZoneSet ==
  /\ running /\ poll = "off"
  /\ poll' = "asking"
  /\ UNCHANGED <<running, net, roster, lines, filing, brk, tx, seenAlerts>>

\* _poll_nws_once: a new alert is marked as seen and broadcast, and then, if it
\* is severe and the channel is clear, put on the air.
NewAlert(a) ==
  /\ poll = "asking" /\ a \notin seenAlerts
  /\ poll' = a
  /\ seenAlerts' = seenAlerts \cup {a}
  /\ UNCHANGED <<running, net, roster, lines, filing, brk, tx>>

TellAlert(a) ==
  /\ poll = a
  /\ poll' = "asking"
  /\ Enqueue(a) \/ UNCHANGED tx
  /\ UNCHANGED <<running, net, roster, lines, filing, brk, seenAlerts>>

NcsNext ==
  \/ StartNet \/ EndNet \/ RxFinal \/ ReadScript \/ CallNextKey \/ CallResetKeys \/ ZoneSet
  \/ \E n \in NetIds, f \in Files, written \in BOOLEAN : FileNet(n, f, written)
  \/ \E k \in Keys : \/ CheckInKey(k) \/ RemoveKey(k) \/ CallKey(k)
                     \/ \E present \in BOOLEAN : UpdateStatus(k, present)
  \/ \E b \in Breaks : BreakBreak(b) \/ BreakOver(b)
  \/ \E i \in Items : Put(i) \/ Air(i)
  \/ \E i \in Direct : PutDirect(i)
  \/ DecideBeacon
  \/ \E a \in Alerts : NewAlert(a) \/ TellAlert(a)

NcsSpec == NcsInit /\ [][NcsNext]_ncsVars

------------------------------------------------------------------------------
NcsTypeOK ==
  /\ running \in BOOLEAN /\ net \in 0..MaxNets
  /\ roll \in Seq(Keys) /\ IsInjective(roll)
  /\ called \cup away \subseteq ToSet(roll)
  /\ calling \in Keys \cup {NoKey} /\ lines \in BOOLEAN
  /\ due \subseteq NetIds \X Files /\ unwritten \subseteq NetIds \X Files
  /\ overtaken \subseteq NetIds
  /\ filed \in [NetIds -> [Files -> SUBSET Keys]] /\ asEnded \in [NetIds -> SUBSET Keys]
  /\ hold \in BOOLEAN /\ breaking \subseteq Breaks /\ overlapped \in BOOLEAN
  /\ tx \in [Items -> {"none", "passed", "queued"}] /\ early \subseteq Items
  /\ poll \in {"off", "asking"} \cup Alerts /\ seenAlerts \subseteq Alerts
  /\ poll # "off" => running

\* Each file of a net shows the roster the net ended with, or could not be written, though
\* the tasks that write them read the roster of the plugin, which lives on: the exception is
\* a net whose roster changed in between, most of all by the start of the next.
FiledAsEnded ==
  \A n \in NetIds \ overtaken, f \in Files :
    asEnded[n] # {} => <<n, f>> \in due \cup unwritten \/ filed[n][f] = asEnded[n]

\* BREAK BREAK clears the queue and holds back for two seconds everything that goes through
\* _tx_enqueue (automatic IDs, beacons and previews do not): of that nothing is in the queue
\* meanwhile but what had passed the gate before, unless a second BREAK BREAK overlaps,
\* whose hold the first one lifts.
BreakHolds ==
  breaking # {} /\ ~overlapped => {i \in Authored : tx[i] = "queued"} \subseteq early

\* The two together, in which concurrent handlers meet.
NetControlKeeps == FiledAsEnded /\ BreakHolds
=============================================================================
