----------------------------- MODULE Positions ------------------------------
(***************************************************************************)
(* Positions heard from other stations: the plugins' PositionPoller        *)
(* (plugins/position_source.py), the store (positions/store.py) and        *)
(* _positions_pump of backend/server.py, which debounces broadcasts and    *)
(* writes.  A fix is known by the moment its station was heard at; of its  *)
(* coordinates only that they are not the last ones.                       *)
(***************************************************************************)
EXTENDS Integers, FiniteSets

CONSTANTS
  Heard,          \* stations, keyed by (source, node_id)
  Timed,          \* those whose source says when it heard them
  MaxStations,    \* MAX_ENTRIES
  MaxTracked,     \* MAX_TRACKED_NODES
  TTL,            \* position_ttl_minutes, in the model's ticks
  MaxNow          \* bound of the model: the ticks that pass

ASSUME PositionsAssumption ==
  /\ IsFiniteSet(Heard) /\ Timed \subseteq Heard
  /\ MaxStations \in Nat \ {0} /\ MaxTracked \in Nat \ {0}
  /\ TTL \in Nat \ {0} /\ MaxNow \in Nat

Unheard == -1
Moments == 0..MaxNow
Maps == [Heard -> Moments \cup {Unheard}]

VARIABLES
  now,
  records,        \* PositionStore._records: when each station was heard
  seen,           \* PositionPoller._last_seen
  dirty,          \* _positions_dirty: clients have not been told
  unsaved,        \* PositionStore._dirty: the file is behind
  pump,           \* where _positions_pump is suspended
  sent,           \* the positions message the clients were last sent
  snap,           \* the snapshot being written
  stored          \* positions.json

posVars == <<now, records, seen, dirty, unsaved, pump, sent, snap, stored>>

Nowhere == [s \in Heard |-> Unheard]
Stored(m) == {s \in Heard : m[s] # Unheard}
\* PositionStore.active
Live(m) == [s \in Heard |-> IF m[s] # Unheard /\ m[s] >= now - TTL THEN m[s] ELSE Unheard]

PosInit ==
  /\ now = 0
  /\ records = Nowhere /\ seen = Nowhere /\ sent = Nowhere
  /\ snap = Nowhere /\ stored = Nowhere
  /\ dirty = FALSE /\ unsaved = FALSE
  /\ pump = "asleep"

\* _enforce_cap: the stalest go, whichever they are when several are.
CapEnforced(m, result) ==
  \E out \in SUBSET Stored(m) :
    /\ Cardinality(Stored(m) \ out) =
         IF Cardinality(Stored(m)) > MaxStations THEN MaxStations ELSE Cardinality(Stored(m))
    /\ \A s \in out, t \in Stored(m) \ out : m[s] <= m[t]
    /\ result = [s \in Heard |-> IF s \in out THEN Unheard ELSE m[s]]

\* PositionPoller._remember: a new station in a full table takes the place of one
\* that was reported before it, whichever.
Remembered(s, at) ==
  IF seen[s] = Unheard /\ Cardinality(Stored(seen)) >= MaxTracked
  THEN \E t \in Stored(seen) : seen' = [seen EXCEPT ![s] = at, ![t] = Unheard]
  ELSE seen' = [seen EXCEPT ![s] = at]

\* PositionPoller.report: a station that has moved is always reported, and with a
\* source that says when it heard them, one that has not if it was heard since; the
\* clock of the source may be ahead, and the store takes that for now
\* (_resolve_heard_at).
HearTimed(s, at, moved) ==
  /\ s \in Timed /\ (moved \/ at > seen[s])
  /\ Remembered(s, at)
  /\ CapEnforced([records EXCEPT ![s] = IF at > now THEN now ELSE at], records')
  /\ dirty' = TRUE /\ unsaved' = TRUE
  /\ UNCHANGED <<now, pump, sent, snap, stored>>

\* One that has not moved, with a source that does not say, is limited to a report
\* in min_report_interval_s.
HearLive(s, moved) ==
  /\ s \notin Timed /\ (moved \/ seen[s] # now)
  /\ Remembered(s, now)
  /\ CapEnforced([records EXCEPT ![s] = now], records')
  /\ dirty' = TRUE /\ unsaved' = TRUE
  /\ UNCHANGED <<now, pump, sent, snap, stored>>

\* PositionPoller.stop: a plugin switched off and on forgets what it has seen.
PollerStops ==
  /\ seen' = Nowhere
  /\ UNCHANGED <<now, records, dirty, unsaved, pump, sent, snap, stored>>

\* purge_expired marks both flags when it drops anything.
Purged ==
  /\ records' = Live(records)
  /\ unsaved' = (unsaved \/ records' # records)
  /\ dirty' = FALSE
  /\ dirty \/ records' # records \/ Stored(records') # {}  \* else `continue`

\* The pump wakes: expired stations go; if there is news, or a refresh is due
\* and there is anything to show, the flag falls and the message is built.
PumpWakes ==
  /\ pump = "asleep"
  /\ Purged
  /\ pump' = "sending"
  /\ sent' = records'
  /\ UNCHANGED <<now, seen, snap, stored>>

\* mutant of PumpSent: the flag falls when the broadcast is over
PumpSentLate ==
  /\ pump = "sending"
  /\ dirty' = FALSE
  /\ IF unsaved
     THEN pump' = "writing" /\ snap' = records /\ unsaved' = FALSE
     ELSE pump' = "asleep" /\ UNCHANGED <<snap, unsaved>>
  /\ UNCHANGED <<now, records, seen, sent, stored>>

\* The broadcast is over: take_pending.
PumpSent ==
  /\ pump = "sending"
  /\ IF unsaved
     THEN pump' = "writing" /\ snap' = records /\ unsaved' = FALSE
     ELSE pump' = "asleep" /\ UNCHANGED <<snap, unsaved>>
  /\ UNCHANGED <<now, records, seen, dirty, sent, stored>>

\* PositionStore.write in its thread; a failure arms the flag again.
PumpWrote ==
  /\ pump = "writing"
  /\ pump' = "asleep"
  /\ \/ stored' = snap /\ UNCHANGED unsaved
     \/ unsaved' = TRUE /\ UNCHANGED stored
  /\ UNCHANGED <<now, records, seen, dirty, sent, snap>>

\* The server comes up again and clients that reconnect are sent what the file
\* held: as it was after a crash, flushed after a clean shutdown.
Reload(file) ==
  /\ records' = file /\ stored' = file
  /\ sent' = Live(file)
  /\ seen' = Nowhere
  /\ dirty' = FALSE /\ unsaved' = FALSE
  /\ pump' = "asleep"
  /\ UNCHANGED <<now, snap>>

Crash == Reload(stored)
\* What is unsaved is flushed.  A write under way in its thread is not waited for, and
\* may end after that.
Shutdown ==
  \/ Reload(IF unsaved THEN records ELSE stored)
  \/ pump = "writing" /\ Reload(snap)

Tick ==
  /\ now < MaxNow
  /\ now' = now + 1
  /\ UNCHANGED <<records, seen, dirty, unsaved, pump, sent, snap, stored>>

PosNext ==
  \/ \E s \in Heard, moved \in BOOLEAN :
       HearLive(s, moved) \/ \E at \in Moments : HearTimed(s, at, moved)
  \/ PollerStops \/ PumpWakes \/ PumpSent \/ PumpWrote
  \/ Crash \/ Shutdown \/ Tick

PosSpec == PosInit /\ [][PosNext]_posVars

------------------------------------------------------------------------------
PosTypeOK ==
  /\ now \in Moments
  /\ \A m \in {records, seen, sent, snap, stored} : m \in Maps
  /\ Cardinality(Stored(records)) <= MaxStations
  /\ dirty \in BOOLEAN /\ unsaved \in BOOLEAN
  /\ pump \in {"asleep", "sending", "writing"}

\* Each flag is given up before the work it stands for, so a report that comes
\* in during the broadcast or the write is not lost: with the pump asleep, no
\* flag up means that the clients show what the store holds, and that the file
\* does (_positions_pump, take_pending and write).
QuietMeansCurrent ==
  pump = "asleep" =>
    /\ dirty \/ Live(sent) = Live(records)
    /\ unsaved \/ stored = records
=============================================================================
