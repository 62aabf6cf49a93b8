-------------------------- MODULE NeighborhoodNet ---------------------------
(***************************************************************************)
(* The neighborhood net: the board of neighborhood/net.py (check-ins, the  *)
(* round-table and the current call), the neighborhood_* handlers of       *)
(* backend/server.py that change it, and the FCC look-ups a check-in       *)
(* starts.  A look-up is an asyncio task suspended in a worker thread, in  *)
(* a broadcast or in a geocoding request, while the board goes on.         *)
(***************************************************************************)
EXTENDS Naturals, SequencesExt

CONSTANTS
  Accounts,       \* stations keyed by user_id, whose profile may change
  RadioCalls,     \* callsigns a coordinator checks in off the air
  Calls,          \* callsigns
  None,
  MaxLookups      \* bound of the model: how many look-ups are ever started

ASSUME NetAssumption == /\ RadioCalls \subseteq Calls /\ Accounts \cap Calls = {}
                        /\ None \notin Accounts \cup Calls
                        /\ MaxLookups \in Nat

\* radio_station_key: here a radio station is known by its callsign.
Stations == Accounts \cup RadioCalls
Lookups == 1..MaxLookups

VARIABLES
  current,              \* current_call
  order,                \* keys of both stores in order of check-in (seq)
  row,                  \* the rows; fcc is the callsign the verdict is about
  table,                \* _checkin_fcc_tasks: the look-up of a station
  lookup, started,      \* the tasks, and how many were created
  cache,                \* _checkin_fcc_cache
  fixed, pins           \* callsigns with a real position, with a licence pin

board == <<current, order, row>>
tasks == <<table, lookup, started, cache>>
map == <<fixed, pins>>
nbrVars == <<board, tasks, map>>

NoRow == [status |-> "absent", called |-> FALSE, call |-> None, fcc |-> None]
NoLookup == [at |-> "none", key |-> None, call |-> None]
On(k) == row[k].status # "absent"

NbrInit ==
  /\ current = None
  /\ order = <<>> /\ row = [k \in Stations |-> NoRow]
  /\ table = [k \in Stations |-> 0]
  /\ lookup = [l \in Lookups |-> NoLookup] /\ started = 0
  /\ cache = {} /\ fixed = {} /\ pins = {}

------------------------------------------------------------------------------
(* Look-ups.  A cancelled task runs once more, to its finally clause.       *)

InFlight(l) == lookup[l].at \in {"asking", "placing"}

\* task.done(): a cancelled task is not done until it has cleaned up.
NotDone(l) == l # 0 /\ lookup[l].at # "none"

\* mutant of Cancelled: the superseded look-up goes on
CancelledNot(l) == lookup

Cancelled(l) == [lookup EXCEPT ![l].at = "cancelled"]

\* _schedule_checkin_fcc: nothing for a row without a callsign or for one that
\* is being looked up; a look-up of another callsign is cancelled; nothing is
\* started offline, unless the verdict is known.
Schedule(k, c) ==
  LET prior == table[k]
      same == NotDone(prior) /\ lookup[prior].call = c
      kept == IF NotDone(prior) THEN Cancelled(prior) ELSE lookup
      new == started + 1
  IN \/ /\ c = None \/ same
        /\ UNCHANGED tasks
     \/ /\ c # None /\ ~same /\ c \notin cache                       \* offline
        /\ lookup' = kept
        /\ UNCHANGED <<table, started, cache>>
     \/ /\ c # None /\ ~same /\ started < MaxLookups
        /\ started' = new
        /\ lookup' = [kept EXCEPT ![new] = [at |-> "asking", key |-> k, call |-> c]]
        /\ table' = [table EXCEPT ![k] = new]
        /\ UNCHANGED cache

\* mutant of TableWithout: the finally clause pops whatever it finds
TableWithoutKey(l) == [table EXCEPT ![lookup[l].key] = 0]

TableWithout(l) == IF table[lookup[l].key] = l THEN [table EXCEPT ![lookup[l].key] = 0] ELSE table

Over(l) == /\ lookup' = [lookup EXCEPT ![l] = NoLookup]
           /\ table' = TableWithout(l)

\* verify_callsign failed or was offline: no verdict, and nothing is cached.
NoVerdict(l) ==
  /\ lookup[l].at = "asking" /\ lookup[l].call \notin cache
  /\ Over(l)
  /\ UNCHANGED <<board, started, cache, map>>

\* A definitive verdict is cached and written to the row, if it is still there.
Verdict(l) ==
  /\ lookup[l].at = "asking"
  /\ LET k == lookup[l].key IN
       /\ cache' = cache \cup {lookup[l].call}
       /\ row' = IF On(k) THEN [row EXCEPT ![k].fcc = lookup[l].call] ELSE row
       /\ lookup' = [lookup EXCEPT ![l].at = "placing"]
  /\ UNCHANGED <<current, order, table, started, map>>

\* _pin_license_city, after the broadcast and the geocoding: no map_pin, no
\* licensed city, or a real fix, and there is no pin.
NotPlaced(l) ==
  /\ lookup[l].at = "placing"
  /\ Over(l)
  /\ UNCHANGED <<board, started, cache, map>>

\* mutant of Place: a fix that landed meanwhile is overlooked
PlaceBlindly(l) ==
  /\ lookup[l].at = "placing"
  /\ pins' = pins \cup {lookup[l].call}
  /\ Over(l)
  /\ UNCHANGED <<board, started, cache, fixed>>

\* A fix known before the geocoding or landed during it keeps the pin away.
Place(l) ==
  /\ lookup[l].at = "placing"
  /\ lookup[l].call \notin fixed
  /\ pins' = pins \cup {lookup[l].call}
  /\ Over(l)
  /\ UNCHANGED <<board, started, cache, fixed>>

CleanUp(l) ==
  /\ lookup[l].at = "cancelled"
  /\ Over(l)
  /\ UNCHANGED <<board, started, cache, map>>

\* A position with coordinates of its own arrives for a station.
Fix(c) ==
  /\ fixed' = fixed \cup {c}
  /\ UNCHANGED <<board, tasks, pins>>

------------------------------------------------------------------------------
(* The board. *)

\* mutant of CheckIn: a station that checks in again is listed again
CheckInAgain(k, c) ==
  /\ row' = [row EXCEPT ![k] = [NoRow EXCEPT !.status = "checked_in", !.call = c]]
  /\ order' = Append(order, k)
  /\ Schedule(k, c)
  /\ UNCHANGED <<current, map>>

\* checkin and checkin_radio: a row is made once and keeps its place, its turn
\* and its verdict when the station checks in again.
CheckIn(k, c) ==
  /\ IF On(k)
     THEN /\ row' = [row EXCEPT ![k].call = c]
          /\ UNCHANGED order
     ELSE /\ row' = [row EXCEPT ![k] = [NoRow EXCEPT !.status = "checked_in", !.call = c]]
          /\ order' = Append(order, k)
  /\ Schedule(k, c)
  /\ UNCHANGED <<current, map>>

Fresh == [k \in Stations |-> [row[k] EXCEPT !.called = FALSE]]

\* What starting a net has in common with call_reset; whether one is running is
\* asked by nothing on the board, and left out.
CallReset ==
  /\ current' = None /\ row' = Fresh
  /\ UNCHANGED <<order, tasks, map>>

\* mutant of Wiped: the current call is forgotten
WipedRowsOnly ==
  /\ order' = <<>> /\ row' = [k \in Stations |-> NoRow]
  /\ UNCHANGED <<current, tasks, map>>

\* The end of a net, and clear_checkins.
Wiped ==
  /\ current' = None
  /\ order' = <<>> /\ row' = [k \in Stations |-> NoRow]
  /\ UNCHANGED <<tasks, map>>

\* set_status: on standby and checked out are one, away.
SetStatus(k, s) ==
  /\ On(k)
  /\ row' = [row EXCEPT ![k].status = s]
  /\ UNCHANGED <<current, order, tasks, map>>

Waits(k) == row[k].status = "checked_in" /\ ~row[k].called

\* The first station of the round that waits for its turn.
IsNext(k) == \E i \in DOMAIN order : /\ order[i] = k /\ Waits(k)
                                     /\ \A j \in 1..(i - 1) : ~Waits(order[j])

Call(k) ==
  /\ current' = k
  /\ UNCHANGED <<order, tasks, map>>

CallNext ==
  \/ \E k \in Stations : /\ IsNext(k)
                         /\ row' = [row EXCEPT ![k].called = TRUE]
                         /\ Call(k)
  \/ /\ \A k \in Stations : ~IsNext(k)
     /\ Call(None)
     /\ UNCHANGED row

CallStation(k) ==
  /\ On(k)
  /\ row' = [row EXCEPT ![k].called = TRUE]
  /\ Call(k)

\* A station that could not be raised has had its turn (the no_answer flag
\* itself, which only the saved roster shows, is left out).
SetNoAnswer(k) ==
  /\ On(k)
  /\ row' = [row EXCEPT ![k].called = TRUE]
  /\ UNCHANGED <<current, order, tasks, map>>

TurnOf(k) == CHOOSE i \in DOMAIN order : order[i] = k

\* remove_station by a coordinator (radio), remove with an account.
RemoveStation(k) ==
  /\ On(k)
  /\ row' = [row EXCEPT ![k] = NoRow]
  /\ order' = RemoveAt(order, TurnOf(k))
  /\ current' = IF current = k THEN None ELSE current
  /\ UNCHANGED <<tasks, map>>

------------------------------------------------------------------------------
Board ==
  \/ \E u \in Accounts, c \in Calls \cup {None} : CheckIn(u, c)
  \/ \E c \in RadioCalls : CheckIn(c, c)
  \/ Wiped \/ CallReset \/ CallNext
  \/ \E k \in Stations : \/ \E s \in {"checked_in", "away"} : SetStatus(k, s)
                         \/ SetNoAnswer(k) \/ CallStation(k) \/ RemoveStation(k)

LookUp(l) == NoVerdict(l) \/ Verdict(l) \/ NotPlaced(l) \/ Place(l) \/ CleanUp(l)

NbrNext ==
  \/ Board
  \/ \E l \in Lookups : LookUp(l)
  \/ \E c \in Calls : Fix(c)

NbrSpec == NbrInit /\ [][NbrNext]_nbrVars

------------------------------------------------------------------------------
\* Types; and the order of the round lists each row of the board once.
NbrTypeOK ==
  /\ current \in Stations \cup {None}
  /\ order \in Seq(Stations) /\ IsInjective(order)
  /\ \A k \in Stations : On(k) <=> k \in ToSet(order)
  /\ row \in [Stations -> [status : {"absent", "checked_in", "away"},
                           called : BOOLEAN,
                           call : Calls \cup {None}, fcc : Calls \cup {None}]]
  /\ table \in [Stations -> {0} \cup Lookups]
  /\ lookup \in [Lookups -> [at : {"none", "asking", "placing", "cancelled"},
                             key : Stations \cup {None}, call : Calls \cup {None}]]
  /\ started \in 0..MaxLookups
  /\ cache \subseteq Calls /\ fixed \subseteq Calls /\ pins \subseteq Calls

\* current_call never dangles: it names a row of the board that has had its
\* turn, whoever ends, clears, resets or removes meanwhile (the comments of
\* remove and clear_checkins).
CurrentOnBoard == current # None => On(current) /\ row[current].called

\* A look-up in flight is the one its station is known to have: a later
\* check-in finds and cancels it, and a cancelled one evicts no successor.
OneLookup == \A l \in Lookups : InFlight(l) => table[lookup[l].key] = l

\* The two together: what the round of calls and the look-ups rely on.
BoardSound == CurrentOnBoard /\ OneLookup

\* A verdict is written to a row only while the row holds the callsign it is
\* about, or none: an account whose callsign was removed starts no look-up and
\* so cancels none, and the verdict of the old callsign lands on it.
\* And no licence pin is put on the map beside a real fix that was there first,
\* not even by a geocoding that began before the fix landed.
LookUpFits ==
  [][/\ \A k \in Stations : row'[k].fcc # row[k].fcc /\ row'[k].fcc # None
                              => row[k].call \in {row'[k].fcc, None}
     /\ pins' \ pins \subseteq Calls \ fixed]_nbrVars
=============================================================================
