----------------------------- MODULE NetsProofs -----------------------------
(***************************************************************************)
(* Proofs about the nets and the stores, for any set of stations and any   *)
(* bound: the neighborhood board and its look-ups (NeighborhoodNet), the   *)
(* journal of what is cleared (NetRecords), the called round of the net    *)
(* control plugin (NetControl), the positions told and written (Positions),*)
(* the settings of the running worker (Settings), and the registry and the *)
(* links of plugins (Plugins). At the end what the instance of all ten     *)
(* components (MCNets) checks of their types and of the receive side.      *)
(***************************************************************************)
EXTENDS MCNets, SoundProofs

-----------------------------------------------------------------------------
(* The neighborhood net. *)

RoundOK == /\ order \in Seq(Stations)
           /\ \A i, j \in 1..Len(order) : order[i] = order[j] => i = j
           /\ \A k \in Stations : On(k) <=> \E i \in 1..Len(order) : order[i] = k

BoardRows == [status : {"absent", "checked_in", "away"}, called : BOOLEAN,
              call : Calls \cup {None}, fcc : Calls \cup {None}]
RowsOK == row \in [Stations -> BoardRows] /\ current \in Stations \cup {None}
LookupRows == [at : {"none", "asking", "placing", "cancelled"},
               key : Stations \cup {None}, call : Calls \cup {None}]
TasksOK ==
  /\ table \in [Stations -> {0} \cup Lookups]
  /\ lookup \in [Lookups -> LookupRows]
  /\ started \in 0..MaxLookups
  /\ cache \subseteq Calls /\ fixed \subseteq Calls /\ pins \subseteq Calls

\* A task that is not over has a station and a callsign.
TasksNamed == \A l \in Lookups : lookup[l].at # "none" => lookup[l].key \in Stations /\ lookup[l].call \in Calls

\* A look-up in flight asks about the callsign its row holds, unless that was removed.
Agrees == \A l \in Lookups : LET k == lookup[l].key IN
            InFlight(l) /\ On(k) => row[k].call \in {lookup[l].call, None}

TaskInv == TasksOK /\ TasksNamed /\ OneLookup
NbrInv == RowsOK /\ TaskInv /\ CurrentOnBoard /\ Agrees

LEMMA NoneIsNobody == None \notin Stations /\ None \notin Calls
BY NetAssumption DEF Stations

LEMMA NoRowFits == NoRow \in BoardRows /\ NoRow.status = "absent" /\ NoRow.fcc = None
BY DEF NoRow, BoardRows

LEMMA NoLookupFits == NoLookup \in LookupRows /\ NoLookup.at = "none"
BY DEF NoLookup, LookupRows

LEMMA NbrInitial == NbrInit => NbrInv
<1> SUFFICES ASSUME NbrInit PROVE NbrInv
      OBVIOUS
<1>1. RowsOK
      BY NoRowFits DEF NbrInit, RowsOK
<1>2. TaskInv
      BY NoLookupFits, NetAssumption DEF NbrInit, TaskInv, TasksOK, TasksNamed, OneLookup, InFlight
<1>3. CurrentOnBoard /\ Agrees
      BY NoLookupFits DEF NbrInit, CurrentOnBoard, Agrees, InFlight
<1> QED BY <1>1, <1>2, <1>3 DEF NbrInv

\* Starting a look-up: the tasks stay in order, and afterwards every look-up in flight of
\* the station is about the callsign given, if there is one.
LEMMA ScheduleKeeps ==
  ASSUME TaskInv, NEW k \in Stations, NEW c \in Calls \cup {None}, Schedule(k, c), UNCHANGED map
  PROVE  /\ TaskInv'
         /\ \A l \in Lookups : InFlight(l)' =>
              \/ lookup'[l].key # k /\ InFlight(l) /\ lookup'[l] = lookup[l]
              \/ lookup'[l].key = k /\ c = None /\ InFlight(l) /\ lookup'[l] = lookup[l]
              \/ lookup'[l].key = k /\ lookup'[l].call = c
<1> DEFINE prior == table[k]
           same == NotDone(prior) /\ lookup[prior].call = c
           kept == IF NotDone(prior) THEN Cancelled(prior) ELSE lookup
           new == started + 1
<1> USE DEF TaskInv
<1>1. prior \in {0} \cup Lookups /\ (prior # 0 => prior \in Lookups)
      BY DEF TasksOK
<1>2. /\ kept \in [Lookups -> LookupRows]
      /\ \A l \in Lookups : /\ l = prior /\ NotDone(prior) => kept[l].at = "cancelled"
                            /\ ~(l = prior /\ NotDone(prior)) => kept[l] = lookup[l]
                            /\ kept[l].key = lookup[l].key /\ kept[l].call = lookup[l].call
                            /\ kept[l].at # "none" => lookup[l].at # "none"
  <2>1. CASE NotDone(prior)
    <3>1. prior \in Lookups
          BY <1>1, <2>1 DEF NotDone
    <3>2. kept = [lookup EXCEPT ![prior] = [lookup[prior] EXCEPT !.at = "cancelled"]]
          BY <2>1, <3>1 DEF Cancelled, TasksOK
    <3>3. lookup[prior] \in LookupRows /\ lookup[prior].at # "none"
          BY <2>1, <3>1 DEF TasksOK, NotDone
    <3> HIDE DEF kept, prior
    <3> QED BY <2>1, <3>1, <3>2, <3>3 DEF TasksOK, LookupRows
  <2>2. CASE ~NotDone(prior)
    <3>1. kept = lookup
          BY <2>2
    <3> HIDE DEF kept, prior
    <3> QED BY <2>2, <3>1 DEF TasksOK
  <2> QED BY <2>1, <2>2
<1>3. \A l \in Lookups : lookup[l].key = k /\ InFlight(l) => l = prior /\ NotDone(prior)
  <2>1. \A l \in Lookups : l # 0
        BY DEF Lookups
  <2> QED BY <2>1 DEF OneLookup, InFlight, NotDone
<1>4. CASE (c = None \/ same) /\ UNCHANGED tasks
  <2>1. lookup' = lookup /\ TaskInv'
        BY <1>4 DEF tasks, map, TasksOK, TasksNamed, OneLookup, InFlight
  <2>2. ASSUME same, NEW l \in Lookups, InFlight(l), lookup[l].key = k PROVE lookup[l].call = c
        BY <1>3, <2>2
  <2> QED BY <1>4, <2>1, <2>2 DEF InFlight
<1>5. CASE /\ c # None /\ ~same /\ c \notin cache
           /\ lookup' = kept
           /\ UNCHANGED <<table, started, cache>>
  <2> HIDE DEF kept, prior, same
  <2>1. TasksOK' /\ TasksNamed'
        BY <1>2, <1>5 DEF TasksOK, TasksNamed, map
  <2>2. \A l \in Lookups : InFlight(l)' => InFlight(l) /\ lookup'[l] = lookup[l] /\ lookup'[l].key # k
        BY <1>2, <1>3, <1>5 DEF InFlight
  <2>3. OneLookup'
        BY <1>5, <2>2 DEF OneLookup
  <2> QED BY <2>1, <2>2, <2>3
<1>6. CASE /\ c # None /\ ~same /\ started < MaxLookups
           /\ started' = new
           /\ lookup' = [kept EXCEPT ![new] = [at |-> "asking", key |-> k, call |-> c]]
           /\ table' = [table EXCEPT ![k] = new]
           /\ UNCHANGED cache
  <2>1. new \in Lookups /\ new \in 0..MaxLookups
        BY <1>6, NetAssumption DEF TasksOK, Lookups
  <2> DEFINE r == [at |-> "asking", key |-> k, call |-> c]
  <2>2. r \in LookupRows /\ r.key = k /\ r.call = c /\ c \in Calls
        BY <1>6 DEF LookupRows
  <2>3. lookup' = [kept EXCEPT ![new] = r]
        BY <1>6
  <2> HIDE DEF kept, prior, same, new, r
  <2>4. /\ lookup'[new] = r
        /\ \A l \in Lookups \ {new} : lookup'[l] = kept[l]
        /\ lookup' \in [Lookups -> LookupRows]
        BY <1>2, <2>1, <2>2, <2>3
  <2>5. table' \in [Stations -> {0} \cup Lookups] /\ table'[k] = new
        /\ \A j \in Stations \ {k} : table'[j] = table[j]
        BY <1>6, <2>1 DEF TasksOK
  <2>6. TasksOK'
        BY <1>6, <2>1, <2>4, <2>5 DEF TasksOK, map
  <2>7. TasksNamed'
        BY <1>2, <2>2, <2>4 DEF TasksNamed
  <2>8. \A l \in Lookups : InFlight(l)' => \/ l = new
                                           \/ InFlight(l) /\ lookup'[l] = lookup[l] /\ lookup'[l].key # k
        BY <1>2, <1>3, <2>4 DEF InFlight
  <2>9. OneLookup'
    <3>1. SUFFICES ASSUME NEW l \in Lookups, InFlight(l)' PROVE table'[lookup'[l].key] = l
          BY DEF OneLookup
    <3>2. CASE l = new
          BY <2>2, <2>4, <2>5, <3>2
    <3>3. CASE l # new
      <4>1. InFlight(l) /\ lookup'[l] = lookup[l] /\ lookup[l].key # k
            BY <2>8, <3>1, <3>3
      <4>2. lookup[l].key \in Stations
            BY <4>1 DEF TasksNamed, InFlight
      <4> QED BY <2>5, <4>1, <4>2 DEF OneLookup
    <3> QED BY <3>2, <3>3
  <2> QED BY <2>2, <2>4, <2>6, <2>7, <2>8, <2>9
<1> QED BY <1>4, <1>5, <1>6 DEF Schedule

\* A look-up that is over pops its own entry of the table and no other.
LEMMA OverKeeps ==
  ASSUME TaskInv, NEW l \in Lookups, lookup[l].at # "none", Over(l),
         started' = started, cache' = cache, fixed' = fixed, pins' \subseteq Calls
  PROVE  /\ TaskInv'
         /\ \A m \in Lookups : InFlight(m)' => InFlight(m) /\ lookup'[m] = lookup[m]
<1> USE DEF TaskInv
<1>1. lookup[l].key \in Stations
      BY DEF TasksNamed
<1>2. /\ lookup' = [lookup EXCEPT ![l] = NoLookup]
      /\ table' = IF table[lookup[l].key] = l THEN [table EXCEPT ![lookup[l].key] = 0] ELSE table
      BY DEF Over, TableWithout
<1>3. /\ lookup' \in [Lookups -> LookupRows] /\ lookup'[l].at = "none"
      /\ \A m \in Lookups \ {l} : lookup'[m] = lookup[m]
      BY <1>2, NoLookupFits DEF TasksOK
<1>4. /\ table' \in [Stations -> {0} \cup Lookups]
      /\ \A j \in Stations : table[j] # l => table'[j] = table[j]
      BY <1>1, <1>2 DEF TasksOK
<1>5. TasksOK' /\ TasksNamed'
      BY <1>3, <1>4 DEF TasksOK, TasksNamed
<1>6. \A m \in Lookups : InFlight(m)' => m # l /\ InFlight(m) /\ lookup'[m] = lookup[m]
      BY <1>3 DEF InFlight
<1>7. OneLookup'
      BY <1>4, <1>6 DEF OneLookup, TasksNamed, InFlight
<1> QED BY <1>5, <1>6, <1>7

LEMMA LookUpKeeps == ASSUME NbrInv, NEW l \in Lookups, LookUp(l) PROVE NbrInv'
<1> USE DEF NbrInv
<1>1. CASE Verdict(l)
  <2> DEFINE k == lookup[l].key
             r == [lookup[l] EXCEPT !.at = "placing"]
  <2>1. /\ lookup[l].at = "asking" /\ k \in Stations /\ lookup[l].call \in Calls
        /\ lookup[l] \in LookupRows
        BY <1>1 DEF Verdict, TaskInv, TasksOK, TasksNamed
  <2>2. lookup' = [lookup EXCEPT ![l] = r]
        BY <1>1 DEF Verdict, TaskInv, TasksOK
  <2>3. r \in LookupRows /\ r.key = lookup[l].key /\ r.call = lookup[l].call /\ r.at = "placing"
        BY <2>1 DEF LookupRows
  <2>4. /\ lookup' \in [Lookups -> LookupRows]
        /\ \A m \in Lookups : /\ lookup'[m].key = lookup[m].key /\ lookup'[m].call = lookup[m].call
                              /\ InFlight(m)' <=> InFlight(m)
                              /\ lookup'[m].at # "none" <=> lookup[m].at # "none"
    <3> HIDE DEF r, k
    <3> QED BY <2>1, <2>2, <2>3 DEF TaskInv, TasksOK, InFlight
  <2>5. UNCHANGED <<current, order, table, started, map>> /\ cache' = cache \cup {lookup[l].call}
        BY <1>1 DEF Verdict
  <2>6. TaskInv'
        BY <2>1, <2>4, <2>5 DEF TaskInv, TasksOK, TasksNamed, OneLookup, map
  <2>7. /\ row' \in [Stations -> BoardRows]
        /\ \A j \in Stations : /\ row'[j].status = row[j].status /\ row'[j].called = row[j].called
                               /\ row'[j].call = row[j].call
    <3>1. CASE On(k)
      <4>1. row' = [row EXCEPT ![k] = [row[k] EXCEPT !.fcc = lookup[l].call]]
            BY <1>1, <3>1, <2>1 DEF Verdict, RowsOK
      <4>2. row[k] \in BoardRows
            BY <2>1 DEF RowsOK
      <4> HIDE DEF k
      <4> QED BY <2>1, <4>1, <4>2 DEF RowsOK, BoardRows
    <3>2. CASE ~On(k)
          BY <1>1, <3>2 DEF Verdict, RowsOK
    <3> QED BY <3>1, <3>2
  <2>8. RowsOK' /\ CurrentOnBoard'
        BY <2>5, <2>7 DEF RowsOK, CurrentOnBoard, On
  <2>9. Agrees'
        BY <2>4, <2>7 DEF Agrees, On, TaskInv, TasksNamed, InFlight
  <2> QED BY <2>6, <2>8, <2>9
<1>2. CASE NoVerdict(l) \/ NotPlaced(l) \/ Place(l) \/ CleanUp(l)
  <2>1. /\ lookup[l].at # "none" /\ Over(l) /\ UNCHANGED <<board, started, cache, fixed>>
        /\ pins' \subseteq Calls
        BY <1>2 DEF NoVerdict, NotPlaced, Place, CleanUp, map, TaskInv, TasksOK, TasksNamed
  <2>2. /\ TaskInv'
        /\ \A m \in Lookups : InFlight(m)' => InFlight(m) /\ lookup'[m] = lookup[m]
        BY <2>1, OverKeeps
  <2> QED BY <2>1, <2>2 DEF board, RowsOK, CurrentOnBoard, Agrees, On
<1> QED BY <1>1, <1>2 DEF LookUp

LEMMA CheckInKeeps ==
  ASSUME NbrInv, NEW k \in Stations, NEW c \in Calls \cup {None}, CheckIn(k, c)
  PROVE  NbrInv'
<1> USE DEF NbrInv
<1>1. /\ TaskInv'
      /\ \A l \in Lookups : InFlight(l)' =>
           \/ lookup'[l].key # k /\ InFlight(l) /\ lookup'[l] = lookup[l]
           \/ lookup'[l].key = k /\ c = None /\ InFlight(l) /\ lookup'[l] = lookup[l]
           \/ lookup'[l].key = k /\ lookup'[l].call = c
      BY ScheduleKeeps DEF CheckIn
<1>2. PICK r \in BoardRows : /\ row' = [row EXCEPT ![k] = r]
                             /\ r.status # "absent" /\ r.call = c
                             /\ On(k) => r.called = row[k].called
  <2>1. row[k] \in BoardRows
        BY DEF RowsOK
  <2>2. CASE On(k)
    <3> DEFINE r == [row[k] EXCEPT !.call = c]
    <3>1. row' = [row EXCEPT ![k] = r]
          BY <2>2 DEF CheckIn, RowsOK
    <3>2. r \in BoardRows /\ r.status # "absent" /\ r.call = c /\ r.called = row[k].called
          BY <2>1, <2>2 DEF BoardRows, On
    <3> HIDE DEF r
    <3> QED BY <3>1, <3>2
  <2>3. CASE ~On(k)
    <3> DEFINE r == [NoRow EXCEPT !.status = "checked_in", !.call = c]
    <3>1. row' = [row EXCEPT ![k] = r]
          BY <2>3 DEF CheckIn
    <3>2. r \in BoardRows /\ r.status # "absent" /\ r.call = c
          BY NoRowFits DEF BoardRows, NoRow
    <3> HIDE DEF r
    <3> QED BY <2>3, <3>1, <3>2
  <2> QED BY <2>2, <2>3
<1>3. /\ row' \in [Stations -> BoardRows] /\ row'[k] = r
      /\ \A j \in Stations \ {k} : row'[j] = row[j]
      BY <1>2 DEF RowsOK
<1>4. current' = current
      BY DEF CheckIn
<1>5. RowsOK'
      BY <1>3, <1>4 DEF RowsOK
<1>6. CurrentOnBoard'
  <2>1. CASE current = k
        BY <1>2, <1>3, <1>4, <2>1, NoneIsNobody DEF CurrentOnBoard, On
  <2>2. CASE current # k
        BY <1>3, <1>4, <2>2 DEF CurrentOnBoard, On, RowsOK
  <2> QED BY <2>1, <2>2
<1>7. Agrees'
  <2> SUFFICES ASSUME NEW l \in Lookups, InFlight(l)', On(lookup[l].key)'
               PROVE  row'[lookup'[l].key].call \in {lookup'[l].call, None}
        BY DEF Agrees
  <2>1. lookup'[l].key \in Stations
        BY <1>1 DEF TaskInv, TasksNamed, InFlight
  <2>2. CASE lookup'[l].key # k
    <3>1. InFlight(l) /\ lookup'[l] = lookup[l] /\ row'[lookup[l].key] = row[lookup[l].key]
          BY <1>1, <1>3, <2>1, <2>2
    <3> QED BY <3>1 DEF Agrees, On
  <2>3. CASE lookup'[l].key = k
        BY <1>1, <1>2, <1>3, <2>3
  <2> QED BY <2>2, <2>3
<1> QED BY <1>1, <1>5, <1>6, <1>7

\* The steps of the board that leave callsigns and look-ups alone.
LEMMA QuietKeeps ==
  ASSUME NbrInv, UNCHANGED <<tasks, map>>, RowsOK',
         \A k \in Stations : On(k)' => On(k) /\ row'[k].call = row[k].call,
         CurrentOnBoard'
  PROVE  NbrInv'
<1>1. TaskInv'
      BY DEF NbrInv, TaskInv, TasksOK, TasksNamed, OneLookup, InFlight, tasks, map
<1>2. Agrees'
      BY DEF NbrInv, Agrees, InFlight, tasks, TaskInv, TasksNamed
<1> QED BY <1>1, <1>2 DEF NbrInv

LEMMA BoardKeeps == ASSUME NbrInv, Board PROVE NbrInv'
<1> USE DEF NbrInv
<1>0. /\ row \in [Stations -> BoardRows] /\ current \in Stations \cup {None}
      /\ \A k \in Stations : row[k] \in BoardRows
      BY DEF RowsOK
<1>1. CASE \/ \E u \in Accounts, c \in Calls \cup {None} : CheckIn(u, c)
           \/ \E c \in RadioCalls : CheckIn(c, c)
      BY <1>1, CheckInKeeps, NetAssumption DEF Stations
<1>2. CASE Wiped
  <2>1. RowsOK' /\ CurrentOnBoard' /\ \A k \in Stations : ~On(k)'
        BY <1>2, NoRowFits DEF Wiped, RowsOK, CurrentOnBoard, On
  <2> QED BY <1>2, <2>1, QuietKeeps DEF Wiped
<1>3. CASE CallReset
  <2>1. \A k \in Stations : /\ row'[k] = [row[k] EXCEPT !.called = FALSE]
        BY <1>3 DEF CallReset, Fresh
  <2>2. \A k \in Stations : /\ row'[k] \in BoardRows /\ row'[k].status = row[k].status
                            /\ row'[k].call = row[k].call
        BY <1>0, <2>1, ZenonT(60) DEF BoardRows
  <2>3. row' \in [Stations -> BoardRows] /\ current' = None
        BY <1>3, <2>2 DEF CallReset, Fresh
  <2> QED BY <1>3, <2>2, <2>3, QuietKeeps DEF CallReset, RowsOK, CurrentOnBoard, On
<1>4. ASSUME NEW k \in Stations, On(k), row' = [row EXCEPT ![k].called = TRUE],
             current' \in {current, k}, UNCHANGED <<tasks, map>>
      PROVE  NbrInv'
  <2> DEFINE r == [row[k] EXCEPT !.called = TRUE]
  <2>1. row' = [row EXCEPT ![k] = r]
        BY <1>0, <1>4
  <2>2. r \in BoardRows /\ r.status = row[k].status /\ r.call = row[k].call /\ r.called = TRUE
        BY <1>0 DEF BoardRows
  <2> HIDE DEF r
  <2>3. row' \in [Stations -> BoardRows] /\ row'[k] = r /\ \A j \in Stations \ {k} : row'[j] = row[j]
        BY <1>0, <2>1, <2>2
  <2>4. RowsOK'
        BY <1>0, <1>4, <2>3 DEF RowsOK
  <2>5. CurrentOnBoard'
        BY <1>0, <1>4, <2>2, <2>3 DEF CurrentOnBoard, On
  <2> QED BY <1>4, <2>2, <2>3, <2>4, <2>5, QuietKeeps DEF On
<1>5. CASE CallNext
  <2>1. CASE \A k \in Stations : ~IsNext(k) /\ Call(None) /\ UNCHANGED row
    <3>1. current' = None /\ row' = row /\ UNCHANGED <<tasks, map>>
          BY <1>5, <2>1 DEF CallNext, Call
    <3> QED BY <3>1, QuietKeeps DEF RowsOK, CurrentOnBoard, On
  <2>2. CASE (\A k \in Stations : ~IsNext(k)) /\ Call(None) /\ UNCHANGED row
        BY <2>2, QuietKeeps DEF Call, RowsOK, CurrentOnBoard, On
  <2>3. ASSUME NEW k \in Stations, IsNext(k), row' = [row EXCEPT ![k].called = TRUE], Call(k)
        PROVE  NbrInv'
    <3>1. On(k)
          BY <2>3 DEF IsNext, Waits, On
    <3> QED BY <1>4, <2>3, <3>1 DEF Call
  <2> QED BY <1>5, <2>2, <2>3 DEF CallNext
<1>6. ASSUME NEW k \in Stations, NEW s \in {"checked_in", "away"}, SetStatus(k, s) PROVE NbrInv'
  <2> DEFINE r == [row[k] EXCEPT !.status = s]
  <2>1. row' = [row EXCEPT ![k] = r]
        BY <1>0, <1>6 DEF SetStatus
  <2>2. r \in BoardRows /\ r.status # "absent" /\ r.call = row[k].call /\ r.called = row[k].called
        BY <1>0 DEF BoardRows
  <2> HIDE DEF r
  <2>3. row' \in [Stations -> BoardRows] /\ row'[k] = r /\ \A j \in Stations \ {k} : row'[j] = row[j]
        BY <1>0, <2>1, <2>2
  <2>4. On(k) /\ UNCHANGED <<current, tasks, map>>
        BY <1>6 DEF SetStatus
  <2>5. RowsOK' /\ CurrentOnBoard'
        BY <1>0, <2>2, <2>3, <2>4 DEF RowsOK, CurrentOnBoard, On
  <2> QED BY <2>2, <2>3, <2>4, <2>5, QuietKeeps DEF On
<1>7. ASSUME NEW k \in Stations, SetNoAnswer(k) \/ CallStation(k) PROVE NbrInv'
      BY <1>4, <1>7 DEF SetNoAnswer, CallStation, Call
<1>8. ASSUME NEW k \in Stations, RemoveStation(k) PROVE NbrInv'
  <2>1. row' \in [Stations -> BoardRows] /\ row'[k] = NoRow /\ \A j \in Stations \ {k} : row'[j] = row[j]
        BY <1>0, <1>8, NoRowFits DEF RemoveStation
  <2>2. current' = (IF current = k THEN None ELSE current) /\ UNCHANGED <<tasks, map>>
        BY <1>8 DEF RemoveStation
  <2>3. RowsOK' /\ CurrentOnBoard'
        BY <1>0, <2>1, <2>2 DEF RowsOK, CurrentOnBoard, On
  <2> QED BY <2>1, <2>2, <2>3, NoRowFits, QuietKeeps DEF On
<1> QED BY <1>1, <1>2, <1>3, <1>5, <1>6, <1>7, <1>8 DEF Board

LEMMA NbrInductive == NbrInv /\ [NbrNext]_nbrVars => NbrInv'
<1> SUFFICES ASSUME NbrInv, [NbrNext]_nbrVars PROVE NbrInv'
      OBVIOUS
<1>1. ASSUME NEW c \in Calls, Fix(c) PROVE NbrInv'
      BY <1>1 DEF Fix, board, tasks, NbrInv, RowsOK, TaskInv, TasksOK, TasksNamed, OneLookup,
                  InFlight, CurrentOnBoard, Agrees, On
<1>2. CASE UNCHANGED nbrVars
      BY <1>2 DEF nbrVars, board, tasks, map, NbrInv, RowsOK, TaskInv, TasksOK, TasksNamed,
                  OneLookup, InFlight, CurrentOnBoard, Agrees, On
<1> QED BY <1>1, <1>2, BoardKeeps, LookUpKeeps DEF NbrNext

------------------------------------------------------------------------------
(* The order of the round. *)

LEMMA RoundKept ==
  ASSUME RoundOK, order' = order, \A k \in Stations : On(k)' <=> On(k)
  PROVE  RoundOK'
BY DEF RoundOK

LEMMA RoundInductive == NbrInv /\ RoundOK /\ [NbrNext]_nbrVars => RoundOK'
<1> SUFFICES ASSUME NbrInv, RoundOK, [NbrNext]_nbrVars PROVE RoundOK'
      OBVIOUS
<1>0. /\ row \in [Stations -> BoardRows]
      /\ \A k \in Stations : row[k] \in BoardRows
      BY DEF NbrInv, RowsOK
<1>1. ASSUME NEW k \in Stations, NEW c, CheckIn(k, c) PROVE RoundOK'
  <2>1. CASE On(k)
    <3>1. order' = order /\ row' = [row EXCEPT ![k].call = c]
          BY <1>1, <2>1 DEF CheckIn
    <3>2. \A j \in Stations : row'[j].status = row[j].status
          BY <1>0, <3>1 DEF BoardRows
    <3> QED BY <3>1, <3>2, RoundKept DEF On
  <2>2. CASE ~On(k)
    <3>1. order' = Append(order, k)
          BY <1>1, <2>2 DEF CheckIn
    <3>2. On(k)' /\ \A j \in Stations \ {k} : On(j)' <=> On(j)
          BY <1>0, <1>1, <2>2 DEF CheckIn, On, NoRow
    <3>3. /\ Len(order) \in Nat /\ order' \in Seq(Stations) /\ Len(order') = Len(order) + 1
          /\ \A i \in 1..Len(order) : order'[i] = order[i]
          /\ order'[Len(order) + 1] = k
          BY <3>1 DEF RoundOK
    <3>4. \A i \in 1..Len(order) : order[i] # k
          BY <2>2 DEF RoundOK
    <3>5. \A i \in 1..Len(order') : i \in 1..Len(order) \/ i = Len(order) + 1
          BY <3>3
    <3>6. \A i, j \in 1..Len(order') : order'[i] = order'[j] => i = j
          BY <3>3, <3>4, <3>5 DEF RoundOK
    <3>7. Len(order) + 1 \in 1..Len(order') /\ \A i \in 1..Len(order) : i \in 1..Len(order')
          BY <3>3
    <3>8. \A j \in Stations : On(j)' <=> \E i \in 1..Len(order') : order'[i] = j
          BY <3>2, <3>3, <3>5, <3>7 DEF RoundOK
    <3> QED BY <3>3, <3>6, <3>8 DEF RoundOK
  <2> QED BY <2>1, <2>2
<1>2. CASE Wiped
  <2>1. order' = <<>> /\ \A k \in Stations : ~On(k)'
        BY <1>2, NoRowFits DEF Wiped, On
  <2> QED BY <2>1 DEF RoundOK
<1>3. ASSUME NEW k \in Stations, RemoveStation(k) PROVE RoundOK'
  <2> DEFINE t == TurnOf(k)
             n == Len(order)
  <2>1. t \in 1..n /\ order[t] = k /\ n \in Nat
        BY <1>3 DEF RemoveStation, RoundOK, TurnOf
  <2>2. order' = RemoveAt(order, t)
        BY <1>3 DEF RemoveStation
  <2>3. ~On(k)' /\ \A j \in Stations \ {k} : On(j)' <=> On(j)
        BY <1>0, <1>3, NoRowFits DEF RemoveStation, On
  <2> HIDE DEF t
  <2>4. /\ order' \in Seq(Stations) /\ Len(order') = n - 1
        /\ \A j \in 1..(n - 1) : order'[j] = IF j < t THEN order[j] ELSE order[j + 1]
    <3>1. order \in Seq(Stations)
          BY DEF RoundOK
    <3>2. t \in 1..Len(order)
          BY <2>1
    <3> QED BY <2>2, <3>1, <3>2, RemoveAtIs
  <2> HIDE DEF n
  <2>5. \A i, j \in 1..n : order[i] = order[j] => i = j
        BY DEF RoundOK, n
  <2>6. ASSUME NEW i \in 1..(n - 1), NEW j \in 1..(n - 1), order'[i] = order'[j] PROVE i = j
        BY <2>1, <2>4, <2>5, <2>6
  <2>7. ASSUME NEW i \in 1..(n - 1) PROVE order'[i] # k /\ \E j \in 1..n : order'[i] = order[j]
    <3>1. CASE i < t
          BY <2>1, <2>4, <2>5, <3>1
    <3>2. CASE ~(i < t)
      <4>1. i + 1 \in 1..n /\ i + 1 # t
            BY <2>1, <3>2
      <4> QED BY <2>1, <2>4, <2>5, <3>2, <4>1
    <3> QED BY <3>1, <3>2
  <2>8. ASSUME NEW j \in 1..n, j # t PROVE \E i \in 1..(n - 1) : order'[i] = order[j]
    <3>1. CASE j < t
          BY <2>1, <2>4, <3>1
    <3>2. CASE j > t
      <4>1. j - 1 \in 1..(n - 1) /\ ~(j - 1 < t) /\ (j - 1) + 1 = j
            BY <2>1, <3>2
      <4> QED BY <2>4, <4>1
    <3> QED BY <2>1, <2>8, <3>1, <3>2
  <2>9. \A j \in Stations : On(j) <=> \E i \in 1..n : order[i] = j
        BY DEF RoundOK, n
  <2>10. \A j \in Stations : On(j)' <=> \E i \in 1..(n - 1) : order'[i] = j
        BY <2>1, <2>3, <2>7, <2>8, <2>9
  <2> QED BY <2>4, <2>6, <2>10 DEF RoundOK
<1>4. ASSUME NEW k \in Stations, On(k), order' = order,
             row' = [row EXCEPT ![k].called = TRUE]
      PROVE  RoundOK'
  <2>1. \A j \in Stations : row'[j].status = row[j].status
        BY <1>0, <1>4 DEF BoardRows
  <2> QED BY <1>4, <2>1, RoundKept DEF On
<1>5. CASE CallReset
      BY <1>0, <1>5, RoundKept DEF CallReset, Fresh, On, BoardRows
<1>6. CASE CallNext
  <2>1. ASSUME NEW k \in Stations, IsNext(k), row' = [row EXCEPT ![k].called = TRUE], Call(k)
        PROVE  RoundOK'
        BY <1>4, <2>1 DEF IsNext, Waits, On, Call
  <2>2. CASE Call(None) /\ UNCHANGED row
        BY <2>2, RoundKept DEF Call, On
  <2> QED BY <1>6, <2>1, <2>2 DEF CallNext
<1>7. ASSUME NEW k \in Stations, SetNoAnswer(k) \/ CallStation(k) PROVE RoundOK'
      BY <1>4, <1>7 DEF SetNoAnswer, CallStation, Call
<1>8. ASSUME NEW k \in Stations, NEW s \in {"checked_in", "away"}, SetStatus(k, s) PROVE RoundOK'
  <2>1. \A j \in Stations : On(j)' <=> On(j)
        BY <1>0, <1>8 DEF SetStatus, BoardRows, On
  <2> QED BY <1>8, <2>1, RoundKept DEF SetStatus
<1>9. CASE Board
      BY <1>1, <1>2, <1>3, <1>5, <1>6, <1>7, <1>8, <1>9 DEF Board, Stations
<1>10. ASSUME NEW l \in Lookups, Verdict(l) PROVE RoundOK'
  <2>1. lookup[l].key \in Stations /\ order' = order
        BY <1>10 DEF Verdict, NbrInv, TaskInv, TasksNamed
  <2>2. \A j \in Stations : row'[j].status = row[j].status
        BY <1>0, <1>10, <2>1 DEF Verdict, BoardRows
  <2> QED BY <2>1, <2>2, RoundKept DEF On
<1>11. ASSUME UNCHANGED board PROVE RoundOK'
      BY <1>11, RoundKept DEF board, On
<1>12. ASSUME NEW l \in Lookups, LookUp(l) PROVE RoundOK'
      BY <1>10, <1>11, <1>12 DEF LookUp, NoVerdict, NotPlaced, Place, CleanUp
<1>13. ASSUME NEW c \in Calls, Fix(c) PROVE RoundOK'
      BY <1>11, <1>13 DEF Fix
<1> QED BY <1>9, <1>11, <1>12, <1>13 DEF NbrNext, nbrVars

\* The types of the board and its look-ups; and the order of the round lists each row of the
\* board exactly once, whoever checks in again, is called or removed.
THEOREM NbrRound == NbrSpec => []NbrTypeOK
<1>1. NbrInit => RoundOK
  <2>1. ASSUME NbrInit PROVE order = <<>> /\ \A k \in Stations : ~On(k)
        BY <2>1, NoRowFits DEF NbrInit, On
  <2> QED BY <2>1 DEF RoundOK
<1>2. ASSUME NbrInv, RoundOK PROVE NbrTypeOK
  <2>1. DOMAIN order = 1..Len(order)
        BY <1>2 DEF RoundOK
  <2>2. IsInjective(order) /\ \A k \in Stations : On(k) <=> k \in ToSet(order)
        BY <1>2, <2>1 DEF RoundOK, IsInjective, ToSet
  <2> QED BY <1>2, <2>2 DEF NbrTypeOK, NbrInv, RowsOK, TaskInv, TasksOK, BoardRows, LookupRows, RoundOK
<1> QED BY NbrInitial, NbrInductive, RoundInductive, <1>1, <1>2, PTL DEF NbrSpec

------------------------------------------------------------------------------
\* The current call always names a row of the board that has had its turn, and a look-up in
\* flight is the one its station is known to have, for any stations and any look-ups.
THEOREM NbrBoardSound == NbrSpec => []BoardSound
<1>1. NbrInv => BoardSound
      BY DEF NbrInv, TaskInv, BoardSound
<1> QED BY NbrInitial, NbrInductive, <1>1, PTL DEF NbrSpec

\* A verdict lands only on a row that holds the callsign it is about, or none; and no licence
\* pin is put beside a real fix.
THEOREM NbrLookUpFits == NbrSpec => LookUpFits
<1> DEFINE Fits == /\ \A k \in Stations : row'[k].fcc # row[k].fcc /\ row'[k].fcc # None
                              => row[k].call \in {row'[k].fcc, None}
                   /\ pins' \ pins \subseteq Calls \ fixed
<1>1. NbrInv /\ NbrNext => Fits
  <2> SUFFICES ASSUME NbrInv, NbrNext PROVE Fits
        OBVIOUS
  <2> USE DEF NbrInv
  <2>0. row \in [Stations -> BoardRows]
        BY DEF RowsOK
  <2>1. ASSUME NEW l \in Lookups, Verdict(l) PROVE Fits
    <3>1. lookup[l].key \in Stations /\ InFlight(l) /\ UNCHANGED map
          BY <2>1 DEF Verdict, TaskInv, TasksNamed, InFlight
    <3>2. CASE On(lookup[l].key)
      <4>1. row' = [row EXCEPT ![lookup[l].key].fcc = lookup[l].call]
            BY <2>1, <3>2 DEF Verdict
      <4>2. \A k \in Stations \ {lookup[l].key} : row'[k] = row[k]
            BY <2>0, <3>1, <4>1
      <4>3. row'[lookup[l].key].fcc = lookup[l].call
            BY <2>0, <3>1, <4>1 DEF BoardRows
      <4>4. row[lookup[l].key].call \in {lookup[l].call, None}
            BY <3>1, <3>2 DEF Agrees
      <4> QED BY <3>1, <4>2, <4>3, <4>4 DEF map
    <3>3. CASE ~On(lookup[l].key)
          BY <2>1, <3>1, <3>3 DEF Verdict, map
    <3> QED BY <3>2, <3>3
  <2>2. ASSUME NEW l \in Lookups, NoVerdict(l) \/ NotPlaced(l) \/ Place(l) \/ CleanUp(l) PROVE Fits
        BY <2>2 DEF NoVerdict, NotPlaced, Place, CleanUp, board, map, TaskInv, TasksNamed
  <2>3. ASSUME NEW c \in Calls, Fix(c) PROVE Fits
        BY <2>3 DEF Fix, board
  <2>4. ASSUME NEW k \in Stations, NEW c, CheckIn(k, c) PROVE Fits
    <3>1. UNCHANGED map /\ \A j \in Stations \ {k} : row'[j] = row[j]
          BY <2>0, <2>4 DEF CheckIn
    <3>2. row'[k].fcc \in {row[k].fcc, None}
          BY <2>0, <2>4, ZenonT(60) DEF CheckIn, NoRow, BoardRows
    <3> QED BY <3>1, <3>2 DEF map
  <2>5. CASE Wiped
        BY <2>5, NoRowFits DEF Wiped, map
  <2>6. CASE CallReset
        BY <2>0, <2>6 DEF CallReset, Fresh, map, BoardRows
  <2>7. ASSUME NEW k \in Stations, row' = [row EXCEPT ![k].called = TRUE], UNCHANGED map PROVE Fits
        BY <2>0, <2>7 DEF BoardRows, map
  <2>8. CASE CallNext
        BY <2>7, <2>8 DEF CallNext, Call, map
  <2>9. ASSUME NEW k \in Stations, SetNoAnswer(k) \/ CallStation(k) PROVE Fits
        BY <2>7, <2>9 DEF SetNoAnswer, CallStation, Call
  <2>10. ASSUME NEW k \in Stations, NEW s, SetStatus(k, s) PROVE Fits
        BY <2>0, <2>10 DEF SetStatus, BoardRows, map
  <2>11. ASSUME NEW k \in Stations, RemoveStation(k) PROVE Fits
        BY <2>0, <2>11, NoRowFits DEF RemoveStation, map
  <2>12. CASE Board
        BY <2>4, <2>5, <2>6, <2>8, <2>9, <2>10, <2>11, <2>12 DEF Board, Stations
  <2> QED BY <2>1, <2>2, <2>3, <2>12 DEF NbrNext, LookUp
<1>2. NbrInv /\ [NbrNext]_nbrVars => [Fits]_nbrVars
      BY <1>1
<1> QED BY NbrInitial, NbrInductive, <1>2, PTL DEF NbrSpec, LookUpFits

-----------------------------------------------------------------------------
(* Incidents and journals. *)

\* While a clear is suspended, what the log holds is in a journal or came in late.
ClearIsCovered == clearing # {} => ToSet(incidents) \subseteq journaled \cup late

RecInv ==
  /\ incidents \in Seq(Reports)
  /\ ClearIsCovered
  /\ ClearedRecordedUnlessLate

\* The log with a report in front, cut at its cap, holds nothing else.
LEMMA CappedHolds ==
  ASSUME NEW S, NEW s \in Seq(S), NEW e \in S, NEW n \in Nat
  PROVE  /\ Capped(<<e>> \o s, n) \in Seq(S)
         /\ Len(Capped(<<e>> \o s, n)) <= n
         /\ ToSet(Capped(<<e>> \o s, n)) \subseteq {e} \cup ToSet(s)
<1> DEFINE t == <<e>> \o s
           k == IF Len(t) < n THEN Len(t) ELSE n
<1>1. t \in Seq(S) /\ Len(t) = Len(s) + 1 /\ Len(s) \in Nat
      OBVIOUS
<1>2. \A i \in 1..Len(t) : t[i] = (IF i = 1 THEN e ELSE s[i - 1])
      OBVIOUS
<1>3. k \in 0..n /\ k <= Len(t)
      BY <1>1
<1>4. Capped(t, n) = SubSeq(t, 1, k)
      BY DEF Capped
<1> HIDE DEF t, k
<1>5. SubSeq(t, 1, k) \in Seq(S) /\ Len(SubSeq(t, 1, k)) = k
      BY <1>1, <1>3
<1>6. \A i \in 1..k : SubSeq(t, 1, k)[i] = t[i]
      BY <1>1, <1>3
<1>7. ASSUME NEW x \in ToSet(Capped(t, n)) PROVE x \in {e} \cup ToSet(s)
  <2>1. PICK i \in 1..k : x = t[i]
        BY <1>3, <1>4, <1>5, <1>6 DEF ToSet
  <2>2. CASE i = 1
        BY <1>1, <1>2, <1>3, <2>1, <2>2
  <2>3. CASE i # 1
    <3>1. i - 1 \in 1..Len(s)
          BY <1>1, <1>3, <2>3
    <3>2. x = s[i - 1]
          BY <1>1, <1>2, <1>3, <2>1, <2>3
    <3>3. DOMAIN s = 1..Len(s)
          OBVIOUS
    <3> QED BY <3>1, <3>2, <3>3 DEF ToSet
  <2> QED BY <2>2, <2>3
<1>8. Len(Capped(t, n)) <= n
      BY <1>3, <1>4, <1>5
<1>9. Capped(t, n) \in Seq(S) /\ ToSet(Capped(t, n)) \subseteq {e} \cup ToSet(s)
      BY <1>4, <1>5, <1>7
<1> QED BY <1>8, <1>9 DEF t

\* Every report that was wiped from the log is in a journal, or came in while a clear was
\* suspended, for any number of admins who clear at once and any cap on the log.
THEOREM ClearedRecorded == RecSpec => []ClearedRecordedUnlessLate
<1>1. RecInit => RecInv
      BY DEF RecInit, RecInv, ClearIsCovered, ClearedRecordedUnlessLate
<1>2. RecInv /\ [RecNext]_recVars => RecInv'
  <2> SUFFICES ASSUME RecInv, [RecNext]_recVars PROVE RecInv'
        OBVIOUS
  <2> USE DEF RecInv, ClearIsCovered, ClearedRecordedUnlessLate
  <2>1. CASE NextSecond
        BY <2>1 DEF NextSecond, disk, history
  <2>2. CASE Restart
        BY <2>2 DEF Restart, disk, history
  <2>3. ASSUME NEW r \in Reports, Report(r) PROVE RecInv'
    <3>1. /\ incidents' \in Seq(Reports)
          /\ ToSet(incidents') \subseteq {r} \cup ToSet(incidents)
          BY <2>3, CappedHolds, RecordsAssumption DEF Report
    <3> QED BY <2>3, <3>1 DEF Report
  <2>4. ASSUME NEW a \in Admins, BeginClear(a) PROVE RecInv'
        BY <2>4 DEF BeginClear, SaveJournal
  <2>5. ASSUME NEW a \in Admins, FinishClear(a) PROVE RecInv'
    <3>1. ToSet(<<>>) = {} /\ <<>> \in Seq(Reports)
          BY DEF ToSet
    <3> QED BY <2>5, <3>1 DEF FinishClear, disk
  <2>6. ASSUME NEW n \in Nets, EndOfNet(n) \/ FileNetJournal(n) \/ FileSession(n) PROVE RecInv'
        BY <2>6 DEF EndOfNet, FileNetJournal, FileSession, SaveJournal, disk, history
  <2>7. ASSUME NEW t \in Names, DeleteJournal(t) \/ Publish(t) \/ Unpublish(t) PROVE RecInv'
        BY <2>7 DEF DeleteJournal, Publish, Unpublish, Rewrite, history
  <2>8. CASE UNCHANGED recVars
        BY <2>8 DEF recVars, disk, history
  <2> QED BY <2>1, <2>2, <2>3, <2>4, <2>5, <2>6, <2>7, <2>8 DEF RecNext
<1>3. RecInv => ClearedRecordedUnlessLate
      BY DEF RecInv
<1> QED BY <1>1, <1>2, <1>3, PTL DEF RecSpec

\* What publishing and withdrawing make of the manifest.
LEMMA OthersFit ==
  ASSUME manifest \in Seq(Names), Len(manifest) <= MaxPublished, NEW t
  PROVE  Others(t) \in Seq(Names) /\ Len(Others(t)) <= MaxPublished
<1> DEFINE P == {k \in DOMAIN manifest : manifest[k] # t}
           o == Kept(manifest, P)
<1>1. Others(t) = o
      BY DEF Others
<1> HIDE DEF P
<1>2. o \in Seq(Names) /\ LeftOf(o, manifest, P, Len(manifest))
      BY KeptIs
<1> HIDE DEF o
<1>3. Len(o) <= Len(manifest) /\ Len(o) \in Nat /\ Len(manifest) \in Nat /\ MaxPublished \in Nat
      BY <1>2, RecordsAssumption DEF LeftOf
<1> QED BY <1>1, <1>2, <1>3

LEMMA JournalTyped ==
  ASSUME RecTypeOK, NEW what \in Contents, SaveJournal(what)
  PROVE  /\ journals' \in [Names -> Contents \cup {{}}] /\ journaled' \subseteq Reports \cup Nets
         /\ UNCHANGED <<sessions, manifest, page>>
<1>1. what \subseteq Reports \cup Nets
      BY DEF Contents
<1> QED BY <1>1, Zenon DEF SaveJournal, RecTypeOK

LEMMA RecStepTyped ==
  ASSUME RecTypeOK, [RecNext]_recVars
  PROVE  RecTypeOK'
<1>0. /\ MaxSecond \in Nat /\ MaxIncidents \in Nat \ {0} /\ MaxPublished \in Nat \ {0}
      /\ incidents \in Seq(Reports) /\ Len(incidents) <= MaxIncidents
      /\ manifest \in Seq(Names) /\ Len(manifest) <= MaxPublished
      /\ page \in Seq(Names) /\ Len(page) <= MaxPublished
      BY RecordsAssumption DEF RecTypeOK
<1>1. CASE NextSecond
  <2>1. second' \in Names
        BY <1>0, <1>1 DEF NextSecond, RecTypeOK, Names
  <2> QED BY <1>1, <2>1 DEF NextSecond, disk, history, RecTypeOK
<1>2. CASE Restart
  <2>1. ending' \in [Nets -> {"running", "ended", "journaled", "filed", "unfiled"}]
        BY <1>2 DEF Restart, RecTypeOK
  <2>2. clearing' = {} /\ UNCHANGED <<second, incidents, journals, sessions, manifest, page>>
        /\ UNCHANGED <<reported, cleared, journaled, late, torn>>
        BY <1>2 DEF Restart, disk, history
  <2> QED BY <2>1, <2>2 DEF RecTypeOK
<1>3. ASSUME NEW r \in Reports, Report(r) PROVE RecTypeOK'
  <2>1. incidents' = Capped(<<r>> \o incidents, MaxIncidents)
        BY <1>3 DEF Report
  <2>2. incidents' \in Seq(Reports) /\ Len(incidents') <= MaxIncidents
        BY <1>0, <2>1, CappedHolds
  <2>3. /\ reported' = reported \cup {r} /\ late' \subseteq late \cup {r} /\ cleared' = cleared
        /\ UNCHANGED <<second, clearing, journals, sessions, manifest, page, ending, journaled, torn>>
        BY <1>3 DEF Report, disk
  <2> QED BY <2>2, <2>3 DEF RecTypeOK
<1>4. ASSUME NEW a \in Admins, BeginClear(a) PROVE RecTypeOK'
  <2>1. ToSet(incidents) \in Contents
    <3>1. DOMAIN incidents = 1..Len(incidents) /\ Len(incidents) \in Nat /\ incidents # <<>>
          BY <1>0, <1>4 DEF BeginClear
    <3>2. 1 \in DOMAIN incidents
          BY <1>0, <3>1
    <3>3. incidents[1] \in ToSet(incidents)
          BY <3>2 DEF ToSet
    <3>4. ToSet(incidents) \subseteq Reports
          BY <1>0 DEF ToSet
    <3> QED BY <3>3, <3>4 DEF Contents
  <2>2. /\ journals' \in [Names -> Contents \cup {{}}] /\ journaled' \subseteq Reports \cup Nets
        /\ UNCHANGED <<sessions, manifest, page>>
        BY <1>4, <2>1, JournalTyped DEF BeginClear
  <2>3. clearing' = clearing \cup {a} /\ UNCHANGED <<second, incidents, ending, reported, cleared, late, torn>>
        BY <1>4 DEF BeginClear
  <2> QED BY <2>2, <2>3 DEF RecTypeOK
<1>5. ASSUME NEW a \in Admins, FinishClear(a) PROVE RecTypeOK'
  <2>1. ToSet(incidents) \subseteq Reports
        BY <1>0 DEF ToSet
  <2>2. /\ clearing' = clearing \ {a} /\ cleared' = cleared \cup ToSet(incidents) /\ incidents' = <<>>
        /\ UNCHANGED <<second, journals, sessions, manifest, page, ending, reported, journaled, late, torn>>
        BY <1>5 DEF FinishClear, disk
  <2>3. incidents' \in Seq(Reports) /\ Len(incidents') <= MaxIncidents
        BY <1>0, <2>2
  <2> QED BY <2>1, <2>2, <2>3 DEF RecTypeOK
<1>6. ASSUME NEW n \in Nets, EndOfNet(n) PROVE RecTypeOK'
  <2>1. ending' \in [Nets -> {"running", "ended", "journaled", "filed", "unfiled"}]
        BY <1>6 DEF EndOfNet, RecTypeOK
  <2> QED BY <1>6, <2>1 DEF EndOfNet, disk, history, RecTypeOK
<1>7. ASSUME NEW n \in Nets, FileNetJournal(n) PROVE RecTypeOK'
  <2>1. ending' \in [Nets -> {"running", "ended", "journaled", "filed", "unfiled"}]
        BY <1>7 DEF FileNetJournal, RecTypeOK
  <2>2. {n} \in Contents
        BY DEF Contents
  <2>3. /\ journals' \in [Names -> Contents \cup {{}}] /\ journaled' \subseteq Reports \cup Nets
        /\ UNCHANGED <<sessions, manifest, page>>
    <3>1. CASE SaveJournal({n})
          BY <2>2, <3>1, JournalTyped
    <3>2. CASE UNCHANGED <<disk, journaled>>
          BY <3>2 DEF disk, RecTypeOK
    <3> QED BY <1>7, <3>1, <3>2 DEF FileNetJournal
  <2>4. UNCHANGED <<second, incidents, clearing, reported, cleared, late, torn>>
        BY <1>7 DEF FileNetJournal
  <2> QED BY <2>1, <2>3, <2>4 DEF RecTypeOK
<1>8. ASSUME NEW n \in Nets, FileSession(n) PROVE RecTypeOK'
  <2>1. ending' \in [Nets -> {"running", "ended", "journaled", "filed", "unfiled"}]
        BY <1>8 DEF FileSession, RecTypeOK
  <2>2. sessions' \in [Names -> {{m} : m \in Nets} \cup {{}}]
        BY <1>8, ZenonT(60) DEF FileSession, RecTypeOK
  <2>3. /\ UNCHANGED <<second, incidents, clearing, journals, manifest, page, torn>>
        /\ UNCHANGED <<reported, cleared, journaled, late>>
        BY <1>8 DEF FileSession, history
  <2> QED BY <2>1, <2>2, <2>3 DEF RecTypeOK
<1>9. ASSUME NEW t \in Names, DeleteJournal(t) PROVE RecTypeOK'
  <2>1. journals' \in [Names -> Contents \cup {{}}]
        BY <1>9 DEF DeleteJournal, RecTypeOK
  <2> QED BY <1>9, <2>1 DEF DeleteJournal, history, RecTypeOK
<1>10. ASSUME NEW e \in Seq(Names), Len(e) <= MaxPublished, Rewrite(e) PROVE RecTypeOK'
  <2>1. manifest' = e /\ page' \in {e, page} /\ torn' \in BOOLEAN
        BY <1>10 DEF Rewrite
  <2>2. \A s \in {manifest', page'} : s \in Seq(Names) /\ Len(s) <= MaxPublished
        BY <1>0, <1>10, <2>1
  <2> QED BY <1>10, <2>1, <2>2 DEF Rewrite, history, RecTypeOK
<1>11. ASSUME NEW t \in Names, Publish(t) \/ Unpublish(t) PROVE RecTypeOK'
  <2>1. CASE Publish(t)
    <3>1. Capped(<<t>> \o manifest, MaxPublished) \in Seq(Names)
          /\ Len(Capped(<<t>> \o manifest, MaxPublished)) <= MaxPublished
          BY <1>0, CappedHolds
    <3> QED BY <1>10, <2>1, <3>1 DEF Publish
  <2>2. CASE Unpublish(t)
        BY <1>0, <1>10, <2>2, OthersFit DEF Unpublish
  <2> QED BY <1>11, <2>1, <2>2
<1>12. CASE UNCHANGED recVars
      BY <1>12 DEF recVars, disk, history, RecTypeOK
<1> QED BY <1>1, <1>2, <1>3, <1>4, <1>5, <1>6, <1>7, <1>8, <1>9, <1>11, <1>12 DEF RecNext

LEMMA RecInitTyped == RecInit => RecTypeOK
<1> SUFFICES ASSUME RecInit PROVE RecTypeOK
      OBVIOUS
<1>1. second = 0 /\ 0 \in Names
      BY RecordsAssumption DEF RecInit, Names
<1>2. /\ incidents = <<>> /\ manifest = <<>> /\ page = <<>> /\ clearing = {}
      /\ reported = {} /\ cleared = {} /\ journaled = {} /\ late = {} /\ torn = FALSE
      BY DEF RecInit
<1>3. <<>> \in Seq(Reports) /\ <<>> \in Seq(Names) /\ Len(<<>>) = 0
      OBVIOUS
<1>4. /\ journals \in [Names -> Contents \cup {{}}]
      /\ sessions \in [Names -> {{n} : n \in Nets} \cup {{}}]
      /\ ending \in [Nets -> {"running", "ended", "journaled", "filed", "unfiled"}]
      BY DEF RecInit
<1>5. Len(incidents) <= MaxIncidents /\ \A s \in {manifest, page} : s \in Seq(Names) /\ Len(s) <= MaxPublished
      BY <1>2, <1>3, RecordsAssumption
<1>6. torn \in BOOLEAN
      BY <1>2, Zenon
<1> QED BY <1>1, <1>2, <1>3, <1>4, <1>5, <1>6 DEF RecTypeOK

\* The log, the journals, the sessions and the published page keep their types and their caps.
THEOREM RecTyped == RecSpec => []RecTypeOK
<1> QED BY RecInitTyped, RecStepTyped, PTL DEF RecSpec

-----------------------------------------------------------------------------
(* Net control. *)

LEMMA RemoveOneOf ==
  ASSUME NEW S, NEW s \in Seq(S), IsInjective(s), NEW i \in 1..Len(s)
  PROVE  /\ RemoveAt(s, i) \in Seq(S) /\ IsInjective(RemoveAt(s, i))
         /\ ToSet(RemoveAt(s, i)) = ToSet(s) \ {s[i]}
<1> DEFINE n == Len(s)
           t == RemoveAt(s, i)
<1>0. n \in Nat /\ DOMAIN s = 1..n
      OBVIOUS
<1>1. /\ t \in Seq(S) /\ Len(t) = n - 1
      /\ \A j \in 1..(n - 1) : t[j] = IF j < i THEN s[j] ELSE s[j + 1]
      BY RemoveAtIs
<1> HIDE DEF t
<1>2. DOMAIN t = 1..(n - 1)
      BY <1>1
<1> HIDE DEF n
<1>3. i \in 1..n /\ \A j, k \in 1..n : s[j] = s[k] => j = k
      BY <1>0 DEF IsInjective, n
<1>9. \A j \in 1..(n - 1) : \E m \in 1..n : t[j] = s[m] /\ m # i /\ m = IF j < i THEN j ELSE j + 1
      BY <1>0, <1>1, <1>3
<1>4. ASSUME NEW j \in 1..(n - 1), NEW k \in 1..(n - 1), t[j] = t[k] PROVE j = k
  <2>1. PICK l \in 1..n : t[j] = s[l] /\ l = IF j < i THEN j ELSE j + 1
        BY <1>9
  <2>2. PICK m \in 1..n : t[k] = s[m] /\ m = IF k < i THEN k ELSE k + 1
        BY <1>9
  <2>3. l = m
        BY <1>3, <1>4, <2>1, <2>2
  <2> QED BY <1>0, <1>3, <2>1, <2>2, <2>3
<1>5. ASSUME NEW j \in 1..(n - 1) PROVE t[j] # s[i] /\ \E k \in 1..n : t[j] = s[k]
      BY <1>3, <1>9
<1>6. ASSUME NEW k \in 1..n, k # i PROVE \E j \in 1..(n - 1) : t[j] = s[k]
  <2>1. CASE k < i
        BY <1>0, <1>1, <1>3, <2>1, SMTT(60)
  <2>2. CASE k > i
    <3>1. k - 1 \in 1..(n - 1) /\ ~(k - 1 < i) /\ (k - 1) + 1 = k
          BY <1>0, <1>3, <2>2
    <3> QED BY <1>1, <3>1
  <2> QED BY <1>0, <1>3, <1>6, <2>1, <2>2
<1>7. ToSet(t) = ToSet(s) \ {s[i]}
  <2>1. ToSet(t) = {t[j] : j \in 1..(n - 1)} /\ ToSet(s) = {s[k] : k \in 1..n}
        BY <1>0, <1>2 DEF ToSet
  <2>2. ASSUME NEW x \in ToSet(t) PROVE x \in ToSet(s) \ {s[i]}
        BY <1>5, <2>1, <2>2
  <2>3. ASSUME NEW x \in ToSet(s) \ {s[i]} PROVE x \in ToSet(t)
        BY <1>6, <2>1, <2>3
  <2> QED BY <2>2, <2>3
<1>8. IsInjective(t)
      BY <1>2, <1>4 DEF IsInjective
<1> QED BY <1>1, <1>7, <1>8 DEF t

LEMMA AppendOneTo ==
  ASSUME NEW S, NEW s \in Seq(S), IsInjective(s), NEW e \in S, e \notin ToSet(s)
  PROVE  /\ Append(s, e) \in Seq(S) /\ IsInjective(Append(s, e))
         /\ ToSet(Append(s, e)) = ToSet(s) \cup {e}
<1> DEFINE n == Len(s)
           t == Append(s, e)
<1>1. /\ n \in Nat /\ t \in Seq(S) /\ Len(t) = n + 1 /\ DOMAIN s = 1..n /\ DOMAIN t = 1..(n + 1)
      /\ t[n + 1] = e /\ \A i \in 1..n : t[i] = s[i]
      OBVIOUS
<1> HIDE DEF n, t
<1>2. \A i \in 1..(n + 1) : i \in 1..n \/ i = n + 1
      BY <1>1
<1>3. n + 1 \in 1..(n + 1) /\ \A i \in 1..n : i \in 1..(n + 1)
      BY <1>1
<1>4. \A i \in 1..n : s[i] # e
      BY <1>1 DEF ToSet
<1>5. IsInjective(t)
      BY <1>1, <1>2, <1>4 DEF IsInjective
<1>6. ToSet(t) = ToSet(s) \cup {e}
  <2>1. ToSet(t) = {t[j] : j \in 1..(n + 1)} /\ ToSet(s) = {s[k] : k \in 1..n}
        BY <1>1 DEF ToSet
  <2>2. ASSUME NEW x \in ToSet(t) PROVE x \in ToSet(s) \cup {e}
        BY <1>1, <1>2, <2>1
  <2>3. ASSUME NEW x \in ToSet(s) \cup {e} PROVE x \in ToSet(t)
        BY <1>1, <1>3, <2>1
  <2> QED BY <2>2, <2>3
<1> QED BY <1>1, <1>5, <1>6 DEF t

LEMMA EmptyRound == \A S : <<>> \in Seq(S) /\ IsInjective(<<>>) /\ ToSet(<<>>) = {}
BY DEF IsInjective, ToSet

------------------------------------------------------------------------------
RollOK == /\ roll \in Seq(Keys) /\ IsInjective(roll)
          /\ called \cup away \subseteq ToSet(roll)
          /\ calling \in Keys \cup {NoKey} /\ lines \in BOOLEAN

FilesOK == /\ running \in BOOLEAN /\ net \in 0..MaxNets /\ (running => net \in NetIds)
           /\ due \subseteq NetIds \X Files /\ unwritten \subseteq NetIds \X Files
           /\ overtaken \subseteq NetIds
           /\ filed \in [NetIds -> [Files -> SUBSET Keys]] /\ asEnded \in [NetIds -> SUBSET Keys]

TxOK == /\ hold \in BOOLEAN /\ breaking \subseteq Breaks /\ overlapped \in BOOLEAN
        /\ tx \in [Items -> {"none", "passed", "queued"}] /\ early \subseteq Items

NwsOK == /\ poll \in {"off", "asking"} \cup Alerts /\ seenAlerts \subseteq Alerts
         /\ poll # "off" => running

\* A net whose files are yet to be written, and that nobody overtook, is still the roster.
DueIsRoll == \A n \in NetIds \ overtaken, f \in Files : <<n, f>> \in due => ToSet(roll) = asEnded[n]

\* In a break that overlaps no other the gate is shut, and what is under way through it
\* passed before.
GateShut == breaking # {} /\ ~overlapped =>
              hold /\ \A i \in Authored : tx[i] # "none" => i \in early

NcsInv == RollOK /\ FilesOK /\ TxOK /\ NwsOK /\ FiledAsEnded /\ DueIsRoll /\ GateShut

LEMMA NcsInitial == NcsInit => NcsInv
<1> SUFFICES ASSUME NcsInit PROVE NcsInv
      OBVIOUS
<1> USE NcsAssumption DEF NcsInit
<1>1. RollOK
      BY EmptyRound DEF RollOK
<1>2. FilesOK
  <2>1. running = FALSE /\ net \in 0..MaxNets
        OBVIOUS
  <2>2. /\ due = {} /\ unwritten = {} /\ overtaken = {}
        /\ filed \in [NetIds -> [Files -> SUBSET Keys]] /\ asEnded \in [NetIds -> SUBSET Keys]
        OBVIOUS
  <2> QED BY <2>1, <2>2 DEF FilesOK
<1>3. TxOK /\ NwsOK
      BY DEF TxOK, NwsOK
<1>4. FiledAsEnded /\ DueIsRoll /\ GateShut
      BY DEF FiledAsEnded, DueIsRoll, GateShut
<1> QED BY <1>1, <1>2, <1>3, <1>4 DEF NcsInv

\* What is given to the queue is held back in a break.
LEMMA EnqueueKeeps ==
  ASSUME NcsInv, NEW i \in Items, Enqueue(i), UNCHANGED brk
  PROVE  TxOK' /\ GateShut'
<1>1. CASE hold
  <2>1. tx' = tx
        BY <1>1 DEF Enqueue
  <2> QED BY <2>1 DEF NcsInv, TxOK, GateShut, brk
<1>2. CASE ~hold
  <2>1. tx' = [tx EXCEPT ![i] = "passed"]
        BY <1>2 DEF Enqueue
  <2>2. TxOK'
        BY <2>1 DEF NcsInv, TxOK, brk
  <2>3. ~(breaking # {} /\ ~overlapped)
        BY <1>2 DEF NcsInv, GateShut
  <2> QED BY <2>2, <2>3 DEF GateShut, brk
<1> QED BY <1>1, <1>2

LEMMA TransmissionsKeep ==
  ASSUME NcsInv, \/ ReadScript
                 \/ \E i \in Items : Put(i) \/ Air(i)
                 \/ \E i \in Direct : PutDirect(i)
                 \/ DecideBeacon
                 \/ \E b \in Breaks : BreakBreak(b) \/ BreakOver(b)
  PROVE  NcsInv'
<1> USE DEF NcsInv
<1>1. /\ UNCHANGED <<running, net, roster, filing, nws>>
      /\ lines' \in BOOLEAN
      BY DEF ReadScript, Put, Air, PutDirect, DecideBeacon, BreakBreak, BreakOver, RollOK
<1>2. RollOK' /\ FilesOK' /\ NwsOK' /\ FiledAsEnded' /\ DueIsRoll'
      BY <1>1 DEF roster, filing, nws, RollOK, FilesOK, NwsOK, FiledAsEnded, DueIsRoll
<1>3. TxOK' /\ GateShut'
  <2>1. CASE ReadScript
        BY <2>1, EnqueueKeeps DEF ReadScript, Items, Authored
  <2>2. ASSUME NEW i \in Items, Put(i) \/ Air(i) PROVE TxOK' /\ GateShut'
    <3>1. /\ tx[i] # "none" /\ \E t \in {"queued", "none"} : tx' = [tx EXCEPT ![i] = t]
          /\ UNCHANGED <<hold, breaking, overlapped, early>>
          BY <2>2 DEF Put, Air, brk
    <3> QED BY <3>1 DEF TxOK, GateShut, Items
  <2>3. ASSUME NEW b \in Breaks, BreakBreak(b) PROVE TxOK' /\ GateShut'
    <3>1. /\ hold' = TRUE /\ breaking' \subseteq Breaks /\ overlapped' \in BOOLEAN /\ early' = Gated
          /\ tx' = [i \in Items |-> IF tx[i] = "queued" THEN "none" ELSE tx[i]]
          BY <2>3 DEF BreakBreak, TxOK
    <3> QED BY <3>1 DEF TxOK, GateShut, Gated, Items
  <2>4. ASSUME NEW b \in Breaks, BreakOver(b) PROVE TxOK' /\ GateShut'
    <3>1. /\ hold' = FALSE /\ breaking' = breaking \ {b} /\ early' = {} /\ tx' = tx
          /\ overlapped' \in BOOLEAN /\ (overlapped' <=> breaking # {b})
          BY <2>4 DEF BreakOver
    <3> QED BY <3>1 DEF TxOK, GateShut
  <2>5. ASSUME NEW i \in Items \ Authored,
               (i \in Direct /\ PutDirect(i)) \/ (i = Beacon /\ DecideBeacon)
        PROVE  TxOK' /\ GateShut'
    <3>1. /\ \E t \in {"queued", "passed"} : tx' = [tx EXCEPT ![i] = t]
          /\ UNCHANGED <<hold, breaking, overlapped, early>>
          BY <2>5 DEF PutDirect, DecideBeacon, brk
    <3>2. \A j \in Authored : tx'[j] = tx[j]
          BY <3>1 DEF TxOK, Items
    <3>3. TxOK'
          BY <3>1 DEF TxOK
    <3> QED BY <3>1, <3>2, <3>3 DEF GateShut
  <2>6. Direct \cup {Beacon} \subseteq Items \ Authored
        BY NcsAssumption DEF Items, Authored
  <2> QED BY <2>1, <2>2, <2>3, <2>4, <2>5, <2>6
<1> QED BY <1>2, <1>3

\* A change of the roster overtakes every net that is not filed.
LEMMA RollChanges ==
  ASSUME NcsInv, overtaken' = overtaken \cup Unfiled,
         UNCHANGED <<due, filed, unwritten, asEnded>>
  PROVE  FiledAsEnded' /\ DueIsRoll' /\ overtaken' \subseteq NetIds
BY DEF NcsInv, FiledAsEnded, DueIsRoll, Unfiled, FilesOK

LEMMA RosterKeeps ==
  ASSUME NcsInv, \/ CallResetKeys
                 \/ \E k \in Keys : \/ CheckInKey(k) \/ RemoveKey(k)
                                    \/ \E present \in BOOLEAN : UpdateStatus(k, present)
  PROVE  NcsInv'
<1> USE DEF NcsInv
<1>1. UNCHANGED <<running, net, lines, due, filed, unwritten, asEnded, brk, tx, nws>>
      BY DEF CallResetKeys, CheckInKey, RemoveKey, UpdateStatus, filing
<1>2. TxOK' /\ NwsOK' /\ GateShut'
      BY <1>1 DEF brk, nws, TxOK, NwsOK, GateShut
<1>3. CASE CallResetKeys
      BY <1>1, <1>2, <1>3 DEF CallResetKeys, filing, RollOK, FilesOK, FiledAsEnded, DueIsRoll
<1>4. ASSUME NEW k \in Keys, CheckInKey(k) PROVE NcsInv'
  <2>1. CASE k \in ToSet(roll)
    <3>1. roll' = roll /\ overtaken' = overtaken /\ away' = away \ {k} /\ UNCHANGED <<called, calling>>
          BY <1>4, <2>1 DEF CheckInKey
    <3> QED BY <1>1, <1>2, <3>1 DEF RollOK, FilesOK, FiledAsEnded, DueIsRoll
  <2>2. CASE k \notin ToSet(roll)
    <3>1. /\ roll' = Append(roll, k) /\ overtaken' = overtaken \cup Unfiled /\ away' = away \ {k}
          /\ UNCHANGED <<called, calling>>
          BY <1>4, <2>2 DEF CheckInKey
    <3>2. RollOK'
          BY <1>1, <2>2, <3>1, AppendOneTo DEF RollOK
    <3>3. FiledAsEnded' /\ DueIsRoll' /\ overtaken' \subseteq NetIds
          BY <1>1, <3>1, RollChanges
    <3> QED BY <1>1, <1>2, <3>2, <3>3 DEF FilesOK
  <2> QED BY <2>1, <2>2
<1>5. ASSUME NEW k \in Keys, RemoveKey(k) PROVE NcsInv'
  <2>1. PlaceOf(k) \in 1..Len(roll) /\ roll[PlaceOf(k)] = k
        BY <1>5 DEF RemoveKey, PlaceOf, ToSet, RollOK
  <2>2. /\ roll' = RemoveAt(roll, PlaceOf(k)) /\ overtaken' = overtaken \cup Unfiled
        /\ called' = called \ {k} /\ away' = away \ {k} /\ calling' = calling
        BY <1>5 DEF RemoveKey
  <2>3. roll' \in Seq(Keys) /\ IsInjective(roll') /\ ToSet(roll') = ToSet(roll) \ {k}
        BY <2>1, <2>2, RemoveOneOf DEF RollOK
  <2>4. RollOK'
        BY <1>1, <2>2, <2>3 DEF RollOK
  <2>5. FiledAsEnded' /\ DueIsRoll' /\ overtaken' \subseteq NetIds
        BY <1>1, <2>2, RollChanges
  <2> QED BY <1>1, <1>2, <2>4, <2>5 DEF FilesOK
<1>6. ASSUME NEW k \in Keys, NEW present \in BOOLEAN, UpdateStatus(k, present) PROVE NcsInv'
      BY <1>1, <1>2, <1>6 DEF UpdateStatus, filing, RollOK, FilesOK, FiledAsEnded, DueIsRoll
<1> QED BY <1>3, <1>4, <1>5, <1>6

LEMMA CallsKeep ==
  ASSUME NcsInv, CallNextKey \/ \E k \in Keys : CallKey(k) PROVE NcsInv'
<1> USE DEF NcsInv
<1>1. ASSUME NEW k \in Keys, k \in ToSet(roll), AnnounceCall(k) PROVE NcsInv'
  <2>1. /\ UNCHANGED <<running, net, roll, away, lines, filing, brk, nws>>
        /\ called' = called \cup {k} /\ calling' = k /\ Enqueue(k)
        BY <1>1 DEF AnnounceCall
  <2>2. TxOK' /\ GateShut'
        BY <2>1, EnqueueKeeps DEF Items, Authored
  <2> QED BY <1>1, <2>1, <2>2 DEF RollOK, FilesOK, NwsOK, FiledAsEnded, DueIsRoll, filing, nws
<1>2. CASE CallNextKey
  <2>1. ASSUME NEW k \in Keys, IsUncalled(k), AnnounceCall(k) PROVE NcsInv'
        BY <1>1, <2>1 DEF IsUncalled, ToSet
  <2>2. CASE calling' = NoKey /\ UNCHANGED <<running, net, roll, called, away, lines, filing, brk, tx, nws>>
        BY <2>2 DEF RollOK, FilesOK, TxOK, NwsOK, FiledAsEnded, DueIsRoll, GateShut, filing, brk, nws
  <2> QED BY <1>2, <2>1, <2>2 DEF CallNextKey
<1>3. ASSUME NEW k \in Keys, CallKey(k) PROVE NcsInv'
      BY <1>1, <1>3 DEF CallKey
<1> QED BY <1>2, <1>3

LEMMA NetsKeep ==
  ASSUME NcsInv, StartNet \/ EndNet \/ RxFinal \/ ZoneSet
                 \/ \E n \in NetIds, f \in Files, w \in BOOLEAN : FileNet(n, f, w)
  PROVE  NcsInv'
<1> USE DEF NcsInv
<1>1. UNCHANGED <<brk, tx>>
      BY DEF StartNet, EndNet, RxFinal, ZoneSet, FileNet
<1>2. TxOK' /\ GateShut'
      BY <1>1 DEF brk, TxOK, GateShut
<1>3. CASE StartNet
  <2>1. FiledAsEnded' /\ DueIsRoll' /\ overtaken' \subseteq NetIds
        BY <1>3, RollChanges DEF StartNet
  <2>2. RollOK'
        BY <1>3, EmptyRound DEF StartNet, RollOK
  <2>3. running' = TRUE /\ net' \in 0..MaxNets /\ net' \in NetIds
        BY <1>3, NcsAssumption DEF StartNet, FilesOK, NetIds
  <2>4. FilesOK'
        BY <1>3, <2>1, <2>3 DEF StartNet, FilesOK
  <2>5. NwsOK'
        BY <1>3, <2>3 DEF StartNet, NwsOK
  <2> QED BY <1>2, <2>1, <2>2, <2>4, <2>5
<1>4. CASE EndNet
  <2>1. /\ net \in NetIds /\ running' = FALSE /\ calling' = NoKey /\ poll' = "off"
        /\ due' = (IF roll # <<>> \/ lines THEN due \cup ({net} \X Files) ELSE due)
        /\ asEnded' = [asEnded EXCEPT ![net] = ToSet(roll)]
        /\ UNCHANGED <<net, roll, called, away, lines, filed, unwritten, overtaken, seenAlerts>>
        BY <1>4 DEF EndNet, FilesOK
  <2>2. RollOK' /\ NwsOK'
        BY <2>1 DEF RollOK, NwsOK
  <2>3. ToSet(roll) \in SUBSET Keys
        BY DEF RollOK, ToSet
  <2>4. /\ asEnded' \in [NetIds -> SUBSET Keys] /\ asEnded'[net] = ToSet(roll)
        /\ \A n \in NetIds \ {net} : asEnded'[n] = asEnded[n]
        /\ due' \subseteq NetIds \X Files /\ due \subseteq due'
        /\ \A n \in NetIds \ {net}, f \in Files : <<n, f>> \in due' => <<n, f>> \in due
        BY <2>1, <2>3 DEF FilesOK
  <2>5. FilesOK'
        BY <2>1, <2>4 DEF FilesOK
  <2>6. ToSet(roll) # {} => \A f \in Files : <<net, f>> \in due'
        BY <2>1, EmptyRound
  <2>7. FiledAsEnded' /\ DueIsRoll'
        BY <2>1, <2>4, <2>6 DEF FiledAsEnded, DueIsRoll
  <2> QED BY <1>2, <2>2, <2>5, <2>7
<1>5. CASE RxFinal \/ ZoneSet
      BY <1>2, <1>5 DEF RxFinal, ZoneSet, roster, filing, nws, RollOK, FilesOK, NwsOK, FiledAsEnded, DueIsRoll
<1>6. ASSUME NEW n \in NetIds, NEW f \in Files, NEW w \in BOOLEAN, FileNet(n, f, w)
      PROVE  NcsInv'
  <2>1. /\ <<n, f>> \in due /\ due' = due \ {<<n, f>>}
        /\ UNCHANGED <<running, net, roster, lines, asEnded, overtaken, nws>>
        BY <1>6 DEF FileNet
  <2>2. RollOK' /\ NwsOK'
        BY <2>1 DEF RollOK, NwsOK, roster, nws
  <2>3. CASE w
    <3>1. filed' = [filed EXCEPT ![n][f] = ToSet(roll)] /\ unwritten' = unwritten
          BY <1>6, <2>3 DEF FileNet
    <3>2. ToSet(roll) \in SUBSET Keys
          BY DEF RollOK, ToSet
    <3>3. /\ filed' \in [NetIds -> [Files -> SUBSET Keys]] /\ filed'[n][f] = ToSet(roll)
          /\ \A m \in NetIds, g \in Files : <<m, g>> # <<n, f>> => filed'[m][g] = filed[m][g]
          BY <3>1, <3>2 DEF FilesOK
    <3>4. FilesOK'
          BY <2>1, <3>1, <3>3 DEF FilesOK
    <3>5. FiledAsEnded' /\ DueIsRoll'
          BY <2>1, <3>1, <3>3 DEF FiledAsEnded, DueIsRoll, roster
    <3> QED BY <1>2, <2>2, <3>4, <3>5
  <2>4. CASE ~w
    <3>1. filed' = filed /\ unwritten' = unwritten \cup {<<n, f>>}
          BY <1>6, <2>4 DEF FileNet
    <3>2. FilesOK'
          BY <2>1, <3>1 DEF FilesOK
    <3>3. FiledAsEnded' /\ DueIsRoll'
          BY <2>1, <3>1 DEF FiledAsEnded, DueIsRoll, roster
    <3> QED BY <1>2, <2>2, <3>2, <3>3
  <2> QED BY <2>3, <2>4
<1> QED BY <1>3, <1>4, <1>5, <1>6

LEMMA AlertsKeep ==
  ASSUME NcsInv, NEW a \in Alerts, NewAlert(a) \/ TellAlert(a) PROVE NcsInv'
<1> USE DEF NcsInv
<1>1. UNCHANGED <<running, net, roster, lines, filing, brk>>
      BY DEF NewAlert, TellAlert
<1>2. RollOK' /\ FilesOK' /\ FiledAsEnded' /\ DueIsRoll'
      BY <1>1 DEF roster, filing, RollOK, FilesOK, FiledAsEnded, DueIsRoll
<1>3. NwsOK'
      BY NcsAssumption DEF NewAlert, TellAlert, NwsOK
<1>4. TxOK' /\ GateShut'
  <2>1. CASE UNCHANGED tx
        BY <1>1, <2>1 DEF brk, TxOK, GateShut
  <2>2. CASE Enqueue(a)
        BY <1>1, <2>2, EnqueueKeeps DEF Items, Authored
  <2> QED BY <2>1, <2>2 DEF NewAlert, TellAlert
<1> QED BY <1>2, <1>3, <1>4

LEMMA NcsInductive == NcsInv /\ [NcsNext]_ncsVars => NcsInv'
<1> SUFFICES ASSUME NcsInv, [NcsNext]_ncsVars PROVE NcsInv'
      OBVIOUS
<1>1. CASE UNCHANGED ncsVars
      BY <1>1 DEF ncsVars, roster, filing, brk, nws, NcsInv, RollOK, FilesOK, TxOK, NwsOK,
                  FiledAsEnded, DueIsRoll, GateShut
<1> QED BY <1>1, TransmissionsKeep, RosterKeeps, CallsKeep, NetsKeep, AlertsKeep DEF NcsNext

\* The types; the roster lists each station once, and a poll loop runs only in a net.
THEOREM NcsTypes == NcsSpec => []NcsTypeOK
<1>1. NcsInv => NcsTypeOK
      BY DEF NcsInv, NcsTypeOK, RollOK, FilesOK, TxOK, NwsOK
<1> QED BY NcsInitial, NcsInductive, <1>1, PTL DEF NcsSpec

\* Each file of a net shows the roster the net ended with, unless that changed in between or
\* the file could not be written, and a BREAK BREAK holds back all that goes through
\* _tx_enqueue unless another overlaps it, for any stations, nets, alerts and handlers.
THEOREM NcsKeeps == NcsSpec => []NetControlKeeps
<1>1. NcsInv => NetControlKeeps
      BY DEF NcsInv, NetControlKeeps, GateShut, BreakHolds
<1> QED BY NcsInitial, NcsInductive, <1>1, PTL DEF NcsSpec

-----------------------------------------------------------------------------
(* Positions. *)

\* What the clients show is what the store holds, or the flag is up.
ClientsTold == dirty \/ Live(sent) = Live(records)

\* What is being written, or what was, is what the store holds, or the flag is up.
FileWritten ==
  /\ pump # "writing" => unsaved \/ stored = records
  /\ pump = "writing" => unsaved \/ snap = records

\* What a restart may find in the file, or in a write under way, is within the cap.
FilesFit == Cardinality(Stored(snap)) <= MaxStations /\ Cardinality(Stored(stored)) <= MaxStations

PosInv == PosTypeOK /\ FilesFit /\ ClientsTold /\ FileWritten

\* The moments of a map, and the stations it holds.
LEMMA StoredFinite ==
  ASSUME NEW m
  PROVE  IsFiniteSet(Stored(m)) /\ Cardinality(Stored(m)) \in Nat
<1>1. Stored(m) \subseteq Heard
      BY DEF Stored
<1> QED BY <1>1, PositionsAssumption, FS_Subset, FS_CardinalityType

LEMMA NowhereFits == Nowhere \in Maps /\ Cardinality(Stored(Nowhere)) <= MaxStations
<1>1. Stored(Nowhere) = {}
      BY DEF Stored, Nowhere
<1>2. Cardinality(Stored(Nowhere)) = 0
      BY <1>1, FS_EmptySet
<1>3. Nowhere \in Maps
      BY DEF Nowhere, Maps
<1> QED BY <1>2, <1>3, PositionsAssumption

\* Leaving out the expired stations leaves a map within the cap.
LEMMA LiveFits ==
  ASSUME now \in Moments, NEW m \in Maps, Cardinality(Stored(m)) <= MaxStations
  PROVE  Live(m) \in Maps /\ Cardinality(Stored(Live(m))) <= MaxStations
<1>1. Live(m) \in Maps
      BY DEF Live, Maps
<1>2. Stored(Live(m)) \subseteq Stored(m)
      BY DEF Live, Stored
<1>3. Cardinality(Stored(Live(m))) <= Cardinality(Stored(m))
      BY <1>2, StoredFinite, FS_Subset
<1> QED BY <1>1, <1>3, StoredFinite, PositionsAssumption

\* Doing it twice is doing it once.
LEMMA LiveTwice ==
  ASSUME NEW m \in Maps
  PROVE  Live(Live(m)) = Live(m)
BY DEF Live, Maps

\* The cap keeps the store within its bound.
LEMMA CapFits ==
  ASSUME NEW m \in Maps, NEW result, CapEnforced(m, result)
  PROVE  result \in Maps /\ Cardinality(Stored(result)) <= MaxStations
<1>1. PICK out \in SUBSET Stored(m) :
        /\ Cardinality(Stored(m) \ out) =
             IF Cardinality(Stored(m)) > MaxStations THEN MaxStations ELSE Cardinality(Stored(m))
        /\ result = [s \in Heard |-> IF s \in out THEN Unheard ELSE m[s]]
      BY DEF CapEnforced
<1>2. Stored(result) = Stored(m) \ out
      BY <1>1 DEF Stored, Unheard
<1>3. result \in Maps
      BY <1>1 DEF Maps
<1> QED BY <1>1, <1>2, <1>3, StoredFinite, PositionsAssumption, SMTT(60)

\* Two maps that show the same stations go on doing so when time passes.
LEMMA TickKeeps ==
  ASSUME now \in Moments, Tick, NEW m \in Maps, NEW n \in Maps, Live(m) = Live(n)
  PROVE  [s \in Heard |-> IF m[s] # Unheard /\ m[s] >= now' - TTL THEN m[s] ELSE Unheard]
           = [s \in Heard |-> IF n[s] # Unheard /\ n[s] >= now' - TTL THEN n[s] ELSE Unheard]
<1>1. ASSUME NEW s \in Heard
      PROVE  (IF m[s] # Unheard /\ m[s] >= now' - TTL THEN m[s] ELSE Unheard)
               = (IF n[s] # Unheard /\ n[s] >= now' - TTL THEN n[s] ELSE Unheard)
  <2>1. Live(m)[s] = Live(n)[s]
        OBVIOUS
  <2>2. (IF m[s] # Unheard /\ m[s] >= now - TTL THEN m[s] ELSE Unheard)
          = (IF n[s] # Unheard /\ n[s] >= now - TTL THEN n[s] ELSE Unheard)
        BY <2>1 DEF Live
  <2>3. m[s] \in Moments \cup {Unheard} /\ n[s] \in Moments \cup {Unheard}
        BY DEF Maps
  <2>4. now' = now + 1 /\ now \in Int /\ TTL \in Int
        BY PositionsAssumption DEF Tick, Moments
  <2> QED BY <2>2, <2>3, <2>4, PositionsAssumption DEF Moments, Unheard
<1> QED BY <1>1

\* The invariant implies what the run checks.
LEMMA PosInvSuffices == PosInv => QuietMeansCurrent
<1> SUFFICES ASSUME PosInv, pump = "asleep"
             PROVE  ClientsTold /\ (unsaved \/ stored = records)
      BY DEF QuietMeansCurrent, ClientsTold
<1>1. pump # "writing"
      OBVIOUS
<1> QED BY <1>1, Zenon DEF PosInv, FileWritten

\* It holds at the start.
LEMMA PosInitInv == PosInit => PosInv
<1> SUFFICES ASSUME PosInit PROVE PosInv
    OBVIOUS
<1>1. /\ now = 0 /\ dirty = FALSE /\ unsaved = FALSE /\ pump = "asleep"
      /\ records = Nowhere /\ seen = Nowhere /\ sent = Nowhere
      /\ snap = Nowhere /\ stored = Nowhere
      BY DEF PosInit
<1>2. now \in Moments
      BY <1>1, PositionsAssumption DEF Moments
<1>3. PosTypeOK /\ FilesFit
      BY <1>1, <1>2, NowhereFits DEF PosTypeOK, FilesFit
<1>4. ClientsTold /\ FileWritten
      BY <1>1 DEF ClientsTold, FileWritten
<1> QED BY <1>3, <1>4 DEF PosInv

\* A report raises both flags over whatever the cap leaves.
LEMMA HearKeeps ==
  ASSUME PosInv, NEW s \in Heard, NEW at \in Moments, NEW when \in Moments,
         Remembered(s, at), CapEnforced([records EXCEPT ![s] = when], records'),
         dirty' = TRUE, unsaved' = TRUE,
         UNCHANGED <<now, pump, sent, snap, stored>>
  PROVE  PosInv'
<1>1. [records EXCEPT ![s] = when] \in Maps /\ seen' \in Maps
      BY DEF Remembered, Stored, PosInv, PosTypeOK, Maps
<1>2. records' \in Maps /\ Cardinality(Stored(records')) <= MaxStations
      BY <1>1, CapFits
<1> QED BY <1>1, <1>2 DEF PosInv, PosTypeOK, FilesFit, ClientsTold, FileWritten, Stored

\* A restart begins from a file, and has told everyone of it.
LEMMA ReloadKeeps ==
  ASSUME PosInv, NEW file \in Maps, Cardinality(Stored(file)) <= MaxStations, Reload(file)
  PROVE  PosInv'
<1>1. Live(file) \in Maps /\ Live(Live(file)) = Live(file)
      BY LiveFits, LiveTwice DEF PosInv, PosTypeOK
<1>2. Live(sent)' = Live(records)'
      BY <1>1 DEF Reload, Live
<1> QED BY <1>1, <1>2, NowhereFits DEF Reload, PosInv, PosTypeOK, FilesFit, ClientsTold, FileWritten, Stored

\* Every step keeps it.
LEMMA PosNextInv == PosInv /\ [PosNext]_posVars => PosInv'
<1> SUFFICES ASSUME PosInv, [PosNext]_posVars PROVE PosInv'
    OBVIOUS
<1>1. ASSUME NEW s \in Heard, NEW at \in Moments, NEW moved \in BOOLEAN, HearTimed(s, at, moved)
      PROVE  PosInv'
  <2>1. (IF at > now THEN now ELSE at) \in Moments
        BY DEF PosInv, PosTypeOK
  <2> QED BY <1>1, <2>1, HearKeeps DEF HearTimed
<1>2. ASSUME NEW s \in Heard, NEW moved \in BOOLEAN, HearLive(s, moved) PROVE PosInv'
  <2>1. now \in Moments
        BY DEF PosInv, PosTypeOK
  <2> QED BY <1>2, <2>1, HearKeeps DEF HearLive
<1>3. CASE PollerStops
      BY <1>3, NowhereFits DEF PollerStops, PosInv, PosTypeOK, FilesFit, ClientsTold, FileWritten, Live, Stored
<1>4. CASE PumpWakes
  <2>1. records' = Live(records) /\ sent' = records' /\ dirty' = FALSE /\ pump' = "sending"
        BY <1>4 DEF PumpWakes, Purged
  <2>2. records' \in Maps /\ Cardinality(Stored(records')) <= MaxStations
        BY <2>1, LiveFits DEF PosInv, PosTypeOK
  <2>3. unsaved' \in BOOLEAN /\ (unsaved' \/ stored' = records')
        BY <1>4 DEF PumpWakes, Purged, PosInv, PosTypeOK, FileWritten
  <2>4. sent' = records' /\ UNCHANGED <<now, seen, snap, stored>> /\ pump' = "sending"
        BY <1>4 DEF PumpWakes
  <2>5. PosTypeOK' /\ FilesFit'
        BY <2>1, <2>2, <2>3, <2>4 DEF PosInv, PosTypeOK, FilesFit, Stored
  <2>6. ClientsTold' /\ FileWritten'
        BY <2>3, <2>4 DEF ClientsTold, FileWritten, Live
  <2> QED BY <2>5, <2>6 DEF PosInv
<1>5. CASE PumpSent
      BY <1>5 DEF PumpSent, PosInv, PosTypeOK, FilesFit, ClientsTold, FileWritten, Live, Stored
<1>6. CASE PumpWrote
      BY <1>6 DEF PumpWrote, PosInv, PosTypeOK, FilesFit, ClientsTold, FileWritten, Live, Stored
<1>7. CASE Crash
      BY <1>7, ReloadKeeps DEF Crash, PosInv, PosTypeOK, FilesFit
<1>8. CASE Shutdown
      BY <1>8, ReloadKeeps DEF Shutdown, PosInv, PosTypeOK, FilesFit
<1>9. CASE Tick
  <2>1. now' \in Moments
        BY <1>9, PositionsAssumption DEF Tick, PosInv, PosTypeOK, Moments
  <2>2. ClientsTold'
    <3>1. CASE dirty
          BY <1>9, <3>1 DEF Tick, ClientsTold
    <3>2. CASE Live(sent) = Live(records)
          BY <1>9, <3>2, TickKeeps DEF Tick, ClientsTold, PosInv, PosTypeOK, Live
    <3> QED BY <3>1, <3>2 DEF PosInv, ClientsTold
  <2> QED BY <1>9, <2>1, <2>2 DEF Tick, PosInv, PosTypeOK, FilesFit, FileWritten, Stored
<1>10. CASE UNCHANGED posVars
       BY <1>10 DEF posVars, PosInv, PosTypeOK, FilesFit, ClientsTold, FileWritten, Live, Stored
<1> QED BY <1>1, <1>2, <1>3, <1>4, <1>5, <1>6, <1>7, <1>8, <1>9, <1>10 DEF PosNext

\* The store's map and its copies keep their type, and the store its cap (_enforce_cap).
THEOREM PositionsTyped == PosSpec => []PosTypeOK
<1>1. PosSpec => []PosInv
      BY PosInitInv, PosNextInv, PTL DEF PosSpec
<1>2. PosInv => PosTypeOK
      BY DEF PosInv
<1> QED BY <1>1, <1>2, PTL

\* With the pump asleep and no flag up, the clients and the file are current
\* (_positions_pump, take_pending, write).
THEOREM QuietPumpIsCurrent == PosSpec => []QuietMeansCurrent
<1>1. PosSpec => []PosInv
      BY PosInitInv, PosNextInv, PTL DEF PosSpec
<1> QED BY <1>1, PosInvSuffices, PTL

-----------------------------------------------------------------------------
(* Settings. *)

\* A handler that will yet look at the worker, or build one.
Pending(c) == doing[c] \in {"telling", "joining", "leaving", "scanning"}

\* A setting the worker lacks has a handler on its way to it.
SettingsOnTheWay ==
  \/ engine.settings = wanted
  \/ "settings" \in missed
  \/ \E c \in Clients : Pending(c)

\* Without a worker there is a re-scan that will build one.
ScanBuilds == engine.present \/ \E c \in Clients : doing[c] = "scanning"

\* Words the worker lacks have a handler on their way, and a prompt is of the worker's
\* list unless a change met it half made.
WordsOnTheWay ==
  engine.present =>
    /\ engine.list = words \/ \E c \in Clients : doing[c] = "contact"
    /\ \A t \in Tiers \ missed : engine.prompt[t].step # "unread" => engine.prompt[t].of = engine.list

SetInv == SetTypeOK /\ SettingsOnTheWay /\ ScanBuilds /\ WordsOnTheWay

\* The invariant implies what the run checks of Settings.
LEMMA SetInvSuffices == SetInv => SettingsHold
BY DEF SetInv, SettingsOnTheWay, ScanBuilds, WordsOnTheWay, Pending, SettingsHold,
       SettingsApplied, WordsApplied

\* It holds at the start.
LEMMA SetInitInv == SetInit => SetInv
BY SettingsAssumption DEF SetInit, Made, Unmade, SetInv, SetTypeOK, SettingsOnTheWay,
       ScanBuilds, WordsOnTheWay

\* A worker built of _config satisfies it whoever else is at work.
LEMMA ReplacedKeeps ==
  ASSUME SetTypeOK, Replaced, UNCHANGED <<wanted, words, listens>>,
         NEW c \in Clients, doing' = [doing EXCEPT ![c] = "nothing"]
  PROVE  SetInv'
BY SettingsAssumption DEF Replaced, Made, Unmade, SetInv, SetTypeOK, SettingsOnTheWay,
       ScanBuilds, WordsOnTheWay

\* The worker after a change of words, when there is one.
LEMMA BiasedFits ==
  ASSUME SetTypeOK, NEW w \in 0..MaxEdits
  PROVE  /\ Biased(engine, w) \in [present : BOOLEAN, settings : 0..MaxEdits, list : 0..MaxEdits,
                    prompt : [Tiers -> [step : {"unread", "read", "made"}, of : 0..MaxEdits]]]
         /\ Biased(engine, w).list = w
         /\ Biased(engine, w).present = engine.present
         /\ Biased(engine, w).settings = engine.settings
         /\ \A t \in Tiers \ Making : Biased(engine, w).prompt[t].step # "unread"
                                         => Biased(engine, w).prompt[t].of = w
<1> DEFINE p == [t \in Tiers |-> IF engine.prompt[t].step = "made"
                                   THEN [engine.prompt[t] EXCEPT !.of = w] ELSE engine.prompt[t]]
           Prompt == [step : {"unread", "read", "made"}, of : 0..MaxEdits]
<1>1. Biased(engine, w) = [engine EXCEPT !.list = w, !.prompt = p]
      BY DEF Biased
<1>2. ASSUME NEW t \in Tiers
      PROVE  /\ p[t] \in Prompt
             /\ p[t].step = engine.prompt[t].step
             /\ t \notin Making /\ p[t].step # "unread" => p[t].of = w
  <2>1. engine.prompt[t] \in Prompt
        BY DEF SetTypeOK
  <2>2. p[t] = IF engine.prompt[t].step = "made"
                 THEN [engine.prompt[t] EXCEPT !.of = w] ELSE engine.prompt[t]
        OBVIOUS
  <2> HIDE DEF p
  <2> QED BY <2>1, <2>2 DEF Making
<1>3. p \in [Tiers -> Prompt]
      BY <1>2
<1> HIDE DEF p
<1>4. /\ Biased(engine, w).prompt = p
      /\ Biased(engine, w).list = w
      /\ Biased(engine, w).present = engine.present
      /\ Biased(engine, w).settings = engine.settings
      BY <1>1 DEF SetTypeOK
<1>5. Biased(engine, w) \in [present : BOOLEAN, settings : 0..MaxEdits, list : 0..MaxEdits,
                             prompt : [Tiers -> Prompt]]
      BY <1>1, <1>3, ZenonT(60) DEF SetTypeOK
<1> QED BY <1>2, <1>4, <1>5

\* Every step keeps it.
LEMMA SetNextInv == SetInv /\ [SetNext]_setVars => SetInv'
<1> SUFFICES ASSUME SetInv, [SetNext]_setVars PROVE SetInv'
    OBVIOUS
<1> USE SettingsAssumption
<1>1. ASSUME NEW c \in Clients, SetServerConfig(c) PROVE SetInv'
  <2>1. words + 1 \in Nat /\ wanted + 1 \in Nat
        BY DEF SetInv, SetTypeOK
  <2>2. PICK setting \in BOOLEAN, phrases \in BOOLEAN, written \in BOOLEAN :
          /\ setting => wanted < MaxEdits
          /\ phrases => words < MaxEdits
          /\ wanted' = IF setting THEN wanted + 1 ELSE wanted
          /\ words' = IF phrases THEN words + 1 ELSE words
          /\ engine' = IF phrases /\ engine.present THEN Biased(engine, words + 1) ELSE engine
          /\ missed' = (IF phrases /\ engine.present THEN (missed \ Tiers) \cup Making ELSE missed)
                       \cup (IF setting /\ ~written THEN {"settings"} ELSE {})
          /\ doing' = [doing EXCEPT ![c] = IF setting /\ written THEN "telling" ELSE "nothing"]
        BY <1>1, ZenonT(60) DEF SetServerConfig
  <2>3. phrases => words + 1 \in 0..MaxEdits
        BY <2>2 DEF SetInv, SetTypeOK
  <2>4. doing[c] = "nothing" /\ UNCHANGED listens
        BY <1>1 DEF SetServerConfig
  <2>5. SetTypeOK'
    <3>1. wanted' \in 0..MaxEdits /\ words' \in 0..MaxEdits /\ listens' \in BOOLEAN
          BY <2>2, <2>4 DEF SetInv, SetTypeOK
    <3>2. missed' \subseteq Tiers \cup {"settings"}
          BY <2>2 DEF SetInv, SetTypeOK, Making
    <3>3. doing' \in [Clients -> {"nothing", "telling", "joining", "leaving", "scanning", "contact"}]
          BY <2>2 DEF SetInv, SetTypeOK
    <3>4. engine' \in [present : BOOLEAN, settings : 0..MaxEdits, list : 0..MaxEdits,
                       prompt : [Tiers -> [step : {"unread", "read", "made"}, of : 0..MaxEdits]]]
          BY <2>2, <2>3, BiasedFits DEF SetInv, SetTypeOK
    <3> QED BY <3>1, <3>2, <3>3, <3>4 DEF SetTypeOK
  <2>6. SettingsOnTheWay' /\ ScanBuilds'
        BY <2>2, <2>3, <2>4, BiasedFits DEF SetInv, SetTypeOK, SettingsOnTheWay, ScanBuilds, Pending, Tiers
  <2>7. CASE phrases /\ engine.present
    <3>1. /\ words' = words + 1 /\ engine' = Biased(engine, words + 1)
          /\ Making \subseteq missed'
          BY <2>2, <2>7
    <3>2. \A t \in Tiers \ missed' : t \in Tiers \ Making
          BY <3>1
    <3>3. /\ engine'.list = words'
          /\ \A t \in Tiers \ Making : engine'.prompt[t].step # "unread" => engine'.prompt[t].of = words'
          BY <2>3, <2>7, <3>1, BiasedFits DEF SetInv
    <3>4. WordsOnTheWay'
          BY <3>2, <3>3 DEF WordsOnTheWay
    <3> QED BY <2>5, <2>6, <3>4 DEF SetInv
  <2>8. CASE ~(phrases /\ engine.present)
        BY <2>2, <2>4, <2>5, <2>6, <2>8 DEF SetInv, SetTypeOK, WordsOnTheWay
  <2> QED BY <2>7, <2>8
<1>2. ASSUME NEW c \in Clients, SetAdminConfig(c) PROVE SetInv'
      BY <1>2 DEF SetAdminConfig, SetInv, SetTypeOK, SettingsOnTheWay, ScanBuilds, WordsOnTheWay, Pending, Tiers
<1>3. ASSUME NEW c \in Clients, Told(c) PROVE SetInv'
      BY <1>3 DEF Told, SetInv, SetTypeOK, SettingsOnTheWay, ScanBuilds, WordsOnTheWay, Pending, Tiers
<1>4. ASSUME NEW c \in Clients, SetInputDevice(c) PROVE SetInv'
  <2>1. CASE ~engine.present /\ engine' = Made(wanted + 1) /\ missed' = {} /\ UNCHANGED doing
        BY <1>4, <2>1 DEF SetInputDevice, Made, Unmade, SetInv, SetTypeOK, SettingsOnTheWay,
           ScanBuilds, WordsOnTheWay
  <2>2. CASE doing' = [doing EXCEPT ![c] = "joining"] /\ UNCHANGED <<engine, missed>>
    <3>1. SetTypeOK'
          BY <1>4, <2>2 DEF SetInputDevice, SetInv, SetTypeOK
    <3>2. SettingsOnTheWay' /\ ScanBuilds' /\ WordsOnTheWay'
          BY <1>4, <2>2 DEF SetInputDevice, SetInv, SetTypeOK, SettingsOnTheWay, ScanBuilds,
             WordsOnTheWay, Pending
    <3> QED BY <3>1, <3>2 DEF SetInv
  <2>3. CASE missed' = missed \cup {"settings"} /\ UNCHANGED <<engine, doing>>
    <3>1. SetTypeOK'
          BY <1>4, <2>3 DEF SetInputDevice, SetInv, SetTypeOK
    <3>2. SettingsOnTheWay' /\ ScanBuilds' /\ WordsOnTheWay'
          BY <1>4, <2>3 DEF SetInputDevice, SetInv, SetTypeOK, SettingsOnTheWay, ScanBuilds,
             WordsOnTheWay, Pending
    <3> QED BY <3>1, <3>2 DEF SetInv
  <2> QED BY <1>4, <2>1, <2>2, <2>3 DEF SetInputDevice
<1>5. ASSUME NEW c \in Clients, Rebuilt(c) PROVE SetInv'
      BY <1>5, ReplacedKeeps DEF Rebuilt, SetInv
<1>6. ASSUME NEW c \in Clients, RefreshDevices(c) PROVE SetInv'
      BY <1>6 DEF RefreshDevices, SetInv, SetTypeOK, SettingsOnTheWay, ScanBuilds, WordsOnTheWay, Pending
<1>7. ASSUME NEW c \in Clients, Left(c) PROVE SetInv'
      BY <1>7 DEF Left, SetInv, SetTypeOK, SettingsOnTheWay, ScanBuilds, WordsOnTheWay, Pending
<1>8. ASSUME NEW c \in Clients, Found(c) PROVE SetInv'
      BY <1>8, ReplacedKeeps DEF Found, SetInv
<1>9. ASSUME NEW c \in Clients, EditContact(c) PROVE SetInv'
      BY <1>9 DEF EditContact, SetInv, SetTypeOK, SettingsOnTheWay, ScanBuilds, WordsOnTheWay, Pending
<1>10. ASSUME RebuildVocabulary(words), UNCHANGED <<wanted, words, listens>>,
              \A d \in Clients : Pending(d) => doing'[d] = doing[d],
              doing' \in [Clients -> {"nothing", "telling", "joining", "leaving", "scanning", "contact"}],
              ~engine.present => WordsOnTheWay'
       PROVE  SetInv'
  <2>1. words \in 0..MaxEdits
        BY DEF SetInv, SetTypeOK
  <2>2. CASE engine.present
    <3>1. engine' = Biased(engine, words) /\ missed' = (missed \ Tiers) \cup Making
          BY <1>10, <2>2 DEF RebuildVocabulary
    <3>2. SetTypeOK'
          BY <1>10, <2>1, <3>1, BiasedFits DEF SetInv, SetTypeOK, Making
    <3>3. SettingsOnTheWay'
          BY <1>10, <2>1, <3>1, BiasedFits DEF SetInv, SettingsOnTheWay, Pending, Tiers
    <3>4. ScanBuilds'
          BY <2>1, <2>2, <3>1, BiasedFits DEF SetInv, ScanBuilds
    <3>5. WordsOnTheWay'
          BY <1>10, <2>1, <3>1, BiasedFits DEF SetInv, WordsOnTheWay
    <3> QED BY <3>2, <3>3, <3>4, <3>5 DEF SetInv
  <2>3. CASE ~engine.present
        BY <1>10, <2>3 DEF RebuildVocabulary, SetInv, SetTypeOK, SettingsOnTheWay, ScanBuilds, Pending
  <2> QED BY <2>2, <2>3
<1>11. ASSUME NEW c \in Clients, ContactTold(c) PROVE SetInv'
       BY <1>10, <1>11 DEF ContactTold, RebuildVocabulary, SetInv, SetTypeOK, WordsOnTheWay, Pending
<1>12. ASSUME NEW c \in Clients, RescanVocabulary(c) PROVE SetInv'
       BY <1>10, <1>12 DEF RescanVocabulary, RebuildVocabulary, SetInv, SetTypeOK, WordsOnTheWay, Pending
<1>13. ASSUME NEW t \in Tiers, ReadList(t) PROVE SetInv'
       BY <1>13 DEF ReadList, SetInv, SetTypeOK, SettingsOnTheWay, ScanBuilds, WordsOnTheWay, Pending
<1>14. ASSUME NEW t \in Tiers, StorePrompt(t) PROVE SetInv'
       BY <1>14, ZenonT(60) DEF StorePrompt, SetInv, SetTypeOK, SettingsOnTheWay, ScanBuilds, WordsOnTheWay, Pending
<1>15. CASE SetListening
       BY <1>15 DEF SetListening, SetInv, SetTypeOK, SettingsOnTheWay, ScanBuilds, WordsOnTheWay, Pending
<1>16. CASE UNCHANGED setVars
       BY <1>16 DEF setVars, SetInv, SetTypeOK, SettingsOnTheWay, ScanBuilds, WordsOnTheWay, Pending
<1> QED BY <1>1, <1>2, <1>3, <1>4, <1>5, <1>6, <1>7, <1>8, <1>9, <1>11, <1>12, <1>13, <1>14,
           <1>15, <1>16 DEF SetNext

\* Settings and words reach the running worker, but for the exceptions SettingsHold names
\* (_ws_handle_set_server_config, set_input_device, _refresh_devices, update_phrases).
THEOREM SettingsHeld == SetSpec => []SettingsHold
<1>1. SetSpec => []SetInv
      BY SetInitInv, SetNextInv, PTL DEF SetSpec
<1> QED BY <1>1, SetInvSuffices, PTL

-----------------------------------------------------------------------------
(* Plugins. *)

\* What a handler is at: Rests is what may follow the hooks it waits in.
Rests ==
  {Idle} \cup [at : {"visiting"}, left : Seq(Instances) \ {<<>>}]
    \cup [at : {"loading", "copying"}, plug : Plugs, no : 1..MaxRequests]
    \cup [at : {"removing"}, plug : Plugs]
Redials == [at : {"redialing"}, left : Seq(Instances) \ {<<>>}, key : Params]
Jobs ==
  Rests \cup {Telling} \cup [at : {"setup"}, inst : Plugs \X (1..MaxRequests)]
    \cup [at : {"dialing"}, left : Seq(Instances) \ {<<>>}, lost : BOOLEAN]
    \cup [at : {"cutting"}, inst : Instances, next : Rests \cup Redials, lost : BOOLEAN]

\* The instances a job will still come to, and the numbers it may give to a new one.
ToVisit(j) ==
  IF j.at \in {"visiting", "dialing", "redialing"} THEN ToSet(j.left)
  ELSE IF j.at = "cutting" /\ j.next.at \in {"visiting", "redialing"} THEN ToSet(j.next.left) ELSE {}
Numbers(j) ==
  IF j.at \in {"loading", "copying"} THEN {j.no}
  ELSE IF j.at = "setup" THEN {j.inst[2]}
  ELSE IF j.at = "cutting" /\ j.next.at \in {"loading", "copying"} THEN {j.next.no} ELSE {}

\* A job tells everybody the settings before it is over, or one whom it has not come to;
\* a job that waits for a teardown will see to it that the instance is cut, or left open.
Tells(j, i) ==
  \/ j.at \in {"telling", "loading", "copying", "setup"}
  \/ j.at = "visiting" /\ i \in ToSet(j.left)
  \/ j.at \in {"dialing", "redialing"} /\ i \in ToSet(Tail(j.left))
Covers(j, i) ==
  \/ Tells(j, i)
  \/ j.at = "cutting" /\ (j.inst = i \/ Tells(j.next, i))

\* A job that will bring up the link of an instance.
Dials(j, i) == j.at = "dialing" /\ j.left[1] = i /\ ~j.lost

\* The instance that is connected again is the one whose link was cut.
Returns(j) == j.at = "cutting" /\ j.next.at = "redialing" => j.next.left[1] = j.inst

\* What becomes of a job while another handler moves.
Stays(j, k) ==
  \/ k = j
  \/ j.at \in {"dialing", "cutting"} /\ k = [j EXCEPT !.lost = TRUE]
Moves(h, next) == job'[h] = next /\ \A g \in Handlers \ {h} : Stays(job[g], job'[g])

-----------------------------------------------------------------------------
LEMMA InstanceIs ==
  \A i \in Instances : i[1] \in Plugs /\ i[2] \in Nat /\ i[2] <= MaxRequests
BY PluginsAssumption DEF Instances

LEMMA RestIs ==
  ASSUME NEW j \in Rests
  PROVE  /\ j \in Jobs /\ j.at \in {"idle", "visiting", "loading", "copying", "removing"}
         /\ (j.at = "idle") = (j = Idle)
         /\ j.at = "visiting" => j.left \in Seq(Instances) /\ j.left # <<>>
         /\ j.at \in {"loading", "copying"} => j.plug \in Plugs /\ j.no \in 1..MaxRequests
         /\ j.at = "removing" => j.plug \in Plugs
<1>1. CASE j = Idle
      BY <1>1 DEF Idle, Rests, Jobs
<1>2. CASE j \in [at : {"visiting"}, left : Seq(Instances) \ {<<>>}]
  <2>1. j.at = "visiting" /\ j.left \in Seq(Instances) /\ j.left # <<>> /\ j \in Jobs
        BY <1>2 DEF Rests, Jobs
  <2> QED BY <2>1 DEF Idle
<1>3. CASE j \in [at : {"loading", "copying"}, plug : Plugs, no : 1..MaxRequests]
  <2>1. j.at \in {"loading", "copying"} /\ j.plug \in Plugs /\ j.no \in 1..MaxRequests /\ j \in Jobs
        BY <1>3 DEF Rests, Jobs
  <2> QED BY <2>1 DEF Idle
<1>4. CASE j \in [at : {"removing"}, plug : Plugs]
  <2>1. j.at = "removing" /\ j.plug \in Plugs /\ j \in Jobs
        BY <1>4 DEF Rests, Jobs
  <2> QED BY <2>1 DEF Idle
<1> QED BY <1>1, <1>2, <1>3, <1>4 DEF Rests

LEMMA JobIs ==
  ASSUME NEW j \in Jobs
  PROVE  /\ j.at \in {"idle", "telling", "visiting", "dialing", "cutting",
                      "loading", "setup", "removing", "copying"}
         /\ (j.at = "idle") = (j = Idle) /\ (j.at = "telling") = (j = Telling)
         /\ j.at \in {"visiting", "dialing"} => j.left \in Seq(Instances) /\ j.left # <<>>
         /\ j.at \in {"loading", "copying"} => j.plug \in Plugs /\ j.no \in 1..MaxRequests
         /\ j.at = "removing" => j.plug \in Plugs
         /\ j.at = "setup" => j.inst \in Plugs \X (1..MaxRequests)
         /\ j.at = "cutting" => j.inst \in Instances /\ j.next \in Rests \cup Redials
         /\ j.at \in {"dialing", "cutting"} =>
              j.lost \in BOOLEAN /\ [j EXCEPT !.lost = TRUE] \in Jobs
<1>1. CASE j \in Rests
  <2>1. j.at \in {"idle", "visiting", "loading", "copying", "removing"}
        BY <1>1, RestIs
  <2>2. j # Telling
        BY <2>1 DEF Telling
  <2> QED BY <1>1, <2>1, <2>2, RestIs
<1>2. CASE j = Telling
      BY <1>2 DEF Telling, Idle
<1>3. CASE j \in [at : {"setup"}, inst : Plugs \X (1..MaxRequests)]
  <2>1. j.at = "setup" /\ j.inst \in Plugs \X (1..MaxRequests)
        BY <1>3
  <2> QED BY <2>1 DEF Telling, Idle
<1>4. CASE j \in [at : {"dialing"}, left : Seq(Instances) \ {<<>>}, lost : BOOLEAN]
  <2>1. /\ j.at = "dialing" /\ j.left \in Seq(Instances) /\ j.left # <<>> /\ j.lost \in BOOLEAN
        /\ [j EXCEPT !.lost = TRUE] \in Jobs
        BY <1>4 DEF Jobs
  <2> QED BY <2>1 DEF Telling, Idle
<1>5. CASE j \in [at : {"cutting"}, inst : Instances, next : Rests \cup Redials, lost : BOOLEAN]
  <2>1. /\ j.at = "cutting" /\ j.inst \in Instances /\ j.next \in Rests \cup Redials /\ j.lost \in BOOLEAN
        /\ [j EXCEPT !.lost = TRUE] \in Jobs
        BY <1>5 DEF Jobs
  <2> QED BY <2>1 DEF Telling, Idle
<1> QED BY <1>1, <1>2, <1>3, <1>4, <1>5 DEF Jobs

LEMMA RedialIs ==
  ASSUME NEW j \in Redials
  PROVE  j.at = "redialing" /\ j.left \in Seq(Instances) /\ j.left # <<>> /\ j.key \in Params
BY DEF Redials

\* To the others a job that stays is as it was, but that its link may be lost.
LEMMA StaysSo ==
  ASSUME NEW j \in Jobs, NEW k, Stays(j, k)
  PROVE  /\ k \in Jobs /\ k.at = j.at /\ (k = Idle) = (j = Idle)
         /\ ToVisit(k) = ToVisit(j) /\ Numbers(k) = Numbers(j)
         /\ \A i : Covers(k, i) = Covers(j, i)
         /\ \A i : Dials(k, i) => Dials(j, i)
         /\ Returns(j) => Returns(k)
<1>1. CASE k = j
      BY <1>1
<1>2. CASE j.at \in {"dialing", "cutting"} /\ k = [j EXCEPT !.lost = TRUE]
  <2>1. k \in Jobs
        BY <1>2, JobIs
  <2>2. k.at = j.at /\ j # Idle /\ k # Idle
        BY <1>2, <2>1, JobIs DEF Idle
  <2>3. /\ j.at = "dialing" => k.left = j.left /\ k.lost = TRUE
        /\ j.at = "cutting" => k.inst = j.inst /\ k.next = j.next
        BY <1>2 DEF Jobs
  <2>4. ToVisit(k) = ToVisit(j) /\ Numbers(k) = Numbers(j)
        BY <1>2, <2>2, <2>3 DEF ToVisit, Numbers
  <2>5. \A i : Covers(k, i) = Covers(j, i)
        BY <1>2, <2>2, <2>3 DEF Covers, Tells
  <2>6. \A i : ~Dials(k, i)
        BY <1>2, <2>2, <2>3 DEF Dials
  <2>7. Returns(j) => Returns(k)
        BY <1>2, <2>2, <2>3 DEF Returns
  <2> QED BY <2>1, <2>2, <2>4, <2>5, <2>6, <2>7
<1> QED BY <1>1, <1>2 DEF Stays
-----------------------------------------------------------------------------
\* Types, and the numbers of instances: what has one is older than what will get one.
Sorted ==
  /\ switches \subseteq Plugs /\ folders \subseteq Plugs /\ params \in [Plugs -> Params]
  /\ registered \in Seq(Instances) /\ IsInjective(registered)
  /\ requests \in 0..MaxRequests
  /\ linked \subseteq handle /\ handle \subseteq Instances
  /\ sending \subseteq Instances /\ stray \subseteq Instances /\ leftOpen \subseteq Instances
  /\ active \in [Instances -> Params]
  /\ crossed \in BOOLEAN
  /\ job \in [Handlers -> Jobs]
Numbered ==
  /\ \A h \in Handlers : Numbers(job[h]) \subseteq 1..requests
  /\ \A g, h \in Handlers : g # h => Numbers(job[g]) \cap Numbers(job[h]) = {}
  /\ \A i \in ToSet(registered) :
       i[2] <= requests /\ \A h \in Handlers : i[2] \notin Numbers(job[h])
Held ==
  /\ \A h \in Handlers, i \in Instances : Dials(job[h], i) => i \in handle
  /\ \A h \in Handlers : Returns(job[h])

\* A link of what is switched off, or one that may come up, is somebody's business, but
\* for those left open.
Covered ==
  \A i \in ToSet(registered) :
    i[1] \notin switches /\ i \notin leftOpen /\ (i \in linked \/ \E h \in Handlers : Dials(job[h], i))
      => \E g \in Handlers : Covers(job[g], i)
OneSwitch == \A p, q \in switches : p = q

\* Handlers that ran one after another.
Cuts(j) == IF j.at = "cutting" THEN {j.inst} ELSE {}
Gone(j) ==
  IF j.at \in {"loading", "copying", "removing"} THEN {j.plug}
  ELSE IF j.at = "setup" THEN {j.inst[1]}
  ELSE IF j.at = "cutting" /\ j.next.at \in {"loading", "copying", "removing"} THEN {j.next.plug}
  ELSE {}
Presently(i, key) == i[1] \in switches /\ params[i[1]] = key
Fits(j) ==
  /\ j.at \in {"dialing", "cutting"} => ~j.lost
  /\ Cuts(j) \subseteq linked \ sending
  /\ ToVisit(j) \subseteq ToSet(registered)
  /\ \A i \in ToSet(registered) : i[1] \notin Gone(j)
  /\ j.at = "setup" => j.inst[1] \in folders
  /\ j.at = "dialing" => Presently(j.left[1], active[j.left[1]])
  /\ j.at = "cutting" /\ j.next.at = "redialing" => Presently(j.inst, j.next.key)
InTurn ==
  /\ \A g, h \in Handlers : job[g] # Idle /\ job[h] # Idle => g = h
  /\ \A i, k \in ToSet(registered) : i[1] = k[1] => i = k
  /\ \A i \in ToSet(registered) : i[1] \in folders
  /\ stray = {} /\ sending \subseteq linked /\ sending \subseteq ToSet(registered)
  /\ \A i \in linked : i \notin sending => i \in leftOpen \/ \E h \in Handlers : i \in Cuts(job[h])
  /\ \A i \in sending : Presently(i, active[i]) \/ \E h \in Handlers : Covers(job[h], i)
  /\ \A h \in Handlers : Fits(job[h])

PlugInv ==
  /\ Sorted /\ Numbered /\ Held /\ Covered /\ OneSwitch
  /\ ~crossed => InTurn
-----------------------------------------------------------------------------
AtMostOne(S) == \A x, y \in S : x = y

LEMMA FewAre == ASSUME NEW S, AtMostOne(S) PROVE Cardinality(S) <= 1
<1>1. CASE S = {}
      BY <1>1, FS_EmptySet
<1>2. CASE S # {}
  <2>1. PICK x \in S : S = {x}
        BY <1>2 DEF AtMostOne
  <2>2. Cardinality({x}) = 1
        BY FS_Singleton
  <2> QED BY <2>1, <2>2
<1> QED BY <1>1, <1>2

LEMMA ElementsOf ==
  ASSUME NEW S, NEW s \in Seq(S)
  PROVE  /\ DOMAIN s = 1..Len(s) /\ Len(s) \in Nat
         /\ ToSet(s) \subseteq S /\ \A k \in 1..Len(s) : s[k] \in ToSet(s)
         /\ \A e \in ToSet(s) : \E k \in 1..Len(s) : s[k] = e
         /\ s = <<>> => ToSet(s) = {}
<1>1. DOMAIN s = 1..Len(s) /\ Len(s) \in Nat
      OBVIOUS
<1>2. \A k \in 1..Len(s) : s[k] \in S
      OBVIOUS
<1>3. ToSet(s) = {s[k] : k \in 1..Len(s)}
      BY <1>1 DEF ToSet
<1>4. s = <<>> => 1..Len(s) = {}
      OBVIOUS
<1> QED BY <1>1, <1>2, <1>3, <1>4

LEMMA HeadAndTail ==
  ASSUME NEW S, NEW s \in Seq(S), s # <<>>
  PROVE  /\ Head(s) = s[1] /\ s[1] \in S /\ s[1] \in ToSet(s) /\ Tail(s) \in Seq(S)
         /\ ToSet(Tail(s)) \subseteq ToSet(s)
         /\ \A e \in ToSet(s) : e = s[1] \/ e \in ToSet(Tail(s))
<1>1. Head(s) = s[1] /\ 1 \in 1..Len(s) /\ Tail(s) \in Seq(S) /\ Len(Tail(s)) = Len(s) - 1
      OBVIOUS
<1>2. \A k \in 1..(Len(s) - 1) : Tail(s)[k] = s[k + 1]
      OBVIOUS
<1>3. s[1] \in S /\ s[1] \in ToSet(s)
      BY <1>1, ElementsOf
<1>4. ToSet(Tail(s)) \subseteq ToSet(s)
  <2> SUFFICES ASSUME NEW e \in ToSet(Tail(s)) PROVE e \in ToSet(s)
        OBVIOUS
  <2>1. PICK k \in 1..(Len(s) - 1) : Tail(s)[k] = e
        BY <1>1, ElementsOf, ZenonT(60)
  <2>2. k + 1 \in 1..Len(s)
        BY <2>1, ElementsOf
  <2> QED BY <1>2, <2>1, <2>2, ElementsOf
<1>5. ASSUME NEW e \in ToSet(s) PROVE e = s[1] \/ e \in ToSet(Tail(s))
  <2>1. PICK k \in 1..Len(s) : s[k] = e
        BY ElementsOf
  <2>2. CASE k # 1
    <3>1. k - 1 \in 1..(Len(s) - 1) /\ (k - 1) + 1 = k
          BY <2>2, ElementsOf
    <3>2. Tail(s)[k - 1] = e
          BY <1>2, <2>1, <3>1
    <3> QED BY <1>1, <3>1, <3>2, ElementsOf
  <2> QED BY <2>1, <2>2
<1> QED BY <1>1, <1>3, <1>4, <1>5

LEMMA Appended ==
  ASSUME NEW S, NEW s \in Seq(S), NEW e \in S
  PROVE  /\ Append(s, e) \in Seq(S) /\ ToSet(Append(s, e)) = ToSet(s) \cup {e}
         /\ IsInjective(s) /\ e \notin ToSet(s) => IsInjective(Append(s, e))
<1> DEFINE a == Append(s, e)
           n == Len(s)
<1>1. /\ a \in Seq(S) /\ Len(a) = n + 1 /\ DOMAIN a = 1..(n + 1) /\ a[n + 1] = e
      /\ \A k \in 1..n : a[k] = s[k]
      OBVIOUS
<1>2. n \in Nat /\ \A k \in 1..(n + 1) : k \in 1..n \/ k = n + 1
      OBVIOUS
<1> HIDE DEF a, n
<1>3. ToSet(a) = {a[k] : k \in 1..(n + 1)} /\ ToSet(s) = {s[k] : k \in 1..n}
      BY <1>1 DEF ToSet, n
<1>4. ToSet(a) = ToSet(s) \cup {e}
      BY <1>1, <1>2, <1>3
<1>5. ASSUME IsInjective(s), e \notin ToSet(s) PROVE IsInjective(a)
  <2>1. \A j, k \in 1..n : s[j] = s[k] => j = k
        BY <1>5, ElementsOf DEF IsInjective, n
  <2>2. \A k \in 1..n : s[k] # e
        BY <1>5, <1>3
  <2> QED BY <1>1, <1>2, <2>1, <2>2 DEF IsInjective
<1> QED BY <1>1, <1>4, <1>5 DEF a

\* What unload_plugin leaves of the tuple.
LEMMA UnloadedIs ==
  ASSUME registered \in Seq(Instances), IsInjective(registered), NEW p \in Plugs, Of(p) # {}
  PROVE  LET kept == Kept(registered, {k \in DOMAIN registered : registered[k] # First(p)})
         IN  /\ First(p) \in ToSet(registered) /\ First(p)[1] = p
             /\ kept \in Seq(Instances) /\ IsInjective(kept)
             /\ ToSet(kept) = ToSet(registered) \ {First(p)}
<1> DEFINE N == Len(registered)
           places == {k \in DOMAIN registered : registered[k][1] = p}
           f == First(p)
           those == {k \in DOMAIN registered : registered[k] # f}
           kept == Kept(registered, those)
<1>1. DOMAIN registered = 1..N /\ N \in Nat /\ places \in SUBSET Nat /\ those \cap 1..N = those
      OBVIOUS
<1>2. places # {}
      BY ElementsOf, <1>1 DEF Of
<1>3. \E x \in places : \A y \in places : x <= y
      BY <1>1, <1>2, LeastNat
<1>4. PICK k \in places : f = registered[k]
      BY <1>3 DEF First
<1>5. f \in ToSet(registered) /\ f[1] = p
      BY <1>1, <1>4, ElementsOf
<1>6. kept \in Seq(Instances) /\ LeftOf(kept, registered, those, N)
      BY KeptIs
<1> DEFINE M == Len(kept)
<1>7. PICK r \in [1..M -> those] :
        /\ \A j \in 1..M : kept[j] = registered[r[j]]
        /\ \A j, k2 \in 1..M : j < k2 => r[j] < r[k2]
        /\ \A i \in those : \E j \in 1..M : r[j] = i
      BY <1>1, <1>6, ZenonT(60) DEF LeftOf
<1>8. M \in Nat /\ DOMAIN kept = 1..M /\ ToSet(kept) = {kept[j] : j \in 1..M}
  <2> HIDE DEF kept
  <2>1. M \in Nat /\ DOMAIN kept = 1..M
        BY <1>6, ElementsOf
  <2> QED BY <2>1 DEF ToSet
<1>9. \A j, k2 \in 1..N : registered[j] = registered[k2] => j = k2
      BY <1>1 DEF IsInjective
<1>10. \A j \in 1..M : r[j] \in 1..N /\ registered[r[j]] # f
      BY <1>1, <1>7
<1> HIDE DEF those, kept, M, N, f
<1>11. IsInjective(kept)
  <2> SUFFICES ASSUME NEW j \in 1..M, NEW k2 \in 1..M, kept[j] = kept[k2] PROVE j = k2
        BY <1>8 DEF IsInjective
  <2>1. r[j] = r[k2]
        BY <1>7, <1>9, <1>10
  <2> QED BY <1>7, <1>8, <1>10, <2>1, SMTT(60)
<1>12. ToSet(kept) \subseteq ToSet(registered) \ {f}
      BY <1>7, <1>8, <1>10, ElementsOf, SMTT(60) DEF N
<1>13. ASSUME NEW e \in ToSet(registered), e # f PROVE e \in ToSet(kept)
  <2>1. PICK n \in 1..N : registered[n] = e
        BY ElementsOf DEF N
  <2>2. n \in those
        BY <1>1, <1>13, <2>1 DEF those
  <2> QED BY <1>7, <1>8, <2>1, <2>2
<1>14. ToSet(kept) = ToSet(registered) \ {f}
      BY <1>12, <1>13
<1> QED BY <1>5, <1>6, <1>11, <1>14 DEF kept, those, f
-----------------------------------------------------------------------------
LEMMA GoesSo ==
  ASSUME job \in [Handlers -> Jobs], NEW h \in Handlers, NEW next \in Jobs, Goes(h, next)
  PROVE  Moves(h, next) /\ job' \in [Handlers -> Jobs]
BY DEF Goes, Moves, Stays

LEMMA ClearsSo ==
  ASSUME job \in [Handlers -> Jobs], NEW h \in Handlers, NEW next \in Jobs, NEW i,
         GoesClearing(h, next, i)
  PROVE  /\ Moves(h, next) /\ job' \in [Handlers -> Jobs]
         /\ \A g \in Handlers \ {h} : ~Dials(job'[g], i)
<1>1. job'[h] = next
      BY DEF GoesClearing
<1>2. ASSUME NEW g \in Handlers, g # h
      PROVE  Stays(job[g], job'[g]) /\ job'[g] \in Jobs /\ ~Dials(job'[g], i)
  <2>1. job[g] \in Jobs
        OBVIOUS
  <2>2. CASE WaitsOn(g, i)
    <3>1. job[g].at \in {"dialing", "cutting"} /\ job'[g] = [job[g] EXCEPT !.lost = TRUE]
          BY <1>2, <2>2 DEF GoesClearing, WaitsOn
    <3>2. job'[g] \in Jobs
          BY <2>1, <3>1, JobIs
    <3>3. job'[g].at = "dialing" => job'[g].lost = TRUE
          BY <2>1, <3>1 DEF Jobs
    <3> QED BY <3>1, <3>2, <3>3 DEF Stays, Dials
  <2>3. CASE ~WaitsOn(g, i)
    <3>1. job'[g] = job[g]
          BY <1>2, <2>3 DEF GoesClearing
    <3> QED BY <2>1, <2>3, <3>1 DEF Stays, Dials, WaitsOn
  <2> QED BY <2>2, <2>3
<1>3. job' = [g \in Handlers |-> job'[g]]
      BY DEF GoesClearing
<1>4. \A g \in Handlers : job'[g] \in Jobs
      BY <1>1, <1>2
<1>5. job' \in [Handlers -> Jobs]
      BY <1>3, <1>4
<1> QED BY <1>1, <1>2, <1>5 DEF Moves

LEMMA MovesSo ==
  ASSUME job \in [Handlers -> Jobs], NEW h \in Handlers, NEW next, Moves(h, next)
  PROVE  /\ job'[h] = next
         /\ \A g \in Handlers : g # h =>
              /\ (job'[g] = Idle) = (job[g] = Idle)
              /\ Numbers(job'[g]) = Numbers(job[g])
              /\ \A i : Covers(job'[g], i) = Covers(job[g], i)
              /\ \A i : Dials(job'[g], i) => Dials(job[g], i)
              /\ Returns(job[g]) => Returns(job'[g])
<1>1. ASSUME NEW g \in Handlers, g # h
      PROVE  /\ (job'[g] = Idle) = (job[g] = Idle)
             /\ Numbers(job'[g]) = Numbers(job[g])
             /\ \A i : Covers(job'[g], i) = Covers(job[g], i)
             /\ \A i : Dials(job'[g], i) => Dials(job[g], i)
             /\ Returns(job[g]) => Returns(job'[g])
  <2>1. job[g] \in Jobs /\ Stays(job[g], job'[g])
        BY <1>1 DEF Moves
  <2> QED BY <2>1, StaysSo
<1> QED BY <1>1 DEF Moves

\* The first half of a teardown.  What it makes of the job is said apart from the rest.
CutJob(i, next) ==
  IF i \in linked THEN [at |-> "cutting", inst |-> i, next |-> next, lost |-> FALSE] ELSE next

LEMMA CutJobIs ==
  ASSUME NEW i \in Instances, NEW next \in Rests \cup Redials,
         next \in Rests \/ (i \in linked /\ next.left[1] = i)
  PROVE  LET j == CutJob(i, next)
         IN  /\ j \in Jobs /\ j.at \notin {"dialing", "setup"} /\ Returns(j)
             /\ Numbers(j) = Numbers(next) /\ ToVisit(j) = ToVisit(next) /\ Gone(j) = Gone(next)
             /\ \A k : Tells(next, k) => Covers(j, k)
             /\ \A k : ~Dials(j, k)
             /\ i \in linked => /\ Covers(j, i) /\ Cuts(j) = {i} /\ ~j.lost /\ j # Idle
                               /\ j.inst = i /\ j.next = next
             /\ i \notin linked => j = next /\ Cuts(j) = {}
<1>1. CASE i \in linked
  <2> DEFINE j == [at |-> "cutting", inst |-> i, next |-> next, lost |-> FALSE]
  <2>1. CutJob(i, next) = j
        BY <1>1 DEF CutJob
  <2>2. j \in Jobs /\ j # Idle
        BY DEF Jobs, Idle
  <2>3. /\ next.at \in {"idle", "visiting", "redialing", "loading", "copying", "removing"}
        /\ next \in Rests => next.at # "redialing"
        BY RestIs, RedialIs
  <2>4. Numbers(j) = Numbers(next) /\ ToVisit(j) = ToVisit(next) /\ Gone(j) = Gone(next)
        BY <2>3 DEF Numbers, ToVisit, Gone
  <2>5. \A k : Covers(j, k) = (k = i \/ Tells(next, k))
        BY DEF Covers, Tells
  <2>6. Cuts(j) = {i} /\ (\A k : ~Dials(j, k)) /\ Returns(j)
        BY <2>3 DEF Cuts, Dials, Returns
  <2>7. j.at = "cutting" /\ ~j.lost /\ j.inst = i /\ j.next = next
        OBVIOUS
  <2> HIDE DEF j
  <2>8. (\A k : Tells(next, k) => Covers(j, k)) /\ Covers(j, i)
        BY <2>5
  <2> QED BY <1>1, <2>1, <2>2, <2>4, <2>6, <2>7, <2>8
<1>2. CASE i \notin linked
  <2>1. CutJob(i, next) = next /\ next \in Rests
        BY <1>2 DEF CutJob
  <2>2. /\ Cuts(next) = {} /\ (\A k : Tells(next, k) => Covers(next, k)) /\ \A k : ~Dials(next, k)
        /\ Returns(next)
        BY <2>1, RestIs DEF Cuts, Covers, Dials, Returns
  <2> QED BY <1>2, <2>1, <2>2, RestIs
<1> QED BY <1>1, <1>2

LEMMA CutNowSo ==
  ASSUME job \in [Handlers -> Jobs], NEW h \in Handlers, NEW i \in Instances,
         NEW next \in Rests \cup Redials, next \in Rests \/ (i \in linked /\ next.left[1] = i),
         CutNow(h, i, next)
  PROVE  /\ Moves(h, CutJob(i, next)) /\ job' \in [Handlers -> Jobs]
         /\ linked' = linked /\ stray' = stray /\ sending' = sending \ {i} /\ active' = active
         /\ handle' \subseteq handle /\ handle \subseteq handle' \cup {i}
         /\ leftOpen' \subseteq leftOpen /\ leftOpen \subseteq leftOpen' \cup {i}
         /\ i \in linked => handle' = handle /\ leftOpen' = leftOpen
         /\ i \notin linked => \A g \in Handlers \ {h} : ~Dials(job'[g], i)
<1>1. linked' = linked /\ stray' = stray /\ sending' = sending \ {i}
      BY DEF CutNow
<1>2. CutJob(i, next) \in Jobs
      BY CutJobIs
<1>3. CASE i \in linked
  <2>1. Goes(h, CutJob(i, next)) /\ handle' = handle /\ leftOpen' = leftOpen /\ active' = active
        BY <1>3 DEF CutNow, CutJob
  <2> QED BY <1>1, <1>2, <1>3, <2>1, GoesSo
<1>4. CASE i \notin linked
  <2>1. next.at # "redialing"
        BY <1>4, RestIs
  <2>2. /\ GoesClearing(h, CutJob(i, next), i) /\ handle' = handle \ {i}
        /\ leftOpen' = leftOpen \ {i} /\ active' = active
        BY <1>4, <2>1 DEF CutNow, CutJob, Cleared
  <2> QED BY <1>1, <1>2, <1>4, <2>2, ClearsSo
<1> QED BY <1>3, <1>4

\* A handler that waits for connect().
LEMMA DialingIs ==
  ASSUME NEW left \in Seq(Instances), left # <<>>
  PROVE  LET j == Dialing(left)
         IN  /\ j \in Jobs /\ j.at = "dialing" /\ j.left = left /\ j.lost = FALSE
             /\ Numbers(j) = {} /\ Gone(j) = {} /\ ToVisit(j) = ToSet(left) /\ Cuts(j) = {}
             /\ Returns(j) /\ (\A k : Dials(j, k) => k = left[1])
             /\ \A k : Covers(j, k) <=> k \in ToSet(Tail(left))
<1> DEFINE j == Dialing(left)
<1>1. j \in Jobs
      BY DEF Dialing, Jobs
<1>2. j.at = "dialing" /\ j.left = left /\ j.lost = FALSE
      BY DEF Dialing
<1> HIDE DEF j
<1>3. /\ Numbers(j) = {} /\ Gone(j) = {} /\ ToVisit(j) = ToSet(left) /\ Cuts(j) = {}
      /\ Returns(j) /\ (\A k : Dials(j, k) => k = left[1])
      /\ \A k : Covers(j, k) <=> k \in ToSet(Tail(left))
      BY <1>2 DEF Numbers, Gone, ToVisit, Cuts, Returns, Dials, Covers, Tells
<1> QED BY <1>1, <1>2, <1>3 DEF j

LEMMA RedialSo ==
  ASSUME job \in [Handlers -> Jobs], NEW h \in Handlers, NEW i \in Instances,
         NEW next \in Redials, Cleared(h, i, next)
  PROVE  /\ Moves(h, Dialing(next.left)) /\ job' \in [Handlers -> Jobs]
         /\ handle' = handle \cup {i} /\ active' = [active EXCEPT ![i] = next.key]
         /\ leftOpen' = IF i[1] \in switches THEN leftOpen \ {i} ELSE leftOpen \cup {i}
         /\ \A g \in Handlers \ {h} : ~Dials(job'[g], i)
<1>1. /\ GoesClearing(h, Dialing(next.left), i)
      /\ handle' = handle \cup {i} /\ active' = [active EXCEPT ![i] = next.key]
      /\ leftOpen' = IF i[1] \in switches THEN leftOpen \ {i} ELSE leftOpen \cup {i}
      BY RedialIs, Zenon DEF Cleared
<1>2. Dialing(next.left) \in Jobs
      BY RedialIs, DialingIs
<1> QED BY <1>1, <1>2, ClearsSo

-----------------------------------------------------------------------------
\* What a step has to see to, for each part of the invariant.
LEMMA NumberedKept ==
  ASSUME Sorted, Numbered, NEW h \in Handlers, NEW next, Moves(h, next),
         ToSet(registered') \subseteq ToSet(registered), registered' \in Seq(Instances),
         requests' = requests \/ requests' = requests + 1,
         \A n \in Numbers(next) :
           n \in Numbers(job[h]) \/ (n = requests' /\ requests' = requests + 1)
  PROVE  Numbered'
<1>1. requests \in Nat /\ requests' \in Nat /\ requests <= requests' /\ job \in [Handlers -> Jobs]
      BY PluginsAssumption DEF Sorted
<1>2. Numbers(job'[h]) = Numbers(next)
      BY <1>1, MovesSo
<1>3. \A g \in Handlers : \A n \in Numbers(job'[g]) :
        n \in Numbers(job[g]) \/ (g = h /\ n = requests' /\ requests' = requests + 1)
      BY <1>1, <1>2, MovesSo
<1>4. \A g \in Handlers : \A n \in Numbers(job[g]) : n \in 1..requests
      BY DEF Numbered
<1>5. \A g \in Handlers : \A n \in Numbers(job[g]) : n \in 1..requests' /\ n # requests + 1
      BY <1>1, <1>4
<1>6. \A g \in Handlers : Numbers(job'[g]) \subseteq 1..requests'
      BY <1>1, <1>3, <1>5
<1>7. ASSUME NEW g \in Handlers, NEW k \in Handlers, g # k
      PROVE  Numbers(job'[g]) \cap Numbers(job'[k]) = {}
  <2> SUFFICES ASSUME NEW n \in Numbers(job'[g]), n \in Numbers(job'[k]) PROVE FALSE
        OBVIOUS
  <2>1. ~(n \in Numbers(job[g]) /\ n \in Numbers(job[k]))
        BY <1>7 DEF Numbered
  <2>2. n \in Numbers(job[g]) => n # requests + 1
        BY <1>5
  <2>3. n \in Numbers(job[k]) => n # requests + 1
        BY <1>5
  <2> QED BY <1>3, <1>7, <2>1, <2>2, <2>3
<1>8. ASSUME NEW i \in ToSet(registered')
      PROVE  i[2] <= requests' /\ \A g \in Handlers : i[2] \notin Numbers(job'[g])
  <2>1. i \in ToSet(registered) /\ i[2] \in Nat
        BY <1>8, ElementsOf, InstanceIs
  <2>2. i[2] <= requests /\ \A g \in Handlers : i[2] \notin Numbers(job[g])
        BY <2>1 DEF Numbered
  <2>3. i[2] <= requests' /\ i[2] # requests + 1
        BY <1>1, <2>1, <2>2
  <2> QED BY <1>3, <2>2, <2>3
<1> QED BY <1>6, <1>7, <1>8 DEF Numbered

LEMMA HeldKept ==
  ASSUME Sorted, Held, NEW h \in Handlers, NEW next, Moves(h, next), Returns(next),
         \A i \in Instances : Dials(next, i) => i \in handle',
         \A i \in Instances : i \in handle /\ i \notin handle' =>
            \A g \in Handlers \ {h} : ~Dials(job'[g], i)
  PROVE  Held'
<1>1. job \in [Handlers -> Jobs]
      BY DEF Sorted
<1>2. \A g \in Handlers : Returns(job'[g])
      BY <1>1, MovesSo DEF Held
<1>3. ASSUME NEW g \in Handlers, NEW i \in Instances, Dials(job'[g], i) PROVE i \in handle'
  <2>1. CASE g = h
        BY <1>1, <1>3, <2>1, MovesSo
  <2>2. CASE g # h
    <3>1. Dials(job[g], i)
          BY <1>1, <1>3, <2>2, MovesSo
    <3> QED BY <1>3, <2>2, <3>1 DEF Held
  <2> QED BY <2>1, <2>2
<1> QED BY <1>2, <1>3 DEF Held

LEMMA CoveredKept ==
  ASSUME Sorted, Covered, NEW h \in Handlers, NEW next, Moves(h, next),
         switches' = switches, ToSet(registered') \subseteq ToSet(registered),
         \A i \in ToSet(registered') : i[1] \notin switches /\ i \notin leftOpen' =>
           \/ i \notin linked' /\ \A g \in Handlers : ~Dials(job'[g], i)
           \/ /\ i \notin leftOpen
              /\ i \in linked' => i \in linked \/ Dials(job[h], i)
              /\ Dials(next, i) => Dials(job[h], i)
              /\ Covers(job[h], i) => Covers(next, i)
  PROVE  Covered'
<1>1. job \in [Handlers -> Jobs]
      BY DEF Sorted
<1> SUFFICES ASSUME NEW i \in ToSet(registered'), i[1] \notin switches, i \notin leftOpen',
                    i \in linked' \/ \E g \in Handlers : Dials(job'[g], i)
             PROVE  \E g \in Handlers : Covers(job'[g], i)
      BY DEF Covered
<1>2. i \in ToSet(registered)
      OBVIOUS
<1>3. i \notin leftOpen /\ (i \in linked \/ \E g \in Handlers : Dials(job[g], i))
      BY <1>1, MovesSo
<1>4. PICK g \in Handlers : Covers(job[g], i)
      BY <1>2, <1>3 DEF Covered
<1>5. Covers(job'[g], i)
  <2>1. CASE g # h
        BY <1>1, <1>4, <2>1, MovesSo
  <2>2. CASE g = h
        BY <1>1, <1>4, <2>2, MovesSo
  <2> QED BY <2>1, <2>2
<1> QED BY <1>5

\* A handler that has just told everybody, or will.
LEMMA CoveredByOne ==
  ASSUME NEW h \in Handlers, \A i \in ToSet(registered') : Covers(job'[h], i)
  PROVE  Covered'
BY DEF Covered

LEMMA Alone ==
  ASSUME Sorted, ~crossed => InTurn, ~crossed', NEW h \in Handlers,
         (job[h] # Idle /\ crossed' = crossed) \/ Begins(h)
  PROVE  InTurn /\ \A g \in Handlers : g # h => job[g] = Idle
<1>1. ~crossed
      BY DEF Begins
<1>2. InTurn
      BY <1>1
<1>3. ASSUME NEW g \in Handlers, g # h PROVE job[g] = Idle
      BY <1>2, <1>3 DEF Begins, InTurn
<1> QED BY <1>2, <1>3

\* Presently, after the step.
WillBe(i, key) == i[1] \in switches' /\ params'[i[1]] = key

LEMMA InTurnKept ==
  ASSUME job \in [Handlers -> Jobs], NEW h \in Handlers, NEW next \in Jobs, Moves(h, next),
         \A g \in Handlers : g # h => job[g] = Idle,
         \A i, k \in ToSet(registered') : i[1] = k[1] => i = k,
         \A i \in ToSet(registered') : i[1] \in folders' /\ i[1] \notin Gone(next),
         stray' = {}, sending' \subseteq linked', sending' \subseteq ToSet(registered'),
         \A i \in linked' : i \notin sending' => i \in leftOpen' \/ i \in Cuts(next),
         \A i \in sending' : WillBe(i, active'[i]) \/ Covers(next, i),
         next.at = "dialing" => WillBe(next.left[1], active'[next.left[1]]),
         next.at = "cutting" /\ next.next.at = "redialing" => WillBe(next.inst, next.next.key),
         next.at \in {"dialing", "cutting"} => ~next.lost,
         Cuts(next) \subseteq linked' \ sending', ToVisit(next) \subseteq ToSet(registered'),
         next.at = "setup" => next.inst[1] \in folders'
  PROVE  InTurn'
<1>1. job'[h] = next /\ \A g \in Handlers : g # h => job'[g] = Idle
      BY MovesSo
<1>2. Idle.at = "idle" /\ Cuts(Idle) = {} /\ ToVisit(Idle) = {} /\ Gone(Idle) = {}
      BY DEF Idle, Cuts, ToVisit, Gone
<1>3. ASSUME NEW g \in Handlers
      PROVE  /\ job'[g].at \in {"dialing", "cutting"} => ~job'[g].lost
             /\ Cuts(job'[g]) \subseteq linked' \ sending'
             /\ ToVisit(job'[g]) \subseteq ToSet(registered')
             /\ \A i \in ToSet(registered') : i[1] \notin Gone(job'[g])
             /\ job'[g].at = "setup" => job'[g].inst[1] \in folders'
             /\ job'[g].at = "dialing" => WillBe(job'[g].left[1], active'[job'[g].left[1]])
             /\ job'[g].at = "cutting" /\ job'[g].next.at = "redialing" =>
                  WillBe(job'[g].inst, job'[g].next.key)
  <2>1. CASE g = h
        BY <1>1, <2>1
  <2>2. CASE g # h
    <3>1. job'[g] = Idle
          BY <1>1, <2>2
    <3> QED BY <1>2, <3>1
  <2> QED BY <2>1, <2>2
<1>5. \A g \in Handlers : Fits(job[g])'
      BY <1>3 DEF Fits, Presently, WillBe
<1>6. \A i \in linked' : i \notin sending' => i \in leftOpen' \/ \E g \in Handlers : i \in Cuts(job'[g])
      BY <1>1
<1>8. \A i \in sending' : Presently(i, active[i])' \/ \E g \in Handlers : Covers(job'[g], i)
      BY <1>1 DEF Presently, WillBe
<1>7. \A f, g \in Handlers : job'[f] # Idle /\ job'[g] # Idle => f = g
      BY <1>1
<1> QED BY <1>5, <1>6, <1>7, <1>8 DEF InTurn
-----------------------------------------------------------------------------
LEMMA RestSays ==
  ASSUME NEW j \in Rests
  PROVE  /\ j \in Jobs /\ j.at \notin {"dialing", "cutting", "setup"} /\ Cuts(j) = {} /\ Returns(j)
         /\ \A k : ~Dials(j, k)
         /\ \A k : Covers(j, k) <=> Tells(j, k)
<1>1. j \in Jobs /\ j.at \notin {"dialing", "cutting", "setup"}
      BY RestIs
<1> QED BY <1>1 DEF Cuts, Dials, Covers, Returns

LEMMA VisitingIs ==
  ASSUME NEW left \in Seq(Instances)
  PROVE  LET j == Visiting(left)
         IN  /\ j \in Rests /\ Numbers(j) = {} /\ Gone(j) = {} /\ ToVisit(j) = ToSet(left)
             /\ \A k : Tells(j, k) <=> k \in ToSet(left)
<1>1. CASE left = <<>>
  <2>1. Visiting(left) = Idle /\ ToSet(left) = {}
        BY <1>1, ElementsOf DEF Visiting
  <2>2. Idle \in Rests /\ Idle.at = "idle"
        BY DEF Rests, Idle
  <2>3. Numbers(Idle) = {} /\ Gone(Idle) = {} /\ ToVisit(Idle) = {} /\ \A k : ~Tells(Idle, k)
        BY <2>2 DEF Numbers, Gone, ToVisit, Tells
  <2> QED BY <2>1, <2>2, <2>3
<1>2. CASE left # <<>>
  <2> DEFINE j == [at |-> "visiting", left |-> left]
  <2>1. Visiting(left) = j /\ j \in Rests
        BY <1>2 DEF Visiting, Rests
  <2>2. j.at = "visiting" /\ j.left = left
        OBVIOUS
  <2> HIDE DEF j
  <2>3. /\ Numbers(j) = {} /\ Gone(j) = {} /\ ToVisit(j) = ToSet(left)
        /\ \A k : Tells(j, k) <=> k \in ToSet(left)
        BY <2>2 DEF Numbers, Gone, ToVisit, Tells
  <2> QED BY <2>1, <2>3
<1> QED BY <1>1, <1>2

LEMMA TellingIs ==
  /\ Telling \in Jobs /\ Telling.at = "telling" /\ Telling # Idle /\ Returns(Telling)
  /\ Numbers(Telling) = {} /\ Gone(Telling) = {} /\ ToVisit(Telling) = {} /\ Cuts(Telling) = {}
  /\ \A k : Covers(Telling, k) /\ ~Dials(Telling, k)
<1>1. Telling \in Jobs /\ Telling.at = "telling" /\ Telling # Idle
      BY DEF Jobs, Telling, Idle
<1> QED BY <1>1 DEF Numbers, Gone, ToVisit, Cuts, Covers, Tells, Dials, Returns

\* What is so before every step, in one place.
LEMMA Now ==
  ASSUME PlugInv, NEW h \in Handlers
  PROVE  /\ job \in [Handlers -> Jobs] /\ job[h] \in Jobs /\ registered \in Seq(Instances)
         /\ DOMAIN registered = 1..Len(registered) /\ IsInjective(registered)
         /\ requests \in Nat /\ Sorted /\ Numbered /\ Held /\ Covered /\ OneSwitch
         /\ ToSet(registered) \subseteq Instances
BY ElementsOf, PluginsAssumption DEF PlugInv, Sorted

\* A handler that works alone: which links are not sending, and what sends.
LEMMA NoCuts ==
  ASSUME InTurn, NEW h \in Handlers, \A g \in Handlers : g # h => job[g] = Idle, Cuts(job[h]) = {}
  PROVE  \A i \in linked : i \notin sending => i \in leftOpen
<1>1. Cuts(Idle) = {}
      BY DEF Cuts, Idle
<1>2. \A g \in Handlers : Cuts(job[g]) = {}
      BY <1>1
<1> QED BY <1>2 DEF InTurn

LEMMA Sends ==
  ASSUME InTurn, NEW h \in Handlers, \A g \in Handlers : g # h => job[g] = Idle
  PROVE  \A i \in sending : Presently(i, active[i]) \/ Covers(job[h], i)
<1>1. \A i : ~Covers(Idle, i)
      BY DEF Covers, Tells, Idle
<1> QED BY <1>1 DEF InTurn

LEMMA SaveSettingsKeeps ==
  ASSUME PlugInv, NEW h \in Handlers, NEW on \in SUBSET Plugs, NEW to \in [Plugs -> Params],
         SaveSettings(h, on, to)
  PROVE  PlugInv'
<1>1. /\ Begins(h) /\ Goes(h, Telling) /\ switches' = Resolved(on) /\ job[h] = Idle
      /\ requests' = requests + 1 /\ requests < MaxRequests /\ params' = to
      /\ UNCHANGED <<folders, registered, handle, active, linked, sending, stray, leftOpen>>
      BY DEF SaveSettings, Begins, mesh
<1>2. Moves(h, Telling) /\ job' \in [Handlers -> Jobs] /\ job'[h] = Telling
      BY <1>1, Now, TellingIs, GoesSo, MovesSo
<1>3. switches' \subseteq Plugs /\ OneSwitch'
  <2>1. OneSwitch
        BY DEF PlugInv
  <2>2. Resolved(on) \subseteq on /\ \A p, q \in Resolved(on) : p = q
        BY <2>1 DEF Resolved, OneSwitch
  <2> QED BY <1>1, <2>2 DEF OneSwitch
<1>4. crossed' \in BOOLEAN
      BY Now DEF SaveSettings, Begins, Sorted
<1>5. requests' \in 0..MaxRequests
      BY <1>1, Now, PluginsAssumption
<1>6. Sorted'
      BY <1>1, <1>2, <1>3, <1>4, <1>5, Now DEF Sorted
<1>7. Numbered' /\ Held'
      BY <1>1, <1>2, Now, TellingIs, NumberedKept, HeldKept
<1>8. Covered'
      BY <1>2, TellingIs, CoveredByOne
<1>9. ASSUME ~crossed' PROVE InTurn'
  <2>1. InTurn /\ \A g \in Handlers : g # h => job[g] = Idle
        BY <1>1, <1>9, Now, Alone DEF PlugInv
  <2>2. \A i \in linked : i \notin sending => i \in leftOpen
    <3>1. Cuts(Idle) = {}
          BY DEF Idle, Cuts
    <3> QED BY <1>1, <2>1, <3>1, NoCuts
  <2>3. Telling.at \notin {"dialing", "cutting", "setup"}
        BY TellingIs
  <2>4. stray' = {} /\ sending' \subseteq linked' /\ sending' \subseteq ToSet(registered')
        BY <1>1, <2>1 DEF InTurn
  <2>5. /\ \A i, k \in ToSet(registered') : i[1] = k[1] => i = k
        /\ \A i \in ToSet(registered') : i[1] \in folders' /\ i[1] \notin Gone(Telling)
        BY <1>1, <2>1, TellingIs DEF InTurn
  <2> QED BY <1>1, <1>2, <2>1, <2>2, <2>3, <2>4, <2>5, Now, TellingIs, InTurnKept
<1> QED BY <1>3, <1>6, <1>7, <1>8, <1>9 DEF PlugInv

LEMMA DispatchKeeps ==
  ASSUME PlugInv, NEW h \in Handlers, Dispatch(h)
  PROVE  PlugInv'
<1> DEFINE next == Visiting(registered)
<1>1. /\ job[h] = Telling /\ Goes(h, next)
      /\ UNCHANGED <<switches, params, folders, registered, crossed, requests>>
      /\ UNCHANGED <<handle, active, linked, sending, stray, leftOpen>>
      BY DEF Dispatch, mesh
<1>2. next \in Rests /\ next \in Jobs
      BY Now, VisitingIs, RestSays
<1>3. /\ Numbers(next) = {} /\ Gone(next) = {} /\ ToVisit(next) = ToSet(registered)
      /\ \A k \in ToSet(registered) : Tells(next, k)
      BY Now, VisitingIs
<1>4. /\ next.at \notin {"dialing", "cutting", "setup"} /\ Cuts(next) = {} /\ Returns(next)
      /\ \A k : ~Dials(next, k)
      BY <1>2, RestSays
<1>5. \A k \in ToSet(registered) : Covers(next, k)
      BY <1>2, <1>3, RestSays
<1> HIDE DEF next
<1>6. Moves(h, next) /\ job' \in [Handlers -> Jobs] /\ job'[h] = next
      BY <1>1, <1>2, Now, GoesSo, MovesSo
<1>7. Sorted' /\ OneSwitch'
      BY <1>1, <1>6, Now DEF Sorted, OneSwitch
<1>8. Numbered' /\ Held'
      BY <1>1, <1>3, <1>4, <1>6, Now, NumberedKept, HeldKept
<1>9. Covered'
      BY <1>1, <1>5, <1>6, CoveredByOne
<1>10. ASSUME ~crossed' PROVE InTurn'
  <2>1. InTurn /\ \A g \in Handlers : g # h => job[g] = Idle
        BY <1>1, <1>10, Now, TellingIs, Alone DEF PlugInv
  <2>2. \A i \in linked : i \notin sending => i \in leftOpen
        BY <1>1, <2>1, TellingIs, NoCuts
  <2>3. \A i \in sending : Covers(next, i)
        BY <1>5, <2>1 DEF InTurn
  <2>4. stray' = {} /\ sending' \subseteq linked' /\ sending' \subseteq ToSet(registered')
        BY <1>1, <2>1 DEF InTurn
  <2>5. /\ \A i, k \in ToSet(registered') : i[1] = k[1] => i = k
        /\ \A i \in ToSet(registered') : i[1] \in folders' /\ i[1] \notin Gone(next)
        BY <1>1, <1>3, <2>1 DEF InTurn
  <2> QED BY <1>1, <1>2, <1>3, <1>4, <1>6, <2>1, <2>2, <2>3, <2>4, <2>5, Now, InTurnKept
<1> QED BY <1>7, <1>8, <1>9, <1>10 DEF PlugInv
LEMMA VisitKeeps ==
  ASSUME PlugInv, NEW h \in Handlers, Visit(h)
  PROVE  PlugInv'
<1> DEFINE left == job[h].left
           i == Head(left)
           next == Visiting(Tail(left))
           dial == Dialing(left)
           redial == Redialing(left)
           key == params[i[1]]
<1>1. /\ job[h].at = "visiting" /\ job[h] # Idle
      /\ UNCHANGED <<switches, params, folders, registered, crossed, requests>>
      BY DEF Visit, Idle
<1>2. left \in Seq(Instances) /\ left # <<>>
      BY <1>1, Now, JobIs
<1>3. /\ i = left[1] /\ i \in Instances /\ i \in ToSet(left) /\ Tail(left) \in Seq(Instances)
      /\ ToSet(Tail(left)) \subseteq ToSet(left)
      /\ \A k \in ToSet(left) : k = i \/ k \in ToSet(Tail(left))
      BY <1>2, HeadAndTail
<1>4. /\ next \in Rests /\ Numbers(next) = {} /\ Gone(next) = {}
      /\ ToVisit(next) = ToSet(Tail(left))
      /\ \A k : Tells(next, k) <=> k \in ToSet(Tail(left))
      BY <1>3, VisitingIs
<1>5. /\ ToVisit(job[h]) = ToSet(left) /\ Cuts(job[h]) = {}
      /\ \A k : Covers(job[h], k) => k \in ToSet(left)
      BY <1>1 DEF ToVisit, Cuts, Covers, Tells
<1>6. ~crossed' => /\ InTurn /\ (\A g \in Handlers : g # h => job[g] = Idle)
                   /\ (\A k \in linked : k \notin sending => k \in leftOpen)
                   /\ (\A k \in sending : k # i => Presently(k, active[k]) \/ k \in ToSet(Tail(left)))
                   /\ ToSet(left) \subseteq ToSet(registered)
  <2> SUFFICES ASSUME ~crossed'
               PROVE  /\ InTurn /\ (\A g \in Handlers : g # h => job[g] = Idle)
                      /\ (\A k \in linked : k \notin sending => k \in leftOpen)
                      /\ (\A k \in sending : k # i => Presently(k, active[k]) \/ k \in ToSet(Tail(left)))
                      /\ ToSet(left) \subseteq ToSet(registered)
        OBVIOUS
  <2>1. InTurn /\ \A g \in Handlers : g # h => job[g] = Idle
        BY <1>1, Now, Alone DEF PlugInv
  <2>2. ToVisit(job[h]) \subseteq ToSet(registered)
        BY <2>1 DEF InTurn, Fits
  <2>3. \A k \in sending : Presently(k, active[k]) \/ Covers(job[h], k)
        BY <2>1, Sends
  <2>4. \A k \in linked : k \notin sending => k \in leftOpen
        BY <1>5, <2>1, NoCuts
  <2> QED BY <1>3, <1>5, <2>1, <2>2, <2>3, <2>4
<1>7. /\ redial \in Redials /\ redial.at = "redialing" /\ redial.left = left /\ redial.key = key
      /\ Numbers(redial) = {} /\ Gone(redial) = {} /\ ToVisit(redial) = ToSet(left)
      /\ \A k : Tells(redial, k) <=> k \in ToSet(Tail(left))
  <2>1. key \in Params
        BY <1>3, Now, InstanceIs DEF Sorted
  <2>2. redial \in Redials /\ redial.at = "redialing" /\ redial.left = left /\ redial.key = key
        BY <1>2, <1>3, <2>1 DEF Redialing, Redials
  <2> HIDE DEF redial
  <2> QED BY <2>2 DEF Numbers, Gone, ToVisit, Tells
<1>8. \/ i[1] \notin switches /\ CutNow(h, i, next)
      \/ i[1] \in switches /\ i \in handle /\ active[i] # key /\ CutNow(h, i, redial)
      \/ /\ i[1] \in switches /\ (i \in handle => active[i] = key)
         /\ handle' = handle \cup {i} /\ active' = [active EXCEPT ![i] = key]
         /\ IF i \in linked
            THEN sending' = sending \cup {i} /\ Goes(h, next)
            ELSE Goes(h, dial) /\ sending' = sending
         /\ UNCHANGED <<linked, stray, leftOpen>>
      BY Zenon DEF Visit
<1> HIDE DEF next, dial, redial
\* A transport made with what the settings say: it is used, or dialed.
<1>9. ASSUME NEW j \in Jobs, i[1] \in switches, Goes(h, j), handle' = handle \cup {i},
             active' = [active EXCEPT ![i] = key], UNCHANGED <<linked, stray, leftOpen>>,
             \/ (j = next /\ i \in linked /\ sending' = sending \cup {i})
             \/ (j = dial /\ sending' = sending)
      PROVE  PlugInv'
  <2>1. /\ j.at \notin {"cutting", "setup"} /\ Numbers(j) = {} /\ Gone(j) = {} /\ Cuts(j) = {}
        /\ Returns(j) /\ ToVisit(j) \subseteq ToSet(left)
        /\ (\A k : Dials(j, k) => k = i)
        /\ (\A k : Covers(j, k) <=> k \in ToSet(Tail(left)))
        /\ (j.at = "dialing" => j.left[1] = i /\ ~j.lost)
    <3>1. CASE j = next
          BY <1>3, <1>4, <3>1, RestSays
    <3>2. CASE j = dial
          BY <1>2, <1>3, <3>2, DialingIs DEF dial
    <3> QED BY <1>9, <3>1, <3>2
  <2>2. Moves(h, j) /\ job' \in [Handlers -> Jobs] /\ job'[h] = j
        BY <1>9, Now, GoesSo, MovesSo
  <2>3. /\ active' \in [Instances -> Params] /\ active'[i] = key
        /\ \A k \in Instances : k # i => active'[k] = active[k]
    <3>1. active \in [Instances -> Params] /\ key \in Params
          BY <1>3, Now, InstanceIs DEF Sorted
    <3> QED BY <1>3, <1>9, <3>1
  <2>4. Sorted' /\ OneSwitch'
    <3>1. linked' \subseteq handle' /\ handle' \subseteq Instances /\ sending' \subseteq Instances
          BY <1>3, <1>9, Now DEF Sorted
    <3> QED BY <1>1, <1>9, <2>2, <2>3, <3>1, Now DEF Sorted, OneSwitch
  <2>5. Numbered' /\ Held'
        BY <1>1, <1>9, <2>1, <2>2, Now, NumberedKept, HeldKept
  <2>6. Covered'
    <3>1. \A k : k[1] \notin switches => ~Dials(j, k) /\ (Covers(job[h], k) => Covers(j, k))
          BY <1>3, <1>5, <1>9, <2>1
    <3> QED BY <1>1, <1>9, <2>2, <3>1, Now, CoveredKept
  <2>7. ASSUME ~crossed' PROVE InTurn'
    <3>1. /\ \A k \in linked' : k \notin sending' => k \in leftOpen'
          /\ stray' = {} /\ sending' \subseteq linked' /\ sending' \subseteq ToSet(registered')
          BY <1>1, <1>3, <1>6, <1>9, <2>7 DEF InTurn
    <3>2. WillBe(i, active'[i])
          BY <1>1, <1>9, <2>3 DEF WillBe
    <3>3. \A k \in sending' : WillBe(k, active'[k]) \/ Covers(j, k)
      <4> SUFFICES ASSUME NEW k \in sending', k # i PROVE WillBe(k, active'[k]) \/ Covers(j, k)
            BY <3>2
      <4>1. k \in sending /\ k \in Instances
            BY <1>9, Now DEF Sorted
      <4>2. Presently(k, active[k]) \/ Covers(j, k)
            BY <1>6, <2>1, <2>7, <4>1
      <4> QED BY <1>1, <2>3, <4>1, <4>2 DEF Presently, WillBe
    <3>4. ToVisit(j) \subseteq ToSet(registered')
          BY <1>1, <1>6, <2>1, <2>7
    <3>5. /\ \A k, l \in ToSet(registered') : k[1] = l[1] => k = l
          /\ \A k \in ToSet(registered') : k[1] \in folders' /\ k[1] \notin Gone(j)
          BY <1>1, <1>6, <2>1, <2>7 DEF InTurn
    <3> QED BY <1>6, <2>1, <2>2, <2>7, <3>1, <3>2, <3>3, <3>4, <3>5, Now, InTurnKept
  <2> QED BY <2>4, <2>5, <2>6, <2>7 DEF PlugInv
\* A teardown, which waits or has nothing to wait for.
<1>10. ASSUME NEW nx \in Rests \cup Redials, CutNow(h, i, nx),
              \/ (nx = next /\ i[1] \notin switches)
              \/ (nx = redial /\ i[1] \in switches /\ i \in linked)
       PROVE  PlugInv'
  <2> DEFINE j == CutJob(i, nx)
  <2>1. nx \in Rests \/ (i \in linked /\ nx.left[1] = i)
        BY <1>3, <1>4, <1>7, <1>10
  <2>2. /\ Moves(h, j) /\ job' \in [Handlers -> Jobs]
        /\ linked' = linked /\ stray' = stray /\ sending' = sending \ {i} /\ active' = active
        /\ handle' \subseteq handle /\ handle \subseteq handle' \cup {i}
        /\ leftOpen' \subseteq leftOpen /\ leftOpen \subseteq leftOpen' \cup {i}
        /\ i \in linked => handle' = handle /\ leftOpen' = leftOpen
        /\ i \notin linked => \A g \in Handlers \ {h} : ~Dials(job'[g], i)
        BY <1>3, <1>10, <2>1, Now, CutNowSo
  <2>3. /\ Numbers(nx) = {} /\ Gone(nx) = {} /\ ToVisit(nx) \subseteq ToSet(left)
        /\ \A k : Tells(nx, k) <=> k \in ToSet(Tail(left))
        BY <1>3, <1>4, <1>7, <1>10
  <2>4. /\ j \in Jobs /\ j.at \notin {"dialing", "setup"} /\ Returns(j)
        /\ Numbers(j) = {} /\ Gone(j) = {} /\ ToVisit(j) \subseteq ToSet(left)
        /\ (\A k : ~Dials(j, k)) /\ (\A k : k \in ToSet(Tail(left)) => Covers(j, k))
        /\ i \in linked => /\ Covers(j, i) /\ Cuts(j) = {i} /\ ~j.lost
                           /\ j.inst = i /\ j.next = nx
        /\ i \notin linked => j = nx /\ Cuts(j) = {}
        BY <1>3, <2>1, <2>3, CutJobIs
  <2>5. i \notin linked => j.at # "cutting"
        BY <1>4, <1>10, <2>4, RestSays
  <2> HIDE DEF j
  <2>6. job'[h] = j
        BY <2>2, Now, MovesSo
  <2>7. Sorted' /\ OneSwitch'
    <3>1. linked' \subseteq handle' /\ leftOpen' \subseteq Instances
          BY <2>2, Now DEF Sorted
    <3> QED BY <1>1, <2>2, <3>1, Now DEF Sorted, OneSwitch
  <2>8. Numbered'
        BY <1>1, <2>2, <2>4, Now, NumberedKept
  <2>9. Held'
        BY <2>2, <2>4, Now, HeldKept
  <2>10. Covered'
    <3>1. \A k : k # i /\ Covers(job[h], k) => Covers(j, k)
          BY <1>3, <1>5, <2>4
    <3>2. i \notin linked => \A g \in Handlers : ~Dials(job'[g], i)
          BY <2>2, <2>4, <2>6
    <3>3. \A k \in ToSet(registered') : k[1] \notin switches /\ k \notin leftOpen' =>
            \/ k \notin linked' /\ \A g \in Handlers : ~Dials(job'[g], k)
            \/ /\ k \notin leftOpen
               /\ k \in linked' => k \in linked \/ Dials(job[h], k)
               /\ Dials(j, k) => Dials(job[h], k)
               /\ Covers(job[h], k) => Covers(j, k)
          BY <2>2, <2>4, <3>1, <3>2
    <3> QED BY <1>1, <2>2, <3>3, Now, CoveredKept
  <2>11. ASSUME ~crossed' PROVE InTurn'
    <3>1. ToVisit(j) \subseteq ToSet(registered')
          BY <1>1, <1>6, <2>4, <2>11
    <3>2. sending' \subseteq linked' /\ sending' \subseteq ToSet(registered') /\ stray' = {}
          BY <1>1, <1>6, <2>2, <2>11 DEF InTurn
    <3>3. /\ \A k \in linked' : k \notin sending' => k \in leftOpen' \/ k \in Cuts(j)
          /\ Cuts(j) \subseteq linked' \ sending'
          BY <1>6, <2>2, <2>4, <2>11
    <3>4. j.at \in {"dialing", "cutting"} => ~j.lost
          BY <2>4, <2>5
    <3>5. \A k \in sending' : WillBe(k, active'[k]) \/ Covers(j, k)
          BY <1>1, <1>6, <2>2, <2>4, <2>11 DEF Presently, WillBe
    <3>6. j.at = "cutting" /\ j.next.at = "redialing" => WillBe(j.inst, j.next.key)
      <4>1. nx = next => nx.at # "redialing"
            BY <1>4, RestIs
      <4> QED BY <1>1, <1>7, <1>10, <2>4, <2>5, <4>1 DEF WillBe
    <3>7. /\ \A k, l \in ToSet(registered') : k[1] = l[1] => k = l
          /\ \A k \in ToSet(registered') : k[1] \in folders' /\ k[1] \notin Gone(j)
          BY <1>1, <1>6, <2>4, <2>11 DEF InTurn
    <3> QED BY <1>6, <2>2, <2>4, <2>11, <3>1, <3>2, <3>3, <3>4, <3>5, <3>6, <3>7, Now, InTurnKept
  <2> QED BY <2>7, <2>8, <2>9, <2>10, <2>11 DEF PlugInv
\* Other parameters, and no link to close.
<1>11. ASSUME i[1] \in switches, i \notin linked, CutNow(h, i, redial) PROVE PlugInv'
  <2>1. /\ Cleared(h, i, redial) /\ sending' = sending \ {i} /\ linked' = linked /\ stray' = stray
        BY <1>11 DEF CutNow
  <2>2. /\ Moves(h, dial) /\ job' \in [Handlers -> Jobs] /\ handle' = handle \cup {i}
        /\ active' = [active EXCEPT ![i] = key] /\ leftOpen' = leftOpen \ {i}
        /\ \A g \in Handlers \ {h} : ~Dials(job'[g], i)
        BY <1>3, <1>7, <1>11, <2>1, Now, RedialSo DEF dial
  <2>3. /\ dial \in Jobs /\ dial.at = "dialing" /\ dial.left = left /\ dial.lost = FALSE
        /\ Numbers(dial) = {} /\ Gone(dial) = {} /\ ToVisit(dial) = ToSet(left) /\ Cuts(dial) = {}
        /\ Returns(dial) /\ (\A k : Dials(dial, k) => k = i)
        /\ \A k : Covers(dial, k) <=> k \in ToSet(Tail(left))
        BY <1>2, <1>3, DialingIs DEF dial
  <2>4. /\ active' \in [Instances -> Params] /\ active'[i] = key
        /\ \A k \in Instances : k # i => active'[k] = active[k]
    <3>1. active \in [Instances -> Params] /\ key \in Params
          BY <1>3, Now, InstanceIs DEF Sorted
    <3> QED BY <1>3, <2>2, <3>1
  <2>5. Sorted' /\ OneSwitch'
    <3>1. linked' \subseteq handle' /\ handle' \subseteq Instances /\ leftOpen' \subseteq Instances
          BY <1>3, <2>1, <2>2, Now DEF Sorted
    <3> QED BY <1>1, <2>1, <2>2, <2>4, <3>1, Now DEF Sorted, OneSwitch
  <2>6. Numbered' /\ Held'
        BY <1>1, <2>2, <2>3, Now, NumberedKept, HeldKept
  <2>7. Covered'
    <3>1. \A k : k[1] \notin switches =>
            ~Dials(dial, k) /\ (Covers(job[h], k) => Covers(dial, k)) /\ (k \in leftOpen => k \in leftOpen')
          BY <1>3, <1>5, <1>11, <2>2, <2>3, SMTT(60)
    <3> QED BY <1>1, <2>1, <2>2, <3>1, Now, CoveredKept
  <2>8. ASSUME ~crossed' PROVE InTurn'
    <3>1. /\ \A k \in linked' : k \notin sending' => k \in leftOpen'
          /\ stray' = {} /\ sending' \subseteq linked' /\ sending' \subseteq ToSet(registered')
          BY <1>1, <1>6, <1>11, <2>1, <2>2, <2>8 DEF InTurn
    <3>2. WillBe(dial.left[1], active'[dial.left[1]])
          BY <1>1, <1>3, <1>11, <2>3, <2>4 DEF WillBe
    <3>3. \A k \in sending' : WillBe(k, active'[k]) \/ Covers(dial, k)
      <4> SUFFICES ASSUME NEW k \in sending' PROVE WillBe(k, active'[k]) \/ Covers(dial, k)
            OBVIOUS
      <4>1. k \in sending /\ k \in Instances /\ k # i
            BY <2>1, Now DEF Sorted
      <4>2. Presently(k, active[k]) \/ Covers(dial, k)
            BY <1>6, <2>3, <2>8, <4>1
      <4> QED BY <1>1, <2>4, <4>1, <4>2 DEF Presently, WillBe
    <3>4. ToVisit(dial) \subseteq ToSet(registered')
          BY <1>1, <1>6, <2>3, <2>8
    <3>5. /\ \A k, l \in ToSet(registered') : k[1] = l[1] => k = l
          /\ \A k \in ToSet(registered') : k[1] \in folders' /\ k[1] \notin Gone(dial)
          BY <1>1, <1>6, <2>3, <2>8 DEF InTurn
    <3> QED BY <1>6, <2>2, <2>3, <2>8, <3>1, <3>2, <3>3, <3>4, <3>5, Now, InTurnKept
  <2> QED BY <2>5, <2>6, <2>7, <2>8 DEF PlugInv
<1>12. next \in Jobs /\ dial \in Jobs
       BY <1>2, <1>4, RestIs, DialingIs DEF dial
<1> QED BY <1>4, <1>7, <1>8, <1>9, <1>10, <1>11, <1>12

LEMMA DialDoneKeeps ==
  ASSUME PlugInv, NEW h \in Handlers, NEW ok \in BOOLEAN, DialDone(h, ok)
  PROVE  PlugInv'
<1> DEFINE left == job[h].left
           i == Head(left)
           next == Visiting(Tail(left))
<1>1. /\ job[h].at = "dialing" /\ job[h] # Idle /\ Goes(h, next)
      /\ linked' = IF ok /\ ~job[h].lost THEN linked \cup {i} ELSE linked
      /\ stray' = IF ok /\ job[h].lost THEN stray \cup {i} ELSE stray
      /\ sending' = IF ok THEN sending \cup {i} ELSE sending
      /\ UNCHANGED <<switches, params, folders, registered, handle, active, leftOpen, crossed, requests>>
      BY DEF DialDone, Idle
<1>2. left \in Seq(Instances) /\ left # <<>>
      BY <1>1, Now, JobIs
<1>3. /\ i = left[1] /\ i \in Instances /\ i \in ToSet(left) /\ Tail(left) \in Seq(Instances)
      /\ ToSet(Tail(left)) \subseteq ToSet(left)
      BY <1>2, HeadAndTail
<1>4. /\ next \in Rests /\ Numbers(next) = {} /\ Gone(next) = {}
      /\ ToVisit(next) = ToSet(Tail(left))
      /\ \A k : Tells(next, k) <=> k \in ToSet(Tail(left))
      BY <1>3, VisitingIs
<1>5. /\ ToVisit(job[h]) = ToSet(left) /\ Cuts(job[h]) = {}
      /\ (\A k : Covers(job[h], k) => k \in ToSet(Tail(left)))
      /\ ~job[h].lost => Dials(job[h], i)
      BY <1>1, <1>3 DEF ToVisit, Cuts, Covers, Tells, Dials
<1>6. /\ next \in Jobs /\ next.at \notin {"dialing", "cutting", "setup"} /\ Cuts(next) = {}
      /\ Returns(next) /\ (\A k : ~Dials(next, k)) /\ \A k : Covers(next, k) <=> k \in ToSet(Tail(left))
      BY <1>4, RestSays
<1> HIDE DEF next, i
<1>7. Moves(h, next) /\ job' \in [Handlers -> Jobs] /\ job'[h] = next
      BY <1>1, <1>6, Now, GoesSo, MovesSo
<1>8. Sorted' /\ OneSwitch'
  <2>1. ~job[h].lost => i \in handle
        BY <1>3, <1>5, Now DEF Held
  <2>2. linked' \subseteq handle' /\ sending' \subseteq Instances /\ stray' \subseteq Instances
        BY <1>1, <1>3, <2>1, Now DEF Sorted
  <2> QED BY <1>1, <1>7, <2>2, Now DEF Sorted, OneSwitch
<1>9. Numbered' /\ Held'
      BY <1>1, <1>4, <1>6, <1>7, Now, NumberedKept, HeldKept
<1>10. Covered'
  <2>1. \A k : k \in linked' => k \in linked \/ Dials(job[h], k)
        BY <1>1, <1>5
  <2> QED BY <1>1, <1>5, <1>6, <1>7, <2>1, Now, CoveredKept
<1>11. ASSUME ~crossed' PROVE InTurn'
  <2>1. InTurn /\ \A g \in Handlers : g # h => job[g] = Idle
        BY <1>1, <1>11, Now, Alone DEF PlugInv
  <2>2. ToSet(left) \subseteq ToSet(registered) /\ ~job[h].lost
        BY <1>1, <1>5, <2>1 DEF InTurn, Fits
  <2>3. /\ \A k \in linked : k \notin sending => k \in leftOpen
        /\ \A k \in sending : Presently(k, active[k]) \/ Covers(job[h], k)
        BY <1>5, <2>1, NoCuts, Sends
  <2>4. \A k \in linked' : k \notin sending' => k \in leftOpen'
        BY <1>1, <2>2, <2>3
  <2>5. stray' = {} /\ sending' \subseteq linked' /\ sending' \subseteq ToSet(registered')
        BY <1>1, <1>3, <2>1, <2>2 DEF InTurn
  <2>6. ToVisit(next) \subseteq ToSet(registered')
        BY <1>1, <1>3, <1>4, <2>2
  <2>7. Presently(i, active[i])
        BY <1>1, <1>3, <2>1 DEF InTurn, Fits
  <2>8. \A k \in sending' : WillBe(k, active'[k]) \/ Covers(next, k)
        BY <1>1, <1>5, <1>6, <2>3, <2>7 DEF Presently, WillBe
  <2> QED BY <1>1, <1>4, <1>6, <1>7, <2>1, <2>4, <2>5, <2>6, <2>8, Now, InTurnKept DEF InTurn
<1> QED BY <1>8, <1>9, <1>10, <1>11 DEF PlugInv
LEMMA CutDoneKeeps ==
  ASSUME PlugInv, NEW h \in Handlers, NEW ok \in BOOLEAN, CutDone(h, ok)
  PROVE  PlugInv'
<1> DEFINE i == job[h].inst
           next == job[h].next
           on == IF next.at = "redialing" THEN Visiting(Tail(next.left)) ELSE next
<1>1. /\ job[h].at = "cutting" /\ job[h] # Idle
      /\ UNCHANGED <<switches, params, folders, registered, sending, crossed, requests>>
      /\ \/ /\ linked' = linked \ {i} /\ Cleared(h, i, next)
            /\ stray' = IF job[h].lost /\ i \in linked THEN stray \cup {i} ELSE stray
         \/ /\ leftOpen' = leftOpen \cup {i} /\ Goes(h, on)
            /\ UNCHANGED <<linked, stray, handle, active>>
  <2>1. job[h].at = "cutting" /\ job[h] # Idle
        BY DEF CutDone, Idle
  <2>2. /\ UNCHANGED <<switches, params, folders, registered, sending, crossed, requests>>
        /\ \/ /\ linked' = linked \ {i} /\ Cleared(h, i, next)
              /\ stray' = IF job[h].lost /\ i \in linked THEN stray \cup {i} ELSE stray
           \/ /\ leftOpen' = leftOpen \cup {i} /\ Goes(h, on)
              /\ UNCHANGED <<linked, stray, handle, active>>
        BY Zenon DEF CutDone
  <2> QED BY <2>1, <2>2
<1>2. /\ i \in Instances /\ next \in Rests \cup Redials /\ Cuts(job[h]) = {i}
      /\ next \in Rests => next.at # "redialing"
      /\ next.at = "redialing" => next \in Redials /\ next.left[1] = i
  <2>1. i \in Instances /\ next \in Rests \cup Redials /\ Returns(job[h])
        BY <1>1, Now, JobIs DEF Held
  <2>2. next \in Rests => next.at # "redialing"
        BY RestIs
  <2> QED BY <1>1, <2>1, <2>2 DEF Cuts, Returns
<1>3. /\ ToVisit(job[h]) = IF next.at = "redialing" THEN ToSet(next.left) ELSE ToVisit(next)
      /\ next.at # "redialing" => Gone(next) = Gone(job[h]) /\ Numbers(next) = Numbers(job[h])
      /\ \A k : Covers(job[h], k) => k = i \/ Tells(next, k)
  <2>1. next \in Rests => next.at \in {"idle", "visiting", "loading", "copying", "removing"}
        BY RestIs
  <2>2. next.at # "redialing" => next \in Rests
        BY <1>2, RedialIs
  <2> QED BY <1>1, <2>1, <2>2 DEF ToVisit, Gone, Numbers, Covers, Tells
<1>4. ~crossed' => /\ InTurn /\ (\A g \in Handlers : g # h => job[g] = Idle)
                   /\ ~job[h].lost /\ i \notin sending /\ ToVisit(job[h]) \subseteq ToSet(registered)
                   /\ (\A k \in linked : k \notin sending => k \in leftOpen \/ k = i)
                   /\ (\A k \in sending : Presently(k, active[k]) \/ Tells(next, k))
                   /\ (\A k \in ToSet(registered) : k[1] \notin Gone(job[h]))
                   /\ (next.at = "redialing" => Presently(i, next.key))
  <2> SUFFICES ASSUME ~crossed'
               PROVE  /\ InTurn /\ (\A g \in Handlers : g # h => job[g] = Idle)
                      /\ ~job[h].lost /\ i \notin sending /\ ToVisit(job[h]) \subseteq ToSet(registered)
                      /\ (\A k \in linked : k \notin sending => k \in leftOpen \/ k = i)
                      /\ (\A k \in sending : Presently(k, active[k]) \/ Tells(next, k))
                      /\ (\A k \in ToSet(registered) : k[1] \notin Gone(job[h]))
                      /\ (next.at = "redialing" => Presently(i, next.key))
        OBVIOUS
  <2>1. InTurn /\ \A g \in Handlers : g # h => job[g] = Idle
        BY <1>1, Now, Alone DEF PlugInv
  <2>2. Fits(job[h]) /\ Cuts(Idle) = {}
        BY <2>1 DEF InTurn, Idle, Cuts
  <2>3. /\ ~job[h].lost /\ i \notin sending /\ ToVisit(job[h]) \subseteq ToSet(registered)
        /\ (\A k \in ToSet(registered) : k[1] \notin Gone(job[h]))
        /\ (next.at = "redialing" => Presently(i, next.key))
        BY <1>1, <1>2, <2>2 DEF Fits
  <2>4. \A k \in linked : k \notin sending => k \in leftOpen \/ k = i
        BY <1>2, <2>1, <2>2 DEF InTurn
  <2>5. \A k \in sending : Presently(k, active[k]) \/ Tells(next, k)
        BY <1>3, <2>1, <2>3, Sends
  <2> QED BY <2>1, <2>3, <2>4, <2>5
\* What it goes on with, if it does not dial.
<1>5. /\ on \in Rests /\ on \in Jobs /\ on.at \notin {"dialing", "cutting", "setup"} /\ Cuts(on) = {}
      /\ Returns(on) /\ (\A k : ~Dials(on, k)) /\ (\A k : Tells(next, k) => Covers(on, k))
      /\ Numbers(on) \subseteq Numbers(job[h]) /\ Gone(on) \subseteq Gone(job[h])
      /\ ToVisit(on) \subseteq ToVisit(job[h])
  <2>1. CASE next.at = "redialing"
    <3>1. next.left \in Seq(Instances) /\ next.left # <<>>
          BY <1>2, <2>1, RedialIs
    <3>2. Tail(next.left) \in Seq(Instances) /\ ToSet(Tail(next.left)) \subseteq ToSet(next.left)
          BY <3>1, HeadAndTail
    <3>3. /\ on \in Rests /\ Numbers(on) = {} /\ Gone(on) = {} /\ ToVisit(on) = ToSet(Tail(next.left))
          /\ \A k : Tells(on, k) <=> k \in ToSet(Tail(next.left))
          BY <2>1, <3>2, VisitingIs
    <3>4. \A k : Tells(next, k) => k \in ToSet(Tail(next.left))
          BY <2>1 DEF Tells
    <3> HIDE DEF on
    <3> QED BY <1>3, <2>1, <3>2, <3>3, <3>4, RestSays
  <2>2. CASE next.at # "redialing"
    <3>1. next \in Rests /\ on = next
          BY <1>2, <2>2, RedialIs
    <3> HIDE DEF on, next
    <3> QED BY <1>3, <2>2, <3>1, RestSays
  <2> QED BY <2>1, <2>2
<1>6. /\ Sorted /\ job \in [Handlers -> Jobs]
      BY Now
<1> HIDE DEF next, i, on
\* disconnect() raises
<1>7. ASSUME leftOpen' = leftOpen \cup {i}, Goes(h, on), UNCHANGED <<linked, stray, handle, active>>
      PROVE  PlugInv'
  <2>1. Moves(h, on) /\ job' \in [Handlers -> Jobs] /\ job'[h] = on
        BY <1>5, <1>6, <1>7, GoesSo, MovesSo
  <2>2. Sorted' /\ OneSwitch'
        BY <1>1, <1>2, <1>7, <2>1, Now DEF Sorted, OneSwitch
  <2>3. Numbered' /\ Held'
        BY <1>1, <1>5, <1>7, <2>1, Now, NumberedKept, HeldKept
  <2>4. Covered'
    <3>1. \A k \in ToSet(registered') : k[1] \notin switches /\ k \notin leftOpen' =>
            /\ k \notin leftOpen
            /\ k \in linked' => k \in linked \/ Dials(job[h], k)
            /\ Dials(on, k) => Dials(job[h], k)
            /\ Covers(job[h], k) => Covers(on, k)
          BY <1>3, <1>5, <1>7
    <3> QED BY <1>1, <2>1, <3>1, Now, CoveredKept
  <2>5. ASSUME ~crossed' PROVE InTurn'
    <3>1. /\ \A k \in linked' : k \notin sending' => k \in leftOpen'
          /\ stray' = {} /\ sending' \subseteq linked' /\ sending' \subseteq ToSet(registered')
          BY <1>1, <1>4, <1>7, <2>5 DEF InTurn
    <3>2. \A k \in sending' : WillBe(k, active'[k]) \/ Covers(on, k)
          BY <1>1, <1>4, <1>5, <1>7, <2>5 DEF Presently, WillBe
    <3>3. ToVisit(on) \subseteq ToSet(registered')
          BY <1>1, <1>4, <1>5, <2>5
    <3>4. /\ \A k, l \in ToSet(registered') : k[1] = l[1] => k = l
          /\ \A k \in ToSet(registered') : k[1] \in folders' /\ k[1] \notin Gone(on)
          BY <1>1, <1>4, <1>5, <2>5 DEF InTurn
    <3> QED BY <1>4, <1>5, <1>6, <2>1, <2>5, <3>1, <3>2, <3>3, <3>4, InTurnKept
  <2> QED BY <2>2, <2>3, <2>4, <2>5 DEF PlugInv
\* it returns, and that is all
<1>8. ASSUME next.at # "redialing", linked' = linked \ {i}, Cleared(h, i, next),
             stray' = IF job[h].lost /\ i \in linked THEN stray \cup {i} ELSE stray
      PROVE  PlugInv'
  <2>1. on = next
        BY <1>8 DEF on
  <2>2. /\ GoesClearing(h, on, i) /\ handle' = handle \ {i} /\ leftOpen' = leftOpen \ {i} /\ active' = active
        BY <1>8, <2>1, Zenon DEF Cleared
  <2>3. /\ Moves(h, on) /\ job' \in [Handlers -> Jobs] /\ job'[h] = on
        /\ \A g \in Handlers \ {h} : ~Dials(job'[g], i)
        BY <1>5, <1>6, <2>2, ClearsSo, MovesSo
  <2>4. Sorted' /\ OneSwitch'
    <3>1. linked' \subseteq handle' /\ stray' \subseteq Instances /\ handle' \subseteq Instances
          BY <1>2, <1>8, <2>2, Now DEF Sorted
    <3> QED BY <1>1, <2>2, <2>3, <3>1, Now DEF Sorted, OneSwitch
  <2>5. Numbered'
        BY <1>1, <1>5, <2>3, Now, NumberedKept
  <2>6. Held'
    <3>1. \A k \in Instances : k \in handle /\ k \notin handle' => \A g \in Handlers \ {h} : ~Dials(job'[g], k)
          BY <2>2, <2>3
    <3> QED BY <1>5, <2>3, <3>1, Now, HeldKept
  <2>7. Covered'
    <3>1. \A k \in ToSet(registered') : k[1] \notin switches /\ k \notin leftOpen' =>
            \/ k \notin linked' /\ \A g \in Handlers : ~Dials(job'[g], k)
            \/ /\ k \notin leftOpen
               /\ k \in linked' => k \in linked \/ Dials(job[h], k)
               /\ Dials(on, k) => Dials(job[h], k)
               /\ Covers(job[h], k) => Covers(on, k)
          BY <1>3, <1>5, <1>8, <2>2, <2>3
    <3> QED BY <1>1, <2>3, <3>1, Now, CoveredKept
  <2>8. ASSUME ~crossed' PROVE InTurn'
    <3>1. /\ \A k \in linked' : k \notin sending' => k \in leftOpen'
          /\ stray' = {} /\ sending' \subseteq linked' /\ sending' \subseteq ToSet(registered')
          BY <1>1, <1>4, <1>8, <2>2, <2>8 DEF InTurn
    <3>2. \A k \in sending' : WillBe(k, active'[k]) \/ Covers(on, k)
          BY <1>1, <1>4, <1>5, <2>2, <2>8 DEF Presently, WillBe
    <3>3. ToVisit(on) \subseteq ToSet(registered')
          BY <1>1, <1>4, <1>5, <2>8
    <3>4. /\ \A k, l \in ToSet(registered') : k[1] = l[1] => k = l
          /\ \A k \in ToSet(registered') : k[1] \in folders' /\ k[1] \notin Gone(on)
          BY <1>1, <1>4, <1>5, <2>8 DEF InTurn
    <3> QED BY <1>4, <1>5, <1>6, <2>3, <2>8, <3>1, <3>2, <3>3, <3>4, InTurnKept
  <2> QED BY <2>4, <2>5, <2>6, <2>7, <2>8 DEF PlugInv
\* it returns, and the instance is connected again
<1>9. ASSUME next.at = "redialing", linked' = linked \ {i}, Cleared(h, i, next),
             stray' = IF job[h].lost /\ i \in linked THEN stray \cup {i} ELSE stray
      PROVE  PlugInv'
  <2> DEFINE left == next.left
             dial == Dialing(left)
  <2>1. next \in Redials /\ left \in Seq(Instances) /\ left # <<>> /\ left[1] = i /\ next.key \in Params
        BY <1>2, <1>9, RedialIs
  <2>2. /\ Moves(h, dial) /\ job' \in [Handlers -> Jobs] /\ handle' = handle \cup {i}
        /\ active' = [active EXCEPT ![i] = next.key]
        /\ leftOpen' = IF i[1] \in switches THEN leftOpen \ {i} ELSE leftOpen \cup {i}
        /\ \A g \in Handlers \ {h} : ~Dials(job'[g], i)
        BY <1>2, <1>6, <1>9, <2>1, RedialSo
  <2>3. /\ dial \in Jobs /\ dial.at = "dialing" /\ dial.left = left /\ dial.lost = FALSE
        /\ Numbers(dial) = {} /\ Gone(dial) = {} /\ ToVisit(dial) = ToSet(left) /\ Cuts(dial) = {}
        /\ Returns(dial) /\ (\A k : Dials(dial, k) => k = i)
        /\ \A k : Covers(dial, k) <=> k \in ToSet(Tail(left))
        BY <2>1, DialingIs
  <2>4. \A k : Tells(next, k) => k \in ToSet(Tail(left))
        BY <1>9 DEF Tells
  <2>5. /\ active' \in [Instances -> Params] /\ active'[i] = next.key
        /\ \A k \in Instances : k # i => active'[k] = active[k]
    <3>1. active \in [Instances -> Params]
          BY Now DEF Sorted
    <3> QED BY <1>2, <2>1, <2>2, <3>1
  <2> HIDE DEF dial, left
  <2>6. Sorted' /\ OneSwitch'
    <3>1. /\ linked' \subseteq handle' /\ stray' \subseteq Instances /\ handle' \subseteq Instances
          /\ leftOpen' \subseteq Instances
          BY <1>2, <1>9, <2>2, Now DEF Sorted
    <3> QED BY <1>1, <2>2, <2>5, <3>1, Now DEF Sorted, OneSwitch
  <2>7. Numbered' /\ Held'
        BY <1>1, <2>2, <2>3, Now, NumberedKept, HeldKept
  <2>8. Covered'
    <3>1. \A k \in ToSet(registered') : k[1] \notin switches /\ k \notin leftOpen' =>
            /\ k \notin leftOpen
            /\ k \in linked' => k \in linked \/ Dials(job[h], k)
            /\ Dials(dial, k) => Dials(job[h], k)
            /\ Covers(job[h], k) => Covers(dial, k)
          BY <1>3, <1>9, <2>2, <2>3, <2>4
    <3> QED BY <1>1, <2>2, <3>1, Now, CoveredKept
  <2>9. ASSUME ~crossed' PROVE InTurn'
    <3>1. i[1] \in switches /\ WillBe(i, active'[i])
          BY <1>1, <1>4, <1>9, <2>5, <2>9 DEF Presently, WillBe
    <3>2. /\ \A k \in linked' : k \notin sending' => k \in leftOpen'
          /\ stray' = {} /\ sending' \subseteq linked' /\ sending' \subseteq ToSet(registered')
          BY <1>1, <1>4, <1>9, <2>2, <2>9, <3>1 DEF InTurn
    <3>3. \A k \in sending' : WillBe(k, active'[k]) \/ Covers(dial, k)
      <4> SUFFICES ASSUME NEW k \in sending' PROVE WillBe(k, active'[k]) \/ Covers(dial, k)
            OBVIOUS
      <4>1. k \in sending /\ k \in Instances /\ k # i
            BY <1>1, <1>4, <2>9, Now DEF Sorted
      <4>2. Presently(k, active[k]) \/ Covers(dial, k)
            BY <1>4, <2>3, <2>4, <2>9, <4>1
      <4> QED BY <1>1, <2>5, <4>1, <4>2 DEF Presently, WillBe
    <3>4. ToVisit(dial) \subseteq ToSet(registered')
          BY <1>1, <1>3, <1>4, <1>9, <2>3, <2>9 DEF left
    <3>5. /\ \A k, l \in ToSet(registered') : k[1] = l[1] => k = l
          /\ \A k \in ToSet(registered') : k[1] \in folders' /\ k[1] \notin Gone(dial)
          BY <1>1, <1>4, <2>3, <2>9 DEF InTurn
    <3>6. /\ dial.at = "dialing" => WillBe(dial.left[1], active'[dial.left[1]])
          /\ dial.at \in {"dialing", "cutting"} => ~dial.lost
          BY <2>1, <2>3, <3>1 DEF left
    <3> QED BY <1>4, <1>6, <2>2, <2>3, <2>9, <3>2, <3>3, <3>4, <3>5, <3>6, InTurnKept
  <2> QED BY <2>6, <2>7, <2>8, <2>9 DEF PlugInv
<1> QED BY <1>1, <1>7, <1>8, <1>9

LEMMA RemoveFolderKeeps ==
  ASSUME PlugInv, NEW h \in Handlers, RemoveFolder(h)
  PROVE  PlugInv'
<1>1. /\ job[h].at = "removing" /\ job[h] # Idle /\ Goes(h, Idle) /\ folders' = folders \ {job[h].plug}
      /\ UNCHANGED <<switches, params, registered, crossed, requests>>
      /\ UNCHANGED <<handle, active, linked, sending, stray, leftOpen>>
      BY DEF RemoveFolder, mesh, Idle
<1>2. Idle \in Rests /\ Idle.at = "idle"
      BY DEF Rests, Idle
<1>3. /\ Idle \in Jobs /\ Numbers(Idle) = {} /\ Gone(Idle) = {} /\ ToVisit(Idle) = {} /\ Cuts(Idle) = {}
      /\ (\A k : ~Dials(Idle, k)) /\ Idle.at \notin {"dialing", "cutting", "setup"} /\ Returns(Idle)
      BY <1>2, RestSays DEF Numbers, Gone, ToVisit
<1>4. Cuts(job[h]) = {} /\ Gone(job[h]) = {job[h].plug} /\ \A k : ~Covers(job[h], k)
      BY <1>1 DEF Cuts, Gone, Covers, Tells
<1>5. Moves(h, Idle) /\ job' \in [Handlers -> Jobs]
      BY <1>1, <1>3, Now, GoesSo
<1>6. Sorted' /\ OneSwitch'
      BY <1>1, <1>5, Now DEF Sorted, OneSwitch
<1>7. Numbered' /\ Held'
      BY <1>1, <1>3, <1>5, Now, NumberedKept, HeldKept
<1>8. Covered'
      BY <1>1, <1>3, <1>4, <1>5, Now, CoveredKept
<1>9. ASSUME ~crossed' PROVE InTurn'
  <2>1. InTurn /\ \A g \in Handlers : g # h => job[g] = Idle
        BY <1>1, <1>9, Now, Alone DEF PlugInv
  <2>2. /\ \A k \in linked : k \notin sending => k \in leftOpen
        /\ \A k \in sending' : WillBe(k, active'[k])
        BY <1>1, <1>4, <2>1, NoCuts, Sends DEF Presently, WillBe
  <2>3. \A k \in ToSet(registered) : k[1] \in folders /\ k[1] # job[h].plug
        BY <1>4, <2>1 DEF InTurn, Fits
  <2>4. \A k \in ToSet(registered') : k[1] \in folders' /\ k[1] \notin Gone(Idle)
        BY <1>1, <1>3, <2>3
  <2> QED BY <1>1, <1>3, <1>5, <2>1, <2>2, <2>4, Now, InTurnKept DEF InTurn
<1> QED BY <1>6, <1>7, <1>8, <1>9 DEF PlugInv

LEMMA LoadKeeps ==
  ASSUME PlugInv, NEW h \in Handlers, Load(h)
  PROVE  PlugInv'
<1> DEFINE p == job[h].plug
           setup == [at |-> "setup", inst |-> <<p, job[h].no>>]
           next == IF p \in folders THEN setup ELSE Telling
<1>1. /\ job[h].at = "loading" /\ job[h] # Idle /\ Goes(h, next)
      /\ UNCHANGED <<switches, params, folders, registered, crossed, requests>>
      /\ UNCHANGED <<handle, active, linked, sending, stray, leftOpen>>
      BY DEF Load, mesh, Idle
<1>2. p \in Plugs /\ job[h].no \in 1..MaxRequests
      BY <1>1, Now, JobIs
<1>3. Cuts(job[h]) = {} /\ Gone(job[h]) = {p} /\ Numbers(job[h]) = {job[h].no}
      BY <1>1 DEF Cuts, Gone, Numbers
<1>4. setup \in Jobs /\ setup.at = "setup" /\ setup.inst[1] = p /\ setup.inst[2] = job[h].no
      BY <1>2 DEF Jobs
<1> HIDE DEF setup
<1>5. /\ Numbers(setup) = {job[h].no} /\ Gone(setup) = {p} /\ ToVisit(setup) = {} /\ Cuts(setup) = {}
      /\ Returns(setup) /\ \A k : Covers(setup, k) /\ ~Dials(setup, k)
      BY <1>4 DEF Numbers, Gone, ToVisit, Cuts, Covers, Tells, Dials, Returns
<1>6. /\ next \in Jobs /\ Numbers(next) \subseteq Numbers(job[h]) /\ Gone(next) \subseteq {p}
      /\ ToVisit(next) = {} /\ Cuts(next) = {} /\ next.at \notin {"dialing", "cutting"} /\ Returns(next)
      /\ (\A k : Covers(next, k) /\ ~Dials(next, k))
      /\ next.at = "setup" => p \in folders /\ next.inst[1] = p
      BY <1>3, <1>4, <1>5, TellingIs
<1> HIDE DEF next
<1>7. Moves(h, next) /\ job' \in [Handlers -> Jobs] /\ job'[h] = next
      BY <1>1, <1>6, Now, GoesSo, MovesSo
<1>8. Sorted' /\ OneSwitch'
      BY <1>1, <1>7, Now DEF Sorted, OneSwitch
<1>9. Numbered' /\ Held'
      BY <1>1, <1>6, <1>7, Now, NumberedKept, HeldKept
<1>10. Covered'
      BY <1>6, <1>7, CoveredByOne
<1>11. ASSUME ~crossed' PROVE InTurn'
  <2>1. InTurn /\ \A g \in Handlers : g # h => job[g] = Idle
        BY <1>1, <1>11, Now, Alone DEF PlugInv
  <2>2. \A k \in linked : k \notin sending => k \in leftOpen
        BY <1>3, <2>1, NoCuts
  <2>3. \A k \in ToSet(registered) : k[1] \in folders /\ k[1] \notin Gone(next)
        BY <1>3, <1>6, <2>1 DEF InTurn, Fits
  <2> QED BY <1>1, <1>6, <1>7, <2>1, <2>2, <2>3, Now, InTurnKept DEF InTurn
<1> QED BY <1>8, <1>9, <1>10, <1>11 DEF PlugInv

LEMMA SetUpKeeps ==
  ASSUME PlugInv, NEW h \in Handlers, NEW ok \in BOOLEAN, SetUp(h, ok)
  PROVE  PlugInv'
<1> DEFINE i == job[h].inst
<1>1. /\ job[h].at = "setup" /\ job[h] # Idle /\ Goes(h, Telling)
      /\ registered' = IF ok THEN Append(registered, i) ELSE registered
      /\ UNCHANGED <<switches, params, folders, crossed, requests>>
      /\ UNCHANGED <<handle, active, linked, sending, stray, leftOpen>>
      BY DEF SetUp, mesh, Idle
<1>2. /\ i \in Instances /\ i[2] \in Nat /\ Cuts(job[h]) = {} /\ Gone(job[h]) = {i[1]}
      /\ Numbers(job[h]) = {i[2]}
  <2>1. i \in Plugs \X (1..MaxRequests)
        BY <1>1, Now, JobIs
  <2> QED BY <1>1, <2>1, PluginsAssumption DEF Instances, Cuts, Gone, Numbers
<1>3. i \notin ToSet(registered)
      BY <1>2, Now DEF Numbered
<1>4. /\ registered' \in Seq(Instances) /\ IsInjective(registered')
      /\ ToSet(registered') \subseteq ToSet(registered) \cup {i}
  <2>1. /\ Append(registered, i) \in Seq(Instances) /\ IsInjective(Append(registered, i))
        /\ ToSet(Append(registered, i)) = ToSet(registered) \cup {i}
        BY <1>2, <1>3, Now, Appended
  <2> QED BY <1>1, <2>1, Now
<1>5. Moves(h, Telling) /\ job' \in [Handlers -> Jobs] /\ job'[h] = Telling
      BY <1>1, Now, TellingIs, GoesSo, MovesSo
<1>6. Sorted' /\ OneSwitch'
      BY <1>1, <1>4, <1>5, Now DEF Sorted, OneSwitch
<1>7. Numbered'
  <2>1. \A g \in Handlers : Numbers(job'[g]) = IF g = h THEN {} ELSE Numbers(job[g])
        BY <1>5, Now, TellingIs, MovesSo
  <2>2. \A g \in Handlers : g # h => i[2] \notin Numbers(job[g])
        BY <1>2, Now DEF Numbered
  <2>3. i[2] <= requests
    <3>1. i[2] \in 1..requests
          BY <1>2, Now DEF Numbered
    <3> QED BY <3>1, Now
  <2>4. \A k \in ToSet(registered') :
          k[2] <= requests /\ \A g \in Handlers : k[2] \notin Numbers(job'[g])
        BY <1>4, <2>1, <2>2, <2>3, Now DEF Numbered
  <2>5. \A g \in Handlers : Numbers(job'[g]) \subseteq 1..requests
        BY <2>1, Now DEF Numbered
  <2>6. \A g, k \in Handlers : g # k => Numbers(job'[g]) \cap Numbers(job'[k]) = {}
        BY <2>1, Now DEF Numbered
  <2> QED BY <1>1, <2>4, <2>5, <2>6 DEF Numbered
<1>8. Held'
      BY <1>1, <1>5, Now, TellingIs, HeldKept
<1>9. Covered'
      BY <1>5, TellingIs, CoveredByOne
<1>10. ASSUME ~crossed' PROVE InTurn'
  <2>1. InTurn /\ \A g \in Handlers : g # h => job[g] = Idle
        BY <1>1, <1>10, Now, Alone DEF PlugInv
  <2>2. (\A k \in linked : k \notin sending => k \in leftOpen) /\ Telling.at \notin {"dialing", "cutting", "setup"}
        BY <1>2, <2>1, NoCuts, TellingIs
  <2>3. i[1] \in folders /\ \A k \in ToSet(registered) : k[1] # i[1]
        BY <1>1, <1>2, <2>1 DEF InTurn, Fits
  <2>4. ToSet(registered) \subseteq ToSet(registered')
    <3>1. ToSet(Append(registered, i)) = ToSet(registered) \cup {i}
          BY <1>2, Now, Appended
    <3> QED BY <1>1, <3>1
  <2>5. /\ \A j, k \in ToSet(registered') : j[1] = k[1] => j = k
        /\ \A k \in ToSet(registered') : k[1] \in folders' /\ k[1] \notin Gone(Telling)
        BY <1>1, <1>4, <2>1, <2>3, TellingIs DEF InTurn
  <2>6. stray' = {} /\ sending' \subseteq linked' /\ sending' \subseteq ToSet(registered')
        BY <1>1, <2>1, <2>4 DEF InTurn
  <2> QED BY <1>1, <1>5, <2>1, <2>2, <2>5, <2>6, Now, TellingIs, InTurnKept
<1> QED BY <1>6, <1>7, <1>8, <1>9, <1>10 DEF PlugInv
\* The four handlers that unload: those that begin, and the copy of a directory.
LEMMA UnloadKeeps ==
  ASSUME PlugInv, NEW h \in Handlers, NEW p \in Plugs, NEW next \in Rests, Unload(h, p, next),
         (job[h] # Idle /\ crossed' = crossed) \/ Begins(h), crossed' \in BOOLEAN,
         Cuts(job[h]) = {}, next # Idle, ToVisit(next) = {}, Gone(next) = {p},
         \A k : Covers(job[h], k) => Tells(next, k),
         \A n \in Numbers(next) :
           n \in Numbers(job[h]) \/ (n = requests' /\ requests' = requests + 1),
         requests' \in 0..MaxRequests, requests' = requests \/ requests' = requests + 1,
         switches' = switches, params' = params, folders' \subseteq Plugs, folders \subseteq folders'
  PROVE  PlugInv'
<1>1. OneSwitch'
      BY Now DEF OneSwitch
<1>2. ~crossed' => /\ InTurn /\ (\A g \in Handlers : g # h => job[g] = Idle)
                   /\ (\A k \in linked : k \notin sending => k \in leftOpen)
                   /\ \A k \in sending : Presently(k, active[k]) \/ Tells(next, k)
  <2> SUFFICES ASSUME ~crossed'
               PROVE  /\ InTurn /\ (\A g \in Handlers : g # h => job[g] = Idle)
                      /\ (\A k \in linked : k \notin sending => k \in leftOpen)
                      /\ \A k \in sending : Presently(k, active[k]) \/ Tells(next, k)
        OBVIOUS
  <2>1. InTurn /\ \A g \in Handlers : g # h => job[g] = Idle
        BY Now, Alone DEF PlugInv
  <2> QED BY <2>1, NoCuts, Sends
<1>3. CASE Of(p) = {}
  <2>1. Goes(h, next) /\ UNCHANGED <<registered, handle, active, linked, sending, stray, leftOpen>>
        BY <1>3 DEF Unload, mesh
  <2>2. /\ next \in Jobs /\ next.at \notin {"dialing", "cutting", "setup"} /\ Cuts(next) = {}
        /\ Returns(next) /\ (\A k : ~Dials(next, k)) /\ \A k : Covers(next, k) <=> Tells(next, k)
        BY RestSays
  <2>3. Moves(h, next) /\ job' \in [Handlers -> Jobs]
        BY <2>1, <2>2, Now, GoesSo
  <2>4. Sorted'
        BY <2>1, <2>3, Now DEF Sorted
  <2>5. Numbered' /\ Held'
        BY <2>1, <2>2, <2>3, Now, NumberedKept, HeldKept
  <2>6. Covered'
        BY <2>1, <2>2, <2>3, Now, CoveredKept
  <2>7. ASSUME ~crossed' PROVE InTurn'
    <3>1. \A k \in ToSet(registered') : k[1] \in folders' /\ k[1] \notin Gone(next)
          BY <1>2, <1>3, <2>1, <2>7 DEF InTurn, Of
    <3>2. \A k \in sending' : WillBe(k, active'[k]) \/ Covers(next, k)
          BY <1>2, <2>1, <2>2, <2>7 DEF Presently, WillBe
    <3> QED BY <1>2, <2>1, <2>2, <2>3, <2>7, <3>1, <3>2, Now, InTurnKept DEF InTurn
  <2> QED BY <1>1, <2>4, <2>5, <2>6, <2>7 DEF PlugInv
<1>4. CASE Of(p) # {}
  <2> DEFINE i == First(p)
             j == CutJob(i, next)
  <2>1. CutNow(h, i, next)
        BY <1>4 DEF Unload
  <2>2. /\ i \in ToSet(registered) /\ i[1] = p /\ registered' \in Seq(Instances)
        /\ IsInjective(registered') /\ ToSet(registered') = ToSet(registered) \ {i}
        BY <1>4, Now, UnloadedIs DEF Unload
  <2>3. i \in Instances
        BY <2>2, Now
  <2> HIDE DEF i
  <2>4. /\ Moves(h, j) /\ job' \in [Handlers -> Jobs]
        /\ linked' = linked /\ stray' = stray /\ sending' = sending \ {i} /\ active' = active
        /\ handle' \subseteq handle /\ handle \subseteq handle' \cup {i}
        /\ leftOpen' \subseteq leftOpen /\ leftOpen \subseteq leftOpen' \cup {i}
        /\ i \in linked => handle' = handle /\ leftOpen' = leftOpen
        /\ i \notin linked => \A g \in Handlers \ {h} : ~Dials(job'[g], i)
        BY <2>1, <2>3, Now, CutNowSo
  <2>5. /\ j \in Jobs /\ j.at \notin {"dialing", "setup"} /\ Numbers(j) = Numbers(next)
        /\ Gone(j) = {p} /\ ToVisit(j) = {} /\ (\A k : ~Dials(j, k)) /\ Returns(j)
        /\ \A k : Tells(next, k) => Covers(j, k)
        /\ i \in linked => Cuts(j) = {i} /\ ~j.lost /\ j.next.at # "redialing"
        /\ i \notin linked => j = next /\ Cuts(j) = {}
        BY <2>3, CutJobIs, RestIs
  <2>6. i \notin linked => j.at # "cutting"
        BY <2>5, RestSays
  <2> HIDE DEF j
  <2>7. Sorted'
    <3>1. linked' \subseteq handle'
          BY <2>4, Now DEF Sorted
    <3> QED BY <2>2, <2>4, <3>1, Now DEF Sorted
  <2>8. Numbered'
        BY <2>2, <2>4, <2>5, Now, NumberedKept
  <2>9. Held'
        BY <2>4, <2>5, Now, HeldKept
  <2>10. Covered'
    <3>1. \A k : Covers(job[h], k) => Covers(j, k)
          BY <2>5
    <3> QED BY <2>2, <2>4, <2>5, <3>1, Now, CoveredKept
  <2>11. ASSUME ~crossed' PROVE InTurn'
    <3>1. \A k \in ToSet(registered') : k[1] # p
          BY <1>2, <2>2, <2>11 DEF InTurn
    <3>2. \A k \in ToSet(registered') : k[1] \in folders' /\ k[1] \notin Gone(j)
          BY <1>2, <2>2, <2>5, <2>11, <3>1 DEF InTurn
    <3>3. /\ sending' \subseteq linked' /\ sending' \subseteq ToSet(registered') /\ stray' = {}
          /\ \A k, l \in ToSet(registered') : k[1] = l[1] => k = l
          BY <1>2, <2>2, <2>4, <2>11 DEF InTurn
    <3>4. /\ \A k \in linked' : k \notin sending' => k \in leftOpen' \/ k \in Cuts(j)
          /\ Cuts(j) \subseteq linked' \ sending'
          BY <1>2, <2>4, <2>5, <2>11
    <3>5. /\ j.at \in {"dialing", "cutting"} => ~j.lost
          /\ j.at = "cutting" => j.next.at # "redialing"
          BY <2>5, <2>6
    <3>6. \A k \in sending' : WillBe(k, active'[k]) \/ Covers(j, k)
          BY <1>2, <2>4, <2>5, <2>11 DEF Presently, WillBe
    <3> QED BY <1>2, <2>4, <2>5, <2>11, <3>2, <3>3, <3>4, <3>5, <3>6, Now, InTurnKept
  <2> QED BY <1>1, <2>7, <2>8, <2>9, <2>10, <2>11 DEF PlugInv
<1> QED BY <1>3, <1>4

LEMMA BeginsSays ==
  ASSUME PlugInv, NEW h \in Handlers, Begins(h)
  PROVE  /\ job[h] = Idle /\ Cuts(job[h]) = {} /\ (\A k : ~Covers(job[h], k)) /\ crossed' \in BOOLEAN
         /\ requests' \in 1..MaxRequests /\ requests' = requests + 1
<1>1. job[h] = Idle /\ requests' = requests + 1 /\ requests' \in 1..MaxRequests /\ crossed' \in BOOLEAN
      BY Now, PluginsAssumption DEF Begins, Sorted
<1>2. Cuts(Idle) = {} /\ \A k : ~Covers(Idle, k)
      BY DEF Idle, Cuts, Covers, Tells
<1> QED BY <1>1, <1>2

LEMMA RequestsKeep ==
  ASSUME PlugInv, NEW h \in Handlers, NEW p \in Plugs,
         ReloadPlugin(h, p) \/ UninstallPlugin(h, p) \/ InstallPlugin(h, p)
  PROVE  PlugInv'
<1>1. /\ Begins(h) /\ switches' = switches /\ params' = params /\ folders' = folders /\ folders \subseteq Plugs
      BY Now DEF ReloadPlugin, UninstallPlugin, InstallPlugin, Sorted
<1>2. ASSUME NEW n \in 1..MaxRequests, n = requests', NEW at \in {"loading", "copying"},
             Unload(h, p, [at |-> at, plug |-> p, no |-> n])
      PROVE  PlugInv'
  <2> DEFINE next == [at |-> at, plug |-> p, no |-> n]
  <2>1. next \in Rests
        BY DEF Rests
  <2>2. next.at \in {"loading", "copying"} /\ next.plug = p /\ next.no = n /\ next # Idle
        BY DEF Idle
  <2>3. Unload(h, p, next)
        BY <1>2
  <2> HIDE DEF next
  <2>4. ToVisit(next) = {} /\ Gone(next) = {p} /\ Numbers(next) = {n}
        BY <2>2 DEF ToVisit, Gone, Numbers
  <2> QED BY <1>1, <1>2, <2>1, <2>2, <2>3, <2>4, BeginsSays, UnloadKeeps
<1>3. ASSUME UninstallPlugin(h, p) PROVE PlugInv'
  <2> DEFINE next == [at |-> "removing", plug |-> p]
  <2>1. next \in Rests
        BY DEF Rests
  <2>2. next.at = "removing" /\ next.plug = p /\ next # Idle
        BY DEF Idle
  <2>3. Unload(h, p, next)
        BY <1>3 DEF UninstallPlugin
  <2> HIDE DEF next
  <2>4. ToVisit(next) = {} /\ Gone(next) = {p} /\ Numbers(next) = {}
        BY <2>2 DEF ToVisit, Gone, Numbers
  <2> QED BY <1>1, <2>1, <2>2, <2>3, <2>4, BeginsSays, UnloadKeeps
<1>4. requests' \in 1..MaxRequests
      BY <1>1, BeginsSays
<1>5. ReloadPlugin(h, p) => Unload(h, p, [at |-> "loading", plug |-> p, no |-> requests'])
      BY DEF ReloadPlugin
<1>6. InstallPlugin(h, p) => Unload(h, p, [at |-> "copying", plug |-> p, no |-> requests'])
      BY DEF InstallPlugin
<1> QED BY <1>2, <1>3, <1>4, <1>5, <1>6

LEMMA CopyFolderKeeps ==
  ASSUME PlugInv, NEW h \in Handlers, CopyFolder(h)
  PROVE  PlugInv'
<1> DEFINE p == job[h].plug
           next == [job[h] EXCEPT !.at = "loading"]
<1>1. /\ job[h].at = "copying" /\ job[h] # Idle /\ Unload(h, p, next) /\ folders' = folders \cup {p}
      /\ UNCHANGED <<switches, params, crossed, requests>>
      BY DEF CopyFolder, Idle
<1>2. p \in Plugs /\ job[h].no \in 1..MaxRequests
      BY <1>1, Now, JobIs
<1>3. job[h] \in [at : {"loading", "copying"}, plug : Plugs, no : 1..MaxRequests]
      BY <1>1, Now, JobIs DEF Jobs, Rests, Idle, Telling
<1>4. next \in Rests /\ next.at = "loading" /\ next.plug = p /\ next.no = job[h].no
      BY <1>3 DEF Rests
<1> HIDE DEF next
<1>5. /\ ToVisit(next) = {} /\ Gone(next) = {p} /\ Numbers(next) = Numbers(job[h]) /\ next # Idle
      /\ (\A k : Tells(next, k)) /\ Cuts(job[h]) = {}
      BY <1>1, <1>4 DEF ToVisit, Gone, Numbers, Tells, Cuts, Idle
<1>6. crossed' \in BOOLEAN /\ requests' \in 0..MaxRequests /\ folders' \subseteq Plugs /\ folders \subseteq folders'
      BY <1>1, <1>2, Now DEF Sorted
<1> QED BY <1>1, <1>2, <1>4, <1>5, <1>6, UnloadKeeps

-----------------------------------------------------------------------------
LEMMA PlugInitial == PlugInit => PlugInv
<1> SUFFICES ASSUME PlugInit PROVE PlugInv
      OBVIOUS
<1> DEFINE T == folders \X {0}
           n == Cardinality(T)
<1>1. IsFiniteSet(folders) /\ IsFiniteSet({0})
      BY PluginsAssumption, FS_Subset, FS_Singleton DEF PlugInit
<1>2. IsFiniteSet(T) /\ n \in Nat
      BY <1>1, FS_Product, FS_CardinalityType
<1>3. registered \in [1..n -> T] /\ \A i, j \in 1..n : i # j => registered[i] # registered[j]
      BY DEF PlugInit, SetToSeqs
<1>4. T \subseteq Instances
      BY PluginsAssumption DEF PlugInit, Instances
<1>5. registered \in Seq(Instances) /\ DOMAIN registered = 1..n
  <2> HIDE DEF T, n
  <2>1. registered \in [1..n -> Instances]
        BY <1>3, <1>4
  <2> QED BY <1>2, <2>1
<1>6. registered \in Surjection(1..n, T)
  <2>1. registered \in Injection(1..n, T)
        BY <1>3 DEF Injection, IsInjective
  <2>2. IsFiniteSet(1..n) /\ Cardinality(1..n) = n
        BY <1>2, FS_Interval
  <2> QED BY <1>2, <2>1, <2>2, FS_Injection
<1> HIDE DEF T, n
<1>7. ToSet(registered) = T
  <2>1. \A e \in T : \E k \in 1..n : registered[k] = e
        BY <1>6 DEF Surjection
  <2>2. ToSet(registered) = {registered[k] : k \in 1..n}
        BY <1>5 DEF ToSet
  <2> QED BY <1>3, <2>1, <2>2
<1>8. \A i \in T : i[1] \in folders /\ i[2] = 0
      BY DEF T
<1>9. \A i, k \in T : i[1] = k[1] => i = k
      BY DEF T
<1>10. IsInjective(registered)
      BY <1>3, <1>5 DEF IsInjective
<1>11. /\ Idle \in Jobs /\ Numbers(Idle) = {} /\ Gone(Idle) = {} /\ ToVisit(Idle) = {} /\ Cuts(Idle) = {}
       /\ Idle.at = "idle" /\ Returns(Idle) /\ \A k : ~Dials(Idle, k)
  <2>1. Idle \in Rests /\ Idle.at = "idle"
        BY DEF Rests, Idle
  <2> QED BY <2>1, RestSays DEF Numbers, Gone, ToVisit
<1>12. handle \subseteq T /\ \A i \in handle : i[1] \in switches
      BY DEF PlugInit, T
<1>13. /\ linked \subseteq handle /\ sending = linked /\ stray = {} /\ requests = 0 /\ crossed = FALSE
       /\ leftOpen = {} /\ active = [i \in Instances |-> params[i[1]]] /\ params \in [Plugs -> Params]
      BY DEF PlugInit
<1>14. job \in [Handlers -> Jobs] /\ \A h \in Handlers : job[h] = Idle
      BY <1>11 DEF PlugInit
<1>15. Sorted
  <2>1. switches \subseteq Plugs /\ folders \subseteq Plugs /\ requests \in 0..MaxRequests
        BY PluginsAssumption DEF PlugInit
  <2>2. active \in [Instances -> Params]
        BY <1>13, InstanceIs
  <2> QED BY <1>4, <1>5, <1>10, <1>12, <1>13, <1>14, <2>1, <2>2 DEF Sorted
<1>16. Numbered
  <2>1. \A i \in ToSet(registered) : i[2] <= requests
        BY <1>7, <1>8, <1>13
  <2> QED BY <1>11, <1>14, <2>1 DEF Numbered
<1>17. Held /\ Covered
      BY <1>11, <1>12, <1>13, <1>14 DEF Held, Covered
<1>18. OneSwitch
      BY DEF PlugInit, OneSwitch
<1>19. InTurn
  <2>1. \A h \in Handlers : Fits(job[h])
        BY <1>11, <1>14 DEF Fits
  <2>2. \A i \in sending : Presently(i, active[i])
        BY <1>4, <1>12, <1>13 DEF Presently
  <2> QED BY <1>7, <1>8, <1>9, <1>12, <1>13, <1>14, <2>1, <2>2 DEF InTurn
<1> QED BY <1>15, <1>16, <1>17, <1>18, <1>19 DEF PlugInv

LEMMA PlugInductive == PlugInv /\ [PlugNext]_plugVars => PlugInv'
<1> SUFFICES ASSUME PlugInv, [PlugNext]_plugVars PROVE PlugInv'
      OBVIOUS
<1>1. CASE PlugNext
  <2>1. PICK h \in Handlers :
          \/ Dispatch(h) \/ Visit(h) \/ RemoveFolder(h) \/ CopyFolder(h) \/ Load(h)
          \/ \E ok \in BOOLEAN : DialDone(h, ok) \/ CutDone(h, ok) \/ SetUp(h, ok)
          \/ \E on \in SUBSET Plugs, to \in [Plugs -> Params] : SaveSettings(h, on, to)
          \/ \E p \in Plugs : ReloadPlugin(h, p) \/ UninstallPlugin(h, p) \/ InstallPlugin(h, p)
        BY <1>1 DEF PlugNext
  <2>2. CASE \E ok \in BOOLEAN : DialDone(h, ok) \/ CutDone(h, ok) \/ SetUp(h, ok)
        BY <2>2, DialDoneKeeps, CutDoneKeeps, SetUpKeeps
  <2>3. CASE \E on \in SUBSET Plugs, to \in [Plugs -> Params] : SaveSettings(h, on, to)
        BY <2>3, SaveSettingsKeeps
  <2>4. CASE \E p \in Plugs : ReloadPlugin(h, p) \/ UninstallPlugin(h, p) \/ InstallPlugin(h, p)
        BY <2>4, RequestsKeep
  <2> QED BY <2>1, <2>2, <2>3, <2>4, DispatchKeeps, VisitKeeps,
             RemoveFolderKeeps, CopyFolderKeeps, LoadKeeps
<1>2. CASE UNCHANGED plugVars
      BY <1>2 DEF plugVars, mesh, PlugInv, Sorted, Numbered, Held, Covered, OneSwitch, InTurn, Fits,
               Presently
<1> QED BY <1>1, <1>2

LEMMA PlugInvSays == PlugInv => PlugTypeOK /\ PluginsSettle
<1> SUFFICES ASSUME PlugInv PROVE PlugTypeOK /\ PluginsSettle
      OBVIOUS
<1>1. Sorted
      BY DEF PlugInv
<1>2. PlugTypeOK
  <2>1. \A h \in Handlers : job[h] \in Jobs
        BY <1>1 DEF Sorted
  <2>2. \A h \in Handlers :
          job[h].at \in {"idle", "telling", "visiting", "dialing", "cutting",
                         "loading", "setup", "removing", "copying"}
        BY <2>1, JobIs
  <2> QED BY <1>1, <2>2 DEF PlugTypeOK, Sorted
<1>3. ASSUME Quiet PROVE \A i \in (linked \ leftOpen) \cap ToSet(registered) : i[1] \in switches
  <2>1. \A k : ~Covers(Idle, k)
        BY DEF Idle, Covers, Tells
  <2> QED BY <1>3, <2>1 DEF PlugInv, Covered, Quiet
<1>4. AtMostOne(switches)
      BY DEF AtMostOne, PlugInv, OneSwitch
<1>5. Cardinality(switches) <= 1
      BY <1>4, FewAre
<1>6. ASSUME Quiet, ~crossed
      PROVE  /\ \A p \in Plugs : Cardinality(Of(p)) <= 1
             /\ \A i \in ToSet(registered) : i[1] \in folders
             /\ stray = {} /\ linked \ leftOpen \subseteq sending
             /\ sending \subseteq linked \cap ToSet(registered)
             /\ \A i \in sending : i[1] \in switches /\ active[i] = params[i[1]]
  <2>1. InTurn /\ Cuts(Idle) = {} /\ \A i : ~Covers(Idle, i)
        BY <1>6 DEF PlugInv, Cuts, Covers, Tells, Idle
  <2>2. \A i \in linked : i \notin sending => i \in leftOpen
        BY <1>6, <2>1 DEF InTurn, Quiet
  <2>3. \A i \in sending : i[1] \in switches /\ active[i] = params[i[1]]
        BY <1>6, <2>1 DEF InTurn, Quiet, Presently
  <2>4. ASSUME NEW p \in Plugs PROVE Cardinality(Of(p)) <= 1
    <3>1. AtMostOne(Of(p))
          BY <2>1 DEF InTurn, Of, AtMostOne
    <3> QED BY <3>1, FewAre
  <2> QED BY <2>1, <2>2, <2>3, <2>4 DEF InTurn
<1> QED BY <1>2, <1>3, <1>5, <1>6 DEF PluginsSettle

\* The types of the registry and of the links, for any mesh forwarders and handlers.
THEOREM PlugTyped == PlugSpec => []PlugTypeOK
BY PlugInitial, PlugInductive, PlugInvSays, PTL DEF PlugSpec

\* Once the handlers are done no plugin that is switched off has an open link and no two
\* conflicting ones are on, however many handlers ran beside each other, but for a link whose
\* disconnect raised or that a reconnection began after the plugin was switched off; and if they
\* ran one after another, every id has one instance, with its directory, the links are theirs but
\* for a disconnect that raised, and what sends was connected with the present parameters.
THEOREM PluginsSettled == PlugSpec => []PluginsSettle
BY PlugInitial, PlugInductive, PlugInvSays, PTL DEF PlugSpec

-----------------------------------------------------------------------------
(* All ten. *)

allVars == <<part, nbrVars, recVars, ncsVars, posVars, plugVars,
             tapsVars, ringVars, setVars, cwVars, morseVars>>

LEMMA AllStart ==
  NetsInit => /\ NbrInit /\ RecInit /\ NcsInit /\ PosInit /\ PlugInit
              /\ TapsInit /\ RingInit /\ SetInit /\ CwInit /\ MorseInit
BY Zenon DEF NetsInit

\* One component moves, the others rest.
LEMMA OneMoves ==
  ASSUME [NetsNext]_allVars
  PROVE  /\ [NbrNext]_nbrVars /\ [RecNext]_recVars /\ [NcsNext]_ncsVars /\ [PosNext]_posVars
         /\ [PlugNext]_plugVars /\ [TapsNext]_tapsVars /\ [RingNext]_ringVars /\ [SetNext]_setVars
         /\ [CwNext]_cwVars /\ [MorseNext]_morseVars
<1>1. CASE NbrStep
      BY <1>1, Zenon DEF NbrStep
<1>2. CASE RecStep
      BY <1>2, Zenon DEF RecStep
<1>3. CASE NcsStep
      BY <1>3, Zenon DEF NcsStep
<1>4. CASE PosStep
      BY <1>4, Zenon DEF PosStep
<1>5. CASE PlugStep
      BY <1>5, Zenon DEF PlugStep
<1>6. CASE TapsStep
      BY <1>6, Zenon DEF TapsStep
<1>7. CASE RingStep
      BY <1>7, Zenon DEF RingStep
<1>8. CASE SetStep
      BY <1>8, Zenon DEF SetStep
<1>9. CASE CwStep
      BY <1>9, Zenon DEF CwStep
<1>10. CASE MorseStep
      BY <1>10, Zenon DEF MorseStep
<1>11. CASE UNCHANGED allVars
      BY <1>11, Zenon DEF allVars
<1> QED BY <1>1, <1>2, <1>3, <1>4, <1>5, <1>6, <1>7, <1>8, <1>9, <1>10, <1>11 DEF NetsNext

\* So a behaviour of all ten is one of each.
LEMMA EachRuns ==
  NetsSpec => /\ NbrSpec /\ RecSpec /\ NcsSpec /\ PosSpec /\ PlugSpec
              /\ TapsSpec /\ RingSpec /\ SetSpec /\ CwSpec /\ MorseSpec
<1>1. [NetsNext]_allVars =>
         /\ [NbrNext]_nbrVars /\ [RecNext]_recVars /\ [NcsNext]_ncsVars /\ [PosNext]_posVars
         /\ [PlugNext]_plugVars /\ [TapsNext]_tapsVars /\ [RingNext]_ringVars /\ [SetNext]_setVars
         /\ [CwNext]_cwVars /\ [MorseNext]_morseVars
      BY OneMoves
<1> QED BY <1>1, AllStart, PTL
    DEF NetsSpec, allVars, NbrSpec, RecSpec, NcsSpec, PosSpec, PlugSpec, TapsSpec, RingSpec, SetSpec, CwSpec, MorseSpec

\* The types of the ten components, in the instance that runs them one at a time.
THEOREM NetsTyped == NetsSpec => []NetsTypeOK
<1>1. SetSpec => []SetTypeOK
  <2>1. SetInv => SetTypeOK
        BY DEF SetInv
  <2> QED BY <2>1, SetInitInv, SetNextInv, PTL DEF SetSpec
<1>2. (NbrTypeOK /\ RecTypeOK /\ NcsTypeOK /\ PosTypeOK /\ PlugTypeOK
       /\ TapsTypeOK /\ RingTypeOK /\ SetTypeOK /\ CwTypeOK /\ MorseTypeOK) => NetsTypeOK
      BY Zenon DEF NetsTypeOK
<1> QED BY <1>1, <1>2, EachRuns, NbrRound, RecTyped, NcsTypes, PositionsTyped, PlugTyped,
           TapsHold, RingHolds, CwTyped, MorseTyped, PTL

\* The receive side, as MCNets checks it: the monitor keeps up and plays nothing stale, a
\* calibration hears the channel whole, the waterfall's rows are unbroken and in order, the
\* worker runs with the settings and words last asked for, and CW is collected whole.
THEOREM ReceiverHolds == NetsSpec => []ReceiverSound
<1>1. TapsSound /\ RingTrue /\ SettingsHold /\ CwSound => ReceiverSound
      BY Zenon DEF ReceiverSound
<1> QED BY <1>1, EachRuns, TapsHold, RingHolds, SettingsHeld, CwLoopSound, PTL
=============================================================================
