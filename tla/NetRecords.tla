----------------------------- MODULE NetRecords -----------------------------
(***************************************************************************)
(* What a net leaves behind: the incident log (persistence/incidents.py),  *)
(* the journals and their published page (persistence/journal.py), the     *)
(* session files (persistence/net_sessions.py), and the handlers of        *)
(* backend/server.py that write several of them one after the other with   *)
(* broadcasts in between.  Journals and sessions are files named by the    *)
(* second they are written in.                                             *)
(***************************************************************************)
EXTENDS Naturals, SequencesExt, Selections

CONSTANTS
  Reports,        \* incident reports, each made once
  Nets,           \* nets that end with a roster, each once
  Admins,         \* admins whose clear requests may be suspended at once
  MaxSecond,      \* bound of the model: the seconds that pass
  MaxIncidents,   \* _MAX_ENTRIES
  MaxPublished    \* _MAX_PUBLISHED

ASSUME RecordsAssumption ==
  /\ Reports \cap Nets = {}
  /\ MaxSecond \in Nat /\ MaxIncidents \in Nat \ {0} /\ MaxPublished \in Nat \ {0}

Names == 0..MaxSecond
Contents == (SUBSET (Reports \cup Nets)) \ {{}}   \* what a journal tells of

VARIABLES
  second,
  incidents,      \* IncidentsStore._data, newest first
  clearing,       \* admins whose clear is suspended after its journal
  journals,       \* journal files: no file is {}
  sessions,       \* session files
  ending,         \* how far the handler that ended a net has come
  manifest, page, \* journal-manifest.json, journal.html: the files the
                  \* entries were copied from, newest first
  reported, cleared, journaled, late, torn    \* history

disk == <<journals, sessions, manifest, page>>
history == <<reported, cleared, journaled, late>>
recVars == <<second, incidents, clearing, disk, ending, history, torn>>

RecInit ==
  /\ second = 0
  /\ incidents = <<>>
  /\ clearing = {}
  /\ journals = [t \in Names |-> {}] /\ sessions = [t \in Names |-> {}]
  /\ ending = [n \in Nets |-> "running"]
  /\ manifest = <<>> /\ page = <<>>
  /\ reported = {} /\ cleared = {} /\ journaled = {} /\ late = {}
  /\ torn = FALSE

NextSecond ==
  /\ second < MaxSecond
  /\ second' = second + 1
  /\ UNCHANGED <<incidents, clearing, disk, ending, history, torn>>

Capped(seq, n) == SubSeq(seq, 1, IF Len(seq) < n THEN Len(seq) ELSE n)

\* neighborhood_incident_report, after its transmission and its broadcast.
Report(r) ==
  /\ r \notin reported
  /\ reported' = reported \cup {r}
  /\ incidents' = Capped(<<r>> \o incidents, MaxIncidents)
  /\ late' = IF clearing # {} THEN late \cup {r} ELSE late
  /\ UNCHANGED <<second, clearing, disk, ending, cleared, journaled, torn>>

\* save_journal: a journal of the same second is overwritten.
SaveJournal(what) ==
  /\ journals' = [journals EXCEPT ![second] = what]
  /\ journaled' = journaled \cup what
  /\ UNCHANGED <<sessions, manifest, page>>

\* mutant of BeginClear: the log is cleared although its journal failed
BeginClearAnyway(a) ==
  /\ a \notin clearing /\ incidents # <<>>
  /\ clearing' = clearing \cup {a}
  /\ SaveJournal(ToSet(incidents)) \/ UNCHANGED <<disk, journaled>>
  /\ UNCHANGED <<second, incidents, ending, reported, cleared, late, torn>>

\* neighborhood_clear_incidents: the log goes into a journal, which is
\* broadcast (if it cannot be written nothing is cleared) ...
BeginClear(a) ==
  /\ a \notin clearing /\ incidents # <<>>
  /\ clearing' = clearing \cup {a}
  /\ SaveJournal(ToSet(incidents))
  /\ UNCHANGED <<second, incidents, ending, reported, cleared, late, torn>>

\* ... and then the log, as it is by now, is wiped.
FinishClear(a) ==
  /\ a \in clearing
  /\ clearing' = clearing \ {a}
  /\ cleared' = cleared \cup ToSet(incidents)
  /\ incidents' = <<>>
  /\ UNCHANGED <<second, disk, ending, reported, journaled, late, torn>>

\* neighborhood_end: the board is cleared first; the roster lives on only in
\* the handler until it is in a journal and, a broadcast later, in a session.
EndOfNet(n) ==
  /\ ending[n] = "running"
  /\ ending' = [ending EXCEPT ![n] = "ended"]
  /\ UNCHANGED <<second, incidents, clearing, disk, history, torn>>

FileNetJournal(n) ==
  /\ ending[n] = "ended"
  /\ ending' = [ending EXCEPT ![n] = "journaled"]
  /\ SaveJournal({n}) \/ UNCHANGED <<disk, journaled>>           \* OSError: logged
  /\ UNCHANGED <<second, incidents, clearing, reported, cleared, late, torn>>

FileSession(n) ==
  /\ ending[n] = "journaled"
  /\ \/ /\ sessions' = [sessions EXCEPT ![second] = {n}]
        /\ ending' = [ending EXCEPT ![n] = "filed"]
     \/ /\ ending' = [ending EXCEPT ![n] = "unfiled"]
        /\ UNCHANGED sessions
  /\ UNCHANGED <<second, incidents, clearing, journals, manifest, page, history, torn>>

\* A restart of the server: suspended handlers are gone, files are not.
Restart ==
  /\ clearing' = {}
  /\ ending' = [n \in Nets |-> IF ending[n] \in {"ended", "journaled"} THEN "unfiled" ELSE ending[n]]
  /\ UNCHANGED <<second, incidents, disk, history, torn>>

DeleteJournal(t) ==
  /\ journals[t] # {}
  /\ journals' = [journals EXCEPT ![t] = {}]
  /\ UNCHANGED <<second, incidents, clearing, sessions, manifest, page, ending, history, torn>>

\* The manifest is written, then the page; the second write may fail.
Rewrite(entries) ==
  /\ manifest' = entries
  /\ \/ page' = entries /\ torn' = FALSE
     \/ page' = page /\ torn' = TRUE
  /\ UNCHANGED <<second, incidents, clearing, journals, sessions, ending, history>>

Publish(t) ==
  /\ journals[t] # {}
  /\ Rewrite(Capped(<<t>> \o manifest, MaxPublished))

Others(t) == Kept(manifest, {k \in DOMAIN manifest : manifest[k] # t})

\* Nothing is written when the manifest does not list the file.
Unpublish(t) == Others(t) # manifest /\ Rewrite(Others(t))

RecNext ==
  \/ NextSecond \/ Restart
  \/ \E r \in Reports : Report(r)
  \/ \E a \in Admins : BeginClear(a) \/ FinishClear(a)
  \/ \E n \in Nets : EndOfNet(n) \/ FileNetJournal(n) \/ FileSession(n)
  \/ \E t \in Names : DeleteJournal(t) \/ Publish(t) \/ Unpublish(t)

RecSpec == RecInit /\ [][RecNext]_recVars

------------------------------------------------------------------------------
RecTypeOK ==
  /\ second \in Names
  /\ incidents \in Seq(Reports) /\ Len(incidents) <= MaxIncidents
  /\ clearing \subseteq Admins
  /\ journals \in [Names -> Contents \cup {{}}]
  /\ sessions \in [Names -> {{n} : n \in Nets} \cup {{}}]
  /\ ending \in [Nets -> {"running", "ended", "journaled", "filed", "unfiled"}]
  /\ \A s \in {manifest, page} : s \in Seq(Names) /\ Len(s) <= MaxPublished
  /\ reported \cup cleared \cup late \subseteq Reports
  /\ journaled \subseteq Reports \cup Nets
  /\ torn \in BOOLEAN

\* "'cleared but unrecorded' is the one outcome to avoid": every report that was wiped
\* from the log had been put into a journal, unless it came in while a clear was suspended
\* between its journal and its wipe (neighborhood_clear_incidents in backend/server.py).
ClearedRecordedUnlessLate == cleared \ late \subseteq journaled
=============================================================================
