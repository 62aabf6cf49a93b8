---------------------------- MODULE FamilyBoard -----------------------------
(***************************************************************************)
(* The family board: who was heard, who checked in as OK and who missed a  *)
(* check-in (persistence/presence.py, persistence/family.py,               *)
(* family/reminders.py), _family_reminder_tick, and the handlers of        *)
(* backend/server.py that write both stores with broadcasts in between.    *)
(* The sockets of a deleted profile stay open and go on sending.           *)
(***************************************************************************)
EXTENDS Integers, FiniteSets

CONSTANTS
  Members,        \* user ids; _make_id gives a freed one out again
  LastHour,       \* the hours of a day are 0..LastHour
  MaxDay          \* bound of the model: the days that pass

ASSUME FamilyAssumption == LastHour \in Nat /\ MaxDay \in Nat

Never == -1                              \* last_ok, last_heard: null
Days == 0..MaxDay
NoReminder == [hour |-> Never, enabled |-> FALSE]
NoRow == [kept |-> FALSE, lastOk |-> Never, heard |-> FALSE, missed |-> FALSE]

VARIABLES
  day, hour,
  profiles,       \* the members UsersStore has
  online,         \* members with an open socket
  reminder,       \* FamilyStore._data
  presence,       \* PresenceStore._data; kept: there is an entry
  checking,       \* members whose I'm-OK is suspended before mark_ok
  talking,        \* members whose tx_message is suspended before touch_heard
  deleting,       \* members delete_profile is suspended on
  revived         \* history: deleted members written to afterwards by a socket
                  \* of theirs, by an admin, or whose deletion a restart cut off

clock == <<day, hour>>
famVars == <<clock, profiles, online, reminder, presence, checking, talking, deleting, revived>>

FamInit ==
  /\ day = 0 /\ hour = 0
  /\ profiles = Members /\ online = {}
  /\ reminder = [u \in Members |-> NoReminder]
  /\ presence = [u \in Members |-> NoRow]
  /\ checking = {} /\ talking = {} /\ deleting = {} /\ revived = {}

\* Whoever writes for a member without a profile leaves something behind.
Written(u) == revived' = IF u \in profiles THEN revived ELSE revived \cup {u}

ProfileCreated(u) ==
  /\ u \notin profiles
  /\ profiles' = profiles \cup {u}
  /\ UNCHANGED <<clock, online, reminder, presence, checking, talking, deleting, revived>>

\* A socket needs a profile when it connects, and then no longer.
Connects(u) ==
  /\ u \in profiles
  /\ online' = online \cup {u}
  /\ UNCHANGED <<clock, profiles, reminder, presence, checking, talking, deleting, revived>>

Leaves(u) ==
  /\ online' = online \ {u}
  /\ UNCHANGED <<clock, profiles, reminder, presence, checking, talking, deleting, revived>>

\* set_family_reminder of an admin, who need not know that the member is gone;
\* hour Never deletes the reminder.
SetReminder(u, h, on) ==
  /\ reminder' = [reminder EXCEPT ![u] = IF h = Never THEN NoReminder
                                         ELSE [hour |-> h, enabled |-> on]]
  /\ Written(u)
  /\ UNCHANGED <<clock, profiles, online, presence, checking, talking, deleting>>

\* family_status, display_im_ok: the phrase is queued and the chat line is
\* broadcast before the presence is written; a display may name any member
\* who has a profile.
CheckIn(u) ==
  /\ u \in (online \cup profiles) \ checking
  /\ checking' = checking \cup {u}
  /\ UNCHANGED <<clock, profiles, online, reminder, presence, talking, deleting, revived>>

MarkOk(u) ==
  /\ u \in checking
  /\ checking' = checking \ {u}
  /\ presence' = [presence EXCEPT ![u] = [kept |-> TRUE, lastOk |-> day, heard |-> TRUE,
                                          missed |-> FALSE]]
  /\ Written(u)
  /\ UNCHANGED <<clock, profiles, online, reminder, talking, deleting>>

Talk(u) ==
  /\ u \in online \ talking
  /\ talking' = talking \cup {u}
  /\ UNCHANGED <<clock, profiles, online, reminder, presence, checking, deleting, revived>>

TouchHeard(u) ==
  /\ u \in talking
  /\ talking' = talking \ {u}
  /\ presence' = [presence EXCEPT ![u].kept = TRUE, ![u].heard = TRUE]
  /\ Written(u)
  /\ UNCHANGED <<clock, profiles, online, reminder, checking, deleting>>

\* mutant of ProfileDeleted: the reminder goes only with the presence row
ProfileDeletedFirst(u) ==
  /\ u \in profiles
  /\ profiles' = profiles \ {u}
  /\ deleting' = deleting \cup {u}
  /\ presence' = [presence EXCEPT ![u] = NoRow]
  /\ revived' = revived \ {u}
  /\ UNCHANGED <<clock, online, reminder, checking, talking>>

\* delete_profile: the profile and its reminder go at once, and the presence
\* row after the reminders have been broadcast.
ProfileDeleted(u) ==
  /\ u \in profiles
  /\ profiles' = profiles \ {u}
  /\ deleting' = deleting \cup {u}
  /\ reminder' = [reminder EXCEPT ![u] = NoReminder]
  /\ revived' = revived \ {u}
  /\ UNCHANGED <<clock, online, presence, checking, talking>>

RemovePresence(u) ==
  /\ u \in deleting
  /\ deleting' = deleting \ {u}
  /\ presence' = [presence EXCEPT ![u] = NoRow]
  /\ UNCHANGED <<clock, profiles, online, reminder, checking, talking, revived>>

\* mutant of Missed: a check-in before the deadline does not count
MissedAtOnce(u) ==
  LET r == reminder[u]
  IN r.enabled /\ hour >= r.hour /\ (presence[u].lastOk # day \/ hour = r.hour)

\* is_checkin_missed
Missed(u) ==
  LET r == reminder[u]
  IN r.enabled /\ hour >= r.hour /\ presence[u].lastOk # day

\* _family_reminder_tick: a member without a reminder is passed over, and
\* set_missed makes an entry only for a flag that changes.
Tick ==
  /\ presence' = [u \in Members |->
        IF reminder[u] = NoReminder \/ Missed(u) = presence[u].missed THEN presence[u]
        ELSE [presence[u] EXCEPT !.kept = TRUE, !.missed = Missed(u)]]
  /\ UNCHANGED <<clock, profiles, online, reminder, checking, talking, deleting, revived>>

TimePasses ==
  /\ \/ hour < LastHour /\ hour' = hour + 1 /\ UNCHANGED day
     \/ hour = LastHour /\ day < MaxDay /\ hour' = 0 /\ day' = day + 1
  /\ UNCHANGED <<profiles, online, reminder, presence, checking, talking, deleting, revived>>

\* The stores are on disk; the suspended handlers are gone.
RestartBoard ==
  /\ online' = {} /\ checking' = {} /\ talking' = {} /\ deleting' = {}
  /\ revived' = revived \cup (deleting \ profiles)
  /\ UNCHANGED <<clock, profiles, reminder, presence>>

FamNext ==
  \/ Tick \/ TimePasses \/ RestartBoard
  \/ \E u \in Members :
       \/ ProfileCreated(u) \/ Connects(u) \/ Leaves(u) \/ ProfileDeleted(u) \/ RemovePresence(u)
       \/ CheckIn(u) \/ MarkOk(u) \/ Talk(u) \/ TouchHeard(u)
       \/ \E h \in {Never} \cup 0..LastHour, on \in BOOLEAN : SetReminder(u, h, on)

FamSpec == FamInit /\ [][FamNext]_famVars

------------------------------------------------------------------------------
FamTypeOK ==
  /\ day \in Days /\ hour \in 0..LastHour
  /\ reminder \in [Members -> [hour : {Never} \cup 0..LastHour, enabled : BOOLEAN]]
  /\ presence \in [Members -> [kept : BOOLEAN, lastOk : {Never} \cup Days,
                               heard : BOOLEAN, missed : BOOLEAN]]
  /\ \A S \in {profiles, online, checking, talking, deleting, revived} : S \subseteq Members

\* A member who checked in today is not shown as missing, whatever the deadline
\* and whoever changed it since ("a check-in earlier today, even before the
\* deadline, still counts", is_checkin_missed).
OkIsNeverMissed == \A u \in Members : presence[u].missed => presence[u].lastOk # day

\* Nothing of a deleted member is left on the board, not even by a tick that
\* runs while the deletion is suspended ("they'd otherwise linger forever",
\* delete_profile), unless somebody wrote for the member afterwards.
NothingLingers ==
  \A u \in Members \ (profiles \cup revived) :
    /\ reminder[u] = NoReminder
    /\ presence[u].kept => u \in deleting

\* The two together: what the board shows of a member is true.
BoardIsTrue == OkIsNeverMissed /\ NothingLingers
=============================================================================
