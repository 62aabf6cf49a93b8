---------------------------- MODULE ContactBook -----------------------------
(***************************************************************************)
(* The contact list (persistence/contacts.py), the two tasks that look     *)
(* licences up for it with the network in between, verify_all and the      *)
(* CallsignLookupWorker of a pending station (fcc/auto_add.py), and the    *)
(* handlers of backend/server.py.  A licence (fcc/crossref.py) is the name *)
(* it is held in.                                                          *)
(***************************************************************************)
EXTENDS Integers, FiniteSets, SequencesExt, Selections

CONSTANTS
  Calls, People,  \* callsigns; the names a contact may have
  NoName,         \* the empty name: such a contact may be anybody's
  Licensee,       \* [Calls -> People], the FCC's record
  MaxRows,        \* bound of the model: rows of the list
  MaxFlights      \* bound of the model: look-ups in flight

ASSUME BookAssumption ==
  /\ NoName \notin People
  /\ Licensee \in [Calls -> People]
  /\ MaxRows \in Nat \ {0} /\ MaxFlights \in Nat

Labels == {"", "typed"}                  \* the location of a contact
Statuses == {"verified", "callsign_only", "not_found", "offline", "error"}
Rows == [call : Calls, name : People \cup {NoName}, place : Labels, verified : BOOLEAN]

VARIABLES
  book,           \* ContactsStore._contacts
  unverified,     \* verify_all: the copy of the list it has still to go through
  pending,        \* _pending_stations: callsign to name and location
  tasks,          \* callsigns _auto_add_tasks has an entry for
  flights         \* callsigns being looked up, one for each task that runs

bookVars == <<book, unverified, pending, tasks, flights>>

Blank == [name |-> NoName, place |-> ""]

BookInit ==
  /\ book = <<>> /\ unverified = <<>>
  /\ pending = [c \in {} |-> Blank]
  /\ tasks = {}
  /\ flights = <<>>

Same(r, s) == r.call = s.call /\ r.name = s.name
Known == {book[i].call : i \in DOMAIN book}

\* add_contact: appended, and of two rows alike in callsign and name (_dedup)
\* the later one stays.
Added(r) ==
  LET all == Append(book, r)
  IN Kept(all, {i \in DOMAIN all : \A j \in DOMAIN all : j > i => ~Same(all[i], all[j])})

AddContact ==
  \E r \in Rows :
    /\ ~r.verified
    /\ Len(Added(r)) <= MaxRows
    /\ book' = Added(r)
    /\ UNCHANGED <<unverified, pending, tasks, flights>>

\* The rows a request names: an empty name stands for any.
Named(c, n) == {i \in DOMAIN book : book[i].call = c /\ (n = NoName \/ book[i].name = n)}
First(is) == CHOOSE i \in is : \A j \in is : i <= j

\* update_contact from the dialog, which sends the name and the location.
EditContact ==
  \E c \in Calls, old, new \in People \cup {NoName}, l \in Labels :
    /\ Named(c, old) # {}
    /\ book' = [book EXCEPT ![First(Named(c, old))].name = new,
                            ![First(Named(c, old))].place = l]
    /\ UNCHANGED <<unverified, pending, tasks, flights>>

DeleteContact ==
  \E c \in Calls, n \in People \cup {NoName} :
    /\ Named(c, n) # {}
    /\ book' = Kept(book, DOMAIN book \ Named(c, n))
    /\ UNCHANGED <<unverified, pending, tasks, flights>>

\* What the FCC answers: verified only where the name is the licensee's.
Answers(c, n) == {s \in Statuses : s = "verified" => n = Licensee[c]}

\* apply_verification: nothing is learnt offline, anything else is written with
\* its date; a location left blank is filled in where the name was verified.
Unreached == {"offline", "error"}
Verified(r, status) ==
  [r EXCEPT !.verified = (status = "verified"),
            !.place = IF status = "verified" /\ r.place = "" THEN "typed" ELSE r.place]

\* (Bound of the model: one verify_all runs at a time.)
StartVerifyAll ==
  /\ unverified = <<>> /\ book # <<>>
  /\ unverified' = book
  /\ UNCHANGED <<book, pending, tasks, flights>>

\* mutant of VerifyNext: the verdict goes to whatever row has the callsign
VerifyNextByCall ==
  /\ unverified # <<>>
  /\ unverified' = Tail(unverified)
  /\ LET r == Head(unverified)
         is == Named(r.call, NoName)
     IN \E status \in Answers(r.call, r.name) :
          book' = IF r.verified \/ status \in Unreached \/ is = {} THEN book
                  ELSE [book EXCEPT ![First(is)].verified = Verified(r, status).verified]
  /\ UNCHANGED <<pending, tasks, flights>>

\* One contact of verify_all: the copy, with the verdict on it, replaces the first
\* row that has its callsign and name by now (any name, if it had none); if there
\* is no such row nothing is changed.
VerifyNext ==
  /\ unverified # <<>>
  /\ unverified' = Tail(unverified)
  /\ LET r == Head(unverified)
         is == Named(r.call, r.name)
     IN \E status \in Answers(r.call, r.name) :
          book' = IF r.verified \/ status \in Unreached \/ is = {} THEN book
                  ELSE [book EXCEPT ![First(is)] = Verified(r, status)]
  /\ UNCHANGED <<pending, tasks, flights>>

\* _rx_pump hears an unknown station; with a name it is looked up, unless a
\* look-up of it is on file.
Hear(c, n, reached) ==
  /\ c \notin Known /\ c \notin DOMAIN pending
  /\ pending' = [d \in DOMAIN pending \cup {c} |->
                   IF d = c THEN [name |-> n, place |-> ""] ELSE pending[d]]
  /\ IF n # NoName /\ reached /\ c \notin tasks
     THEN /\ Len(flights) < MaxFlights
          /\ tasks' = tasks \cup {c}
          /\ flights' = Append(flights, c)
     ELSE UNCHANGED <<tasks, flights>>
  /\ UNCHANGED <<book, unverified>>

\* _on_auto_add_result: only a pill that is still there is filled in.
Answer(i) ==
  LET c == flights[i] IN
  /\ flights' = RemoveAt(flights, i)
  /\ tasks' = tasks \ {c}
  /\ \/ UNCHANGED pending
     \/ /\ c \in DOMAIN pending
        /\ pending' = [pending EXCEPT ![c].place = "typed"]
  /\ UNCHANGED <<book, unverified>>

\* dismiss_pending and dismiss_all_pending forget the tasks and let them run.
Dismiss(cs) ==
  /\ pending' = [d \in DOMAIN pending \ cs |-> pending[d]]
  /\ tasks' = tasks \ cs
  /\ UNCHANGED <<book, unverified, flights>>

BookNext ==
  \/ AddContact \/ EditContact \/ DeleteContact
  \/ StartVerifyAll \/ VerifyNext
  \/ \E c \in Calls, n \in People \cup {NoName}, reached \in BOOLEAN : Hear(c, n, reached)
  \/ \E i \in DOMAIN flights : Answer(i)
  \/ \E c \in DOMAIN pending : Dismiss({c})
  \/ Dismiss(Calls)

BookSpec == BookInit /\ [][BookNext]_bookVars

------------------------------------------------------------------------------
BookTypeOK ==
  /\ book \in Seq(Rows) /\ Len(book) <= MaxRows
  /\ unverified \in Seq(Rows)
  /\ DOMAIN pending \subseteq Calls
  /\ tasks \subseteq Calls
  /\ flights \in Seq(Calls)

\* A contact earns the verified badge only under the name the licence is held
\* in, whatever was renamed, replaced or deleted while the FCC was asked: the
\* verdict comes with the copy it is about (_do_verify_all, apply_verification).
BadgeIsEarned ==
  [][Len(unverified') < Len(unverified) => \A i \in DOMAIN book' :
        book'[i].verified /\ ~book[i].verified
          => book'[i].name = Licensee[book'[i].call]]_bookVars
=============================================================================
