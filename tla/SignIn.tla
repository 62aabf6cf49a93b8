------------------------------- MODULE SignIn -------------------------------
(***************************************************************************)
(* Signing in: the limiter of login attempts per address, the lockout of   *)
(* an account after mistyped passwords, the session tokens in memory and   *)
(* on disk, and the one-time tickets with which a session opens a socket.  *)
(* Every handler runs without an await, so each is one step.  What a       *)
(* socket may do once it is open is in Accounts.                           *)
(***************************************************************************)
EXTENDS Integers, Sequences, FiniteSets, FiniteSetsExt, Functions, Selections

CONSTANTS
  Names,         \* accounts
  Addresses,     \* client addresses
  Tokens,        \* session tokens
  Tickets,       \* WebSocket tickets
  Gone,          \* no such session, ticket, lock or promise
  Second,        \* ticks per second: the limiter answers in whole seconds
  MaxAttempts,   \* LOCKOUT_MAX_ATTEMPTS
  LockFor,       \* LOCKOUT_DURATION_MINUTES
  PerWindow, Window, MaxAddresses,  \* the limiter's _max, _window and _MAX_TRACKED_IPS
  SessionFor, TicketFor,
  MaxNow         \* ticks (bound of the model)

ASSUME SignInAssumption ==
  /\ {Second, MaxAttempts, LockFor, PerWindow, Window, MaxAddresses, SessionFor, TicketFor, MaxNow}
       \subseteq Nat \ {0}
  /\ Gone \notin Nat \cup [user : Names, until : Nat]

VARIABLES
  now,
  hits,         \* the limiter: recent admitted attempts of each tracked address
  admitted,     \* history: its admitted attempts since the limiter last forgot it
  promised,     \* when an address was last told it may try again
  attempts, lockedUntil,    \* of each account, saved with every change
  sessions, storedSessions, \* the token store and its file: [Tokens -> [user, until] or Gone]
  tickets       \* in memory only

signVars == <<now, hits, admitted, promised, attempts, lockedUntil, sessions, storedSessions, tickets>>

NoTokens == [t \in Tokens |-> Gone]
Untracked == [a \in Addresses |-> <<>>]

SignInit ==
  /\ now = 0
  /\ hits = Untracked /\ admitted = Untracked
  /\ promised = [a \in Addresses |-> Gone]
  /\ attempts = [n \in Names |-> 0] /\ lockedUntil = [n \in Names |-> Gone]
  /\ sessions = NoTokens /\ storedSessions = NoTokens
  /\ tickets = [k \in Tickets |-> Gone]

NextTick ==
  /\ now < MaxNow /\ now' = now + 1
  /\ UNCHANGED <<hits, admitted, promised, attempts, lockedUntil, sessions, storedSessions, tickets>>

-----------------------------------------------------------------------------
(* The limiter. *)
Recent(a) == Kept(hits[a], {i \in DOMAIN hits[a] : hits[a][i] > now - Window})

\* mutant of Exhausted: one attempt too many
ExhaustedLate(a) == Len(Recent(a)) > PerWindow

Exhausted(a) == Len(Recent(a)) >= PerWindow

\* mutant of RetryAfter: rounds down
RetryAfterRoundedDown(a) == (Min(Range(Recent(a))) + Window - now) \div Second

\* Whole seconds until the oldest attempt leaves the window, and one.
RetryAfter(a) == (Min(Range(Recent(a))) + Window - now) \div Second + 1

\* Too many addresses: the one whose oldest attempt is longest ago is forgotten.
Evicted(h) ==
  LET tracked == {a \in Addresses : h[a] # <<>>}
  IN IF Cardinality(tracked) <= MaxAddresses THEN {h}
     ELSE {[h EXCEPT ![a] = <<>>] :
             a \in {x \in tracked : \A y \in tracked : Min(Range(h[x])) <= Min(Range(h[y]))}}

Refuse(a) ==
  /\ Exhausted(a)
  /\ hits' = [hits EXCEPT ![a] = Recent(a)]
  /\ promised' = [promised EXCEPT ![a] = now + Second * RetryAfter(a)]
  /\ UNCHANGED <<now, admitted, attempts, lockedUntil, sessions, storedSessions, tickets>>

Admit(a) ==
  /\ ~Exhausted(a)
  /\ hits' \in Evicted([hits EXCEPT ![a] = Append(Recent(a), now)])
  /\ admitted' = [x \in Addresses |-> IF hits'[x] = <<>> THEN <<>>
                                     ELSE IF x = a THEN Append(admitted[a], now)
                                     ELSE admitted[x]]
  /\ promised' = [promised EXCEPT ![a] = Gone]

-----------------------------------------------------------------------------
(* The lockout. *)
LockOver(n) == lockedUntil[n] # Gone /\ now >= lockedUntil[n]
Locked(n) == lockedUntil[n] # Gone /\ now < lockedUntil[n]
Failures(n) == IF LockOver(n) THEN 0 ELSE attempts[n]

\* mutant of Cleared: the attempts stay
ClearedLockOnly(n) ==
  /\ attempts' = attempts
  /\ lockedUntil' = [lockedUntil EXCEPT ![n] = Gone]

Cleared(n) ==
  /\ attempts' = [attempts EXCEPT ![n] = 0]
  /\ lockedUntil' = [lockedUntil EXCEPT ![n] = Gone]

UnknownName(a) ==
  /\ Admit(a)
  /\ UNCHANGED <<now, attempts, lockedUntil, sessions, storedSessions, tickets>>

RefusedAsLocked(a, n) ==
  /\ Admit(a) /\ Locked(n)
  /\ UNCHANGED <<now, attempts, lockedUntil, sessions, storedSessions, tickets>>

WrongPassword(a, n) ==
  /\ Admit(a) /\ ~Locked(n)
  /\ attempts' = [attempts EXCEPT ![n] = Failures(n) + 1]
  /\ lockedUntil' = [lockedUntil EXCEPT
                       ![n] = IF Failures(n) + 1 >= MaxAttempts THEN now + LockFor ELSE Gone]
  /\ UNCHANGED <<now, sessions, storedSessions, tickets>>

LogIn(a, n, t) ==
  /\ Admit(a) /\ ~Locked(n) /\ Cleared(n)
  /\ sessions[t] = Gone /\ storedSessions[t] = Gone
  /\ sessions' = [sessions EXCEPT ![t] = [user |-> n, until |-> now + SessionFor]]
  /\ storedSessions' = sessions'
  /\ UNCHANGED <<now, tickets>>

\* An admin resets the lockout, or sets a new password.
ResetLockout(n) ==
  /\ Cleared(n)
  /\ UNCHANGED <<now, hits, admitted, promised, sessions, storedSessions, tickets>>

-----------------------------------------------------------------------------
(* Sessions and tickets. *)
Expired(s) == s # Gone /\ s.until <= now

\* An expired session is forgotten on sight, but the file keeps it.
Stale(t) ==
  /\ Expired(sessions[t])
  /\ sessions' = [sessions EXCEPT ![t] = Gone]
  /\ UNCHANGED <<now, hits, admitted, promised, attempts, lockedUntil, storedSessions, tickets>>

\* mutant of Ended: the file is not written
EndedUnsaved(gone) ==
  /\ sessions' = [t \in Tokens |-> IF t \in gone THEN Gone ELSE sessions[t]]
  /\ storedSessions' = storedSessions

\* The sessions of gone end, and the file is written if there were any.
Ended(gone) ==
  /\ sessions' = [t \in Tokens |-> IF t \in gone THEN Gone ELSE sessions[t]]
  /\ storedSessions' = IF gone = {} THEN storedSessions ELSE sessions'

LogOut(t) ==
  /\ sessions[t] # Gone /\ Ended({t})
  /\ UNCHANGED <<now, hits, admitted, promised, attempts, lockedUntil, tickets>>

RevokeSessions(n) ==
  /\ Ended({t \in Tokens : sessions[t] # Gone /\ sessions[t].user = n})
  /\ UNCHANGED <<now, hits, admitted, promised, attempts, lockedUntil, tickets>>

IssueTicket(t, k) ==
  /\ sessions[t] # Gone /\ ~Expired(sessions[t])
  /\ tickets[k] = Gone
  /\ tickets' = [x \in Tickets |->
                   IF x = k THEN [user |-> sessions[t].user, until |-> now + TicketFor]
                   ELSE IF Expired(tickets[x]) THEN Gone ELSE tickets[x]]
  /\ UNCHANGED <<now, hits, admitted, promised, attempts, lockedUntil, sessions, storedSessions>>

UseTicket(k) == \* good or expired, it is gone
  /\ tickets[k] # Gone
  /\ tickets' = [tickets EXCEPT ![k] = Gone]
  /\ UNCHANGED <<now, hits, admitted, promised, attempts, lockedUntil, sessions, storedSessions>>

\* The file is read back and purged; tickets and the limiter start afresh.
Reboot ==
  /\ sessions' = [t \in Tokens |-> IF Expired(storedSessions[t]) THEN Gone ELSE storedSessions[t]]
  /\ storedSessions' = sessions'
  /\ tickets' = [k \in Tickets |-> Gone]
  /\ hits' = Untracked /\ admitted' = Untracked /\ promised' = [a \in Addresses |-> Gone]
  /\ UNCHANGED <<now, attempts, lockedUntil>>

SignNext ==
  \/ NextTick
  \/ \E a \in Addresses :
       \/ Refuse(a) \/ UnknownName(a)
       \/ \E n \in Names :
            \/ RefusedAsLocked(a, n) \/ WrongPassword(a, n)
            \/ \E t \in Tokens : LogIn(a, n, t)
  \/ \E n \in Names : ResetLockout(n) \/ RevokeSessions(n)
  \/ \E t \in Tokens :
       \/ Stale(t) \/ LogOut(t)
       \/ \E k \in Tickets : IssueTicket(t, k)
  \/ \E k \in Tickets : UseTicket(k)
  \/ Reboot

SignSpec == SignInit /\ [][SignNext]_signVars

-----------------------------------------------------------------------------
Times == 0..MaxNow + SessionFor + LockFor + TicketFor + Window + 2 * Second
Grants == [user : Names, until : Times] \cup {Gone}

\* Types of the sign-in.
SignTypeOK ==
  /\ now \in 0..MaxNow
  /\ hits \in [Addresses -> Seq(0..now)] /\ admitted \in [Addresses -> Seq(0..now)]
  /\ promised \in [Addresses -> Times \cup {Gone}]
  /\ attempts \in [Names -> 0..MaxAttempts] /\ lockedUntil \in [Names -> Times \cup {Gone}]
  /\ sessions \in [Tokens -> Grants] /\ storedSessions \in [Tokens -> Grants]
  /\ tickets \in [Tickets -> Grants]

\* Of the attempts of an address since it was last forgotten (by a restart, or evicted
\* from a full table) no more than PerWindow fall into one window, however the list of
\* recent ones was pruned since; and an address that waits as long as it was told
\* (Retry-After) is admitted.
RateHolds ==
  \A a \in Addresses :
    /\ \A i \in 1..Len(admitted[a]) - PerWindow :
         admitted[a][i] + Window <= admitted[a][i + PerWindow]
    /\ promised[a] # Gone /\ now >= promised[a] => ~Exhausted(a)

\* An account is locked exactly when it has used up its attempts, and never for longer
\* than the lockout lasts.
LockFits ==
  \A n \in Names :
    /\ lockedUntil[n] # Gone <=> attempts[n] >= MaxAttempts
    /\ lockedUntil[n] # Gone => lockedUntil[n] <= now + LockFor

\* A restart brings back no session that was ended: what the file has and memory has
\* not is expired, and memory has nothing the file lacks.
FileFits ==
  \A t \in Tokens :
    \/ sessions[t] = storedSessions[t]
    \/ sessions[t] = Gone /\ Expired(storedSessions[t])

SignInKeeps == RateHolds /\ LockFits /\ FileFits
=============================================================================
