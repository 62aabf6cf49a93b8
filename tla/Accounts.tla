------------------------------ MODULE Accounts ------------------------------
(***************************************************************************)
(* Profiles (persistence/users.py), the tokens of paired wall displays     *)
(* (persistence/device_tokens.py), the connections that websocket_endpoint *)
(* makes for both, and the handlers of backend/server.py and               *)
(* auth_routes.py that change them.  A connection carries a copy of the    *)
(* profile it was opened with, which _sync_live_state_for_user refreshes.  *)
(* Of the preferences the model keeps whether the quick messages, which    *)
(* are what a kid may transmit, are one's own, and one bit for those a kid *)
(* is locked out of.                                                       *)
(***************************************************************************)
EXTENDS Naturals, FiniteSets

CONSTANTS
  Users,          \* user ids; _make_id gives a freed one out again
  Panels,         \* device tokens
  Conns,          \* slots for WebSocket connections
  Absent,
  Saves           \* bound of the model: what a suspended save may save

ASSUME AccountsAssumption ==
  /\ Users \cap Panels = {} /\ Absent \notin Users \cup Panels
  /\ Saves \subseteq (SUBSET {"own", "loose"}) \ {{}}

Roles == {"admin", "adult", "kid"}
Profile == [role : Roles, admin : BOOLEAN, own : BOOLEAN, loose : BOOLEAN]
State == [role : Roles \cup {"display"}, admin : BOOLEAN, own : BOOLEAN, loose : BOOLEAN]

VARIABLES
  roster,         \* UsersStore._users
  panels,         \* tokens on file
  conn,           \* the connections: whose, and how far
  state,          \* their ConnectionState
  saving,         \* save_user_prefs suspended in a refusal: what it has yet to save
  behind,         \* history: connections that were not told of a change
  misled,         \* history: kids written to by one who took them for an adult
  acted           \* history: a connection that was behind acted as an admin

stores == <<roster, panels>>
sockets == <<conn, state, saving>>
history == <<behind, misled, acted>>
accVars == <<stores, sockets, history>>

Nobody == [role |-> Absent]
NoConn == [at |-> "none", who |-> Absent]
Display == [role |-> "display", admin |-> FALSE, own |-> FALSE, loose |-> FALSE]

Has(u) == roster[u] # Nobody
On(c) == conn[c].at \in {"live", "closing"}
Of(w) == {c \in Conns : conn[c].who = w}
New(role) == [role |-> role, admin |-> (role = "admin"), own |-> FALSE, loose |-> FALSE]

\* effective_prefs: what a kid is locked out of does not count.
Effective(p) == [role |-> p.role, admin |-> p.admin, own |-> p.own,
                 loose |-> (p.loose /\ p.role # "kid")]

AccInit ==
  /\ roster = [u \in Users |-> Nobody]
  /\ panels = {}
  /\ conn = [c \in Conns |-> NoConn]
  /\ state = [c \in Conns |-> Display]
  /\ saving = [c \in Conns |-> {}]
  /\ behind = {} /\ misled = {} /\ acted = FALSE

------------------------------------------------------------------------------
(* Connections: the profile or the token is read, accept() is awaited, and  *)
(* the connection is registered with what was read.                         *)

Open(c, u) ==
  /\ conn[c].at = "none" /\ Has(u)
  /\ conn' = [conn EXCEPT ![c] = [at |-> "accepting", who |-> u]]
  /\ state' = [state EXCEPT ![c] = Effective(roster[u])]
  /\ UNCHANGED <<stores, saving, history>>

OpenDisplay(c, p) ==
  /\ conn[c].at = "none" /\ p \in panels
  /\ conn' = [conn EXCEPT ![c] = [at |-> "accepting", who |-> p]]
  /\ state' = [state EXCEPT ![c] = Display]
  /\ UNCHANGED <<stores, saving, history>>

Accept(c) ==
  /\ conn[c].at = "accepting"
  /\ conn' = [conn EXCEPT ![c].at = "live"]
  /\ UNCHANGED <<stores, state, saving, history>>

Close(c) ==
  /\ On(c) /\ saving[c] = {}
  /\ conn' = [conn EXCEPT ![c] = NoConn]
  /\ state' = [state EXCEPT ![c] = Display]
  /\ behind' = behind \ {c}
  /\ UNCHANGED <<stores, saving, misled, acted>>

\* disconnect_user: the connections registered by now are closed one by one.
Disconnected(w) ==
  conn' = [c \in Conns |-> IF On(c) /\ conn[c].who = w THEN [conn[c] EXCEPT !.at = "closing"]
                           ELSE conn[c]]

\* admin_revoke_user (the session tokens themselves are not modelled).
RevokeUser(u) ==
  /\ Has(u)
  /\ Disconnected(u)
  /\ UNCHANGED <<stores, state, saving, history>>

\* mutant of Synced: nobody is told
SyncedNobody(u) == UNCHANGED state

\* _sync_live_state_for_user: every registered connection of the account.  (They
\* share one dict from then on, which matters only for what a kid cannot change.)
Synced(u) ==
  state' = [c \in Conns |-> IF On(c) /\ conn[c].who = u THEN Effective(roster'[u]) ELSE state[c]]

\* One that is not registered yet is not told.
Told(u) == behind' = (behind \ {c \in Of(u) : On(c)}) \cup {c \in Of(u) : ~On(c)}

------------------------------------------------------------------------------
(* What admins do.  Each handler asks the state of its own connection, and   *)
(* changes the store and the connections before its first await.             *)

Admin(c) == conn[c].at = "live" /\ saving[c] = {} /\ state[c].admin
Acts(c) == Admin(c) /\ acted' = (acted \/ c \in behind)

\* mutant of Demoted: the quick messages of an adult become those of the kid
DemotedAsIs(p, r) == [p EXCEPT !.role = r, !.admin = (r = "admin")]

\* set_role: one who becomes a kid loses the messages set as an adult.
Demoted(p, r) == [p EXCEPT !.role = r, !.admin = (r = "admin"),
                           !.own = @ /\ ~(r = "kid" /\ p.role # "kid")]

\* mutant of SetRole: an admin may give up their own role
SetRoleFreely(c, u, r) ==
  /\ Acts(c) /\ Has(u)
  /\ roster' = [roster EXCEPT ![u] = Demoted(@, r)]
  /\ misled' = IF r = "kid" /\ roster[u].role = "kid" THEN misled ELSE misled \ {u}
  /\ Synced(u) /\ Told(u)
  /\ UNCHANGED <<panels, conn, saving>>

SetRole(c, u, r) ==
  /\ Acts(c) /\ Has(u)
  /\ u = conn[c].who => r = "admin"
  /\ roster' = [roster EXCEPT ![u] = Demoted(@, r)]
  /\ misled' = IF r = "kid" /\ roster[u].role = "kid" THEN misled ELSE misled \ {u}
  /\ Synced(u) /\ Told(u)
  /\ UNCHANGED <<panels, conn, saving>>

\* update_profile of another account, or of one's own with is_admin: granting it
\* to a kid is refused, and so is taking it from oneself.
SetAdmin(c, u, admin) ==
  /\ Acts(c) /\ Has(u)
  /\ u = conn[c].who => admin
  /\ admin => roster[u].role # "kid"
  /\ roster' = [roster EXCEPT ![u].admin = admin,
                  ![u].role = IF admin THEN "admin" ELSE IF @ = "admin" THEN "adult" ELSE @]
  /\ Synced(u) /\ Told(u)
  /\ UNCHANGED <<panels, conn, saving, misled>>

\* update_profile of one's own names.
EditOwn(c) ==
  /\ conn[c].at = "live" /\ saving[c] = {} /\ conn[c].who \in Users /\ Has(conn[c].who)
  /\ UNCHANGED roster
  /\ Synced(conn[c].who) /\ Told(conn[c].who)
  /\ UNCHANGED <<panels, conn, saving, misled, acted>>

\* set_user_quick_messages
GiveMessages(c, u) ==
  /\ Acts(c) /\ Has(u)
  /\ roster' = [roster EXCEPT ![u].own = FALSE]
  /\ misled' = misled \ {u}
  /\ Synced(u) /\ Told(u)
  /\ UNCHANGED <<panels, conn, saving>>

\* set_neighborhood_coordinator: one of the preferences a kid cannot have.
SetCoordinator(c, u) ==
  /\ Acts(c) /\ Has(u) /\ roster[u].role # "kid"
  /\ \E l \in BOOLEAN : roster' = [roster EXCEPT ![u].loose = l]
  /\ Synced(u) /\ Told(u)
  /\ UNCHANGED <<panels, conn, saving, misled>>

CreateProfile(c, u, r) ==
  /\ Acts(c) /\ ~Has(u)
  /\ roster' = [roster EXCEPT ![u] = New(r)]
  /\ misled' = misled \ {u}
  /\ UNCHANGED <<panels, sockets, behind>>

\* The connections of a deleted profile are neither closed nor told.
DeleteProfile(c, u) ==
  /\ Acts(c) /\ Has(u) /\ u # conn[c].who
  /\ roster' = [roster EXCEPT ![u] = Nobody]
  /\ behind' = behind \cup Of(u)
  /\ UNCHANGED <<panels, sockets, misled>>

------------------------------------------------------------------------------
(* What everybody does. *)

\* POST /auth/setup
Setup(u) ==
  /\ \A v \in Users : ~Has(v)
  /\ roster' = [roster EXCEPT ![u] = New("admin")]
  /\ misled' = misled \ {u} /\ acted' = FALSE
  /\ UNCHANGED <<panels, sockets, behind>>

\* save_user_prefs: a kid saves nothing that matters here.  An invalid grid is
\* refused in a message, which is awaited, before the rest is saved.
BeginSave(c, what) ==
  /\ conn[c].at = "live" /\ saving[c] = {}
  /\ state[c].role \notin {"kid", "display"}
  /\ saving' = [saving EXCEPT ![c] = what]
  /\ UNCHANGED <<stores, conn, state, history>>

Merged(p, what) == [p EXCEPT !.own = @ \/ "own" \in what,
                             !.loose = @ \/ "loose" \in what]

FinishSave(c) ==
  LET u == conn[c].who IN
  /\ saving[c] # {}
  /\ saving' = [saving EXCEPT ![c] = {}]
  /\ state' = [state EXCEPT ![c] = Merged(@, saving[c])]
  /\ IF Has(u) THEN roster' = [roster EXCEPT ![u] = Merged(@, saving[c])] ELSE UNCHANGED roster
  /\ misled' = IF Has(u) /\ roster[u].role = "kid" THEN misled \cup {u} ELSE misled
  /\ UNCHANGED <<panels, conn, behind, acted>>

\* set_listen_only: the bit falls if no other preference holds it up.
SetListenOnly(c, l) ==
  LET u == conn[c].who IN
  /\ conn[c].at = "live" /\ saving[c] = {}
  /\ state[c].role \notin {"kid", "display"}
  /\ state' = [state EXCEPT ![c].loose = l]
  /\ IF Has(u) THEN roster' = [roster EXCEPT ![u].loose = l] ELSE UNCHANGED roster
  /\ UNCHANGED <<panels, conn, saving, history>>

------------------------------------------------------------------------------
(* Wall displays. *)

\* device_token_create
CreatePanel(c, p) ==
  /\ Acts(c) /\ p \notin panels
  /\ panels' = panels \cup {p}
  /\ UNCHANGED <<roster, sockets, behind, misled>>

\* device_token_revoke
RevokePanel(c, p) ==
  /\ Acts(c) /\ p \in panels
  /\ panels' = panels \ {p}
  /\ Disconnected(p)
  /\ behind' = behind \cup {d \in Of(p) : ~On(d)}
  /\ UNCHANGED <<roster, state, saving, misled>>

RestartServer ==
  /\ conn' = [c \in Conns |-> NoConn] /\ state' = [c \in Conns |-> Display]
  /\ saving' = [c \in Conns |-> {}]
  /\ behind' = {}
  /\ UNCHANGED <<roster, panels, misled, acted>>

------------------------------------------------------------------------------
Administer(c) ==
  \/ \E u \in Users :
       \/ \E r \in Roles : SetRole(c, u, r) \/ CreateProfile(c, u, r)
       \/ \E a \in BOOLEAN : SetAdmin(c, u, a)
       \/ GiveMessages(c, u) \/ SetCoordinator(c, u) \/ DeleteProfile(c, u)
  \/ \E p \in Panels : CreatePanel(c, p) \/ RevokePanel(c, p)

Connection(c) ==
  \/ \E u \in Users : Open(c, u)
  \/ \E p \in Panels : OpenDisplay(c, p)
  \/ Accept(c) \/ Close(c) \/ EditOwn(c) \/ FinishSave(c)
  \/ \E what \in Saves : BeginSave(c, what)
  \/ \E l \in BOOLEAN : SetListenOnly(c, l)

AccNext ==
  \/ \E c \in Conns : Administer(c) \/ Connection(c)
  \/ \E u \in Users : Setup(u) \/ RevokeUser(u)
  \/ RestartServer

AccSpec == AccInit /\ [][AccNext]_accVars

------------------------------------------------------------------------------
\* Types; role "admin" and is_admin go together (the comment of ROLES), and a
\* connection is somebody's for as long as it is there.
AccTypeOK ==
  /\ roster \in [Users -> Profile \cup {Nobody}]
  /\ \A u \in Users : Has(u) => (roster[u].admin <=> roster[u].role = "admin")
  /\ panels \subseteq Panels
  /\ conn \in [Conns -> [at : {"none", "accepting", "live", "closing"},
                         who : Users \cup Panels \cup {Absent}]]
  /\ \A c \in Conns : conn[c].at = "none" <=> conn[c].who = Absent
  /\ state \in [Conns -> State]
  /\ saving \in [Conns -> SUBSET {"own", "loose"}]
  /\ behind \subseteq Conns /\ misled \subseteq Users /\ acted \in BOOLEAN

\* A registered connection has the role its account has by now, and that of a
\* display has a token on file or is being closed; the exceptions are those
\* that were being accepted at the change, and those of a deleted profile
\* (_sync_live_state_for_user, disconnect_user).
LiveFollowsStore ==
  \A c \in Conns : On(c) /\ c \notin behind =>
    /\ conn[c].who \in Users =>
         Has(conn[c].who) /\ state[c].role = roster[conn[c].who].role
                          /\ state[c].admin = roster[conn[c].who].admin
    /\ conn[c].who \in Panels => conn[c].who \in panels \/ conn[c].at = "closing"

\* The station is never left without an admin: each handler lets an admin demote
\* or delete others only, so two of them cannot do it to one another, unless a
\* connection acts that no longer is what it was.
AnAdminRemains ==
  ~acted /\ (\E u \in Users : Has(u)) => \E u \in Users : Has(u) /\ roster[u].admin

\* The quick messages of a kid are never those set by oneself, on file or in a
\* connection, and no connection of a kid is free of the locks; the exception is
\* a save that was suspended while its sender became a kid (set_role:
\* "clear them rather than let them silently become the kid's approved on-air
\* TX allowlist").
KidPresetsCurated ==
  \A u \in Users \ misled : Has(u) /\ roster[u].role = "kid" =>
    /\ ~roster[u].own
    /\ \A c \in Of(u) \ behind : On(c) => ~state[c].own /\ ~state[c].loose

\* The two together: what a connection may do is what its account may do.
RolesHold == LiveFollowsStore /\ KidPresetsCurated
=============================================================================
