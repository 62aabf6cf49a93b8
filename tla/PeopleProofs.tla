---------------------------- MODULE PeopleProofs ----------------------------
(***************************************************************************)
(* Proofs about the components that serve people, for any number of        *)
(* accounts, panels, connections, messages and family members: what a      *)
(* connection may do is what its account may do, and the station is never  *)
(* left without an admin (Accounts); a browser shows each message once and *)
(* in order (StreamHub); the family board is true (FamilyBoard); the sign-in*)
(* limits, locks and tokens hold (SignIn); a badge of the contact book is  *)
(* earned (ContactBook). At the end the types of all five, as MCPeople puts*)
(* them together.                                                          *)
(***************************************************************************)
EXTENDS MCPeople, SelectionProofs

-----------------------------------------------------------------------------
(* Accounts. *)

\* A connection that was told of every change has the role of its account, from the
\* moment the account is read.
Matches(c) ==
  conn[c].at # "none" /\ c \notin behind =>
    /\ conn[c].who \in Users =>
         /\ Has(conn[c].who)
         /\ state[c].role = roster[conn[c].who].role
         /\ state[c].admin = roster[conn[c].who].admin
    /\ conn[c].who \in Panels => conn[c].who \in panels \/ conn[c].at = "closing"

\* A display never becomes more than one, and has nothing to save.
DisplaysOnly(c) ==
  conn[c].who \notin Users => state[c].role = "display" /\ ~state[c].admin /\ saving[c] = {}

\* Nobody misled a kid, so that the messages on file and in its connections were given.
Curated(u) ==
  Has(u) /\ roster[u].role = "kid" /\ u \notin misled =>
    /\ ~roster[u].own
    /\ \A c \in Of(u) \ behind : ~state[c].own /\ ~state[c].loose

AccInv ==
  /\ AccTypeOK
  /\ \A c \in Conns : Matches(c) /\ DisplaysOnly(c)
  /\ \A u \in Users : Curated(u)
  /\ AnAdminRemains

\* A profile is somebody.
LEMMA ProfileIsSome == \A p \in Profile : p # Nobody
<1> SUFFICES ASSUME NEW p \in Profile, p = Nobody PROVE FALSE
    OBVIOUS
<1>1. DOMAIN p = {"role", "admin", "own", "loose"}
      BY DEF Profile
<1>2. DOMAIN p = {"role"}
      BY DEF Nobody
<1> QED BY <1>1, <1>2

\* The profile of one who is on file.
LEMMA HasProfile ==
  ASSUME AccTypeOK, NEW u \in Users, Has(u)
  PROVE  roster[u] \in Profile /\ (roster[u].admin <=> roster[u].role = "admin")
BY DEF AccTypeOK, Has

\* What a connection reads of a profile.
LEMMA EffectiveFits ==
  ASSUME NEW p \in Profile
  PROVE  /\ Effective(p) \in State
         /\ Effective(p).role = p.role /\ Effective(p).admin = p.admin
         /\ Effective(p).own = p.own /\ (p.role = "kid" => ~Effective(p).loose)
BY DEF Effective, Profile, State, Roles

\* The properties are in the invariant.
LEMMA InvSuffices == AccInv => RolesHold /\ AnAdminRemains
<1> SUFFICES ASSUME AccInv PROVE RolesHold
    BY DEF AccInv
<1>1. LiveFollowsStore
      BY DEF AccInv, Matches, LiveFollowsStore, On
<1>2. KidPresetsCurated
      BY DEF AccInv, Curated, KidPresetsCurated
<1> QED BY <1>1, <1>2 DEF RolesHold

\* It holds before anyone has a profile.
LEMMA InitInv == AccInit => AccInv
<1> SUFFICES ASSUME AccInit PROVE AccInv
    OBVIOUS
<1>1. \A u \in Users : ~Has(u)
      BY DEF AccInit, Has
<1>2. AccTypeOK
      BY <1>1, AccountsAssumption DEF AccInit, AccTypeOK, NoConn, Display, State
<1>3. \A c \in Conns : Matches(c) /\ DisplaysOnly(c)
      BY DEF AccInit, Matches, DisplaysOnly, NoConn, Display
<1>4. (\A u \in Users : Curated(u)) /\ AnAdminRemains
      BY <1>1 DEF Curated, AnAdminRemains
<1> QED BY <1>2, <1>3, <1>4 DEF AccInv

\* A profile that changes and is told to the connections of its account.
LEMMA SyncKeeps ==
  ASSUME AccInv, NEW u \in Users, NEW p \in Profile, Has(u),
         p.admin <=> p.role = "admin",
         p.role = "kid" /\ u \notin misled' => ~p.own,
         misled' \subseteq Users, misled \ {u} \subseteq misled',
         acted' \in BOOLEAN,
         roster' = [roster EXCEPT ![u] = p], Synced(u), Told(u),
         UNCHANGED <<panels, conn, saving>>,
         AnAdminRemains'
  PROVE  AccInv'
<1>1. /\ roster' \in [Users -> Profile \cup {Nobody}]
      /\ roster'[u] = p /\ \A v \in Users \ {u} : roster'[v] = roster[v]
      BY DEF AccInv, AccTypeOK
<1>2. \A v \in Users : Has(v)' <=> Has(v)
      BY <1>1, ProfileIsSome DEF Has
<1>3. \A c \in Conns : state'[c] = IF On(c) /\ conn[c].who = u THEN Effective(p) ELSE state[c]
      BY <1>1 DEF Synced
<1>4. state' \in [Conns -> State]
      BY <1>1, EffectiveFits DEF Synced, AccInv, AccTypeOK
<1>5. behind' = (behind \ {c \in Of(u) : On(c)}) \cup {c \in Of(u) : ~On(c)}
      BY DEF Told
<1>6. behind' \subseteq Conns
      BY <1>5 DEF Of, AccInv, AccTypeOK
<1>7. AccTypeOK'
  <2>1. \A v \in Users : Has(v)' => (roster'[v].admin <=> roster'[v].role = "admin")
        BY <1>1, <1>2 DEF AccInv, AccTypeOK
  <2> QED BY <1>1, <1>4, <1>6, <2>1 DEF AccInv, AccTypeOK, Has
<1>8. ASSUME NEW c \in Conns PROVE Matches(c)' /\ DisplaysOnly(c)'
  <2>1. CASE On(c) /\ conn[c].who = u
        BY <1>1, <1>2, <1>3, <2>1, EffectiveFits, AccountsAssumption
           DEF Matches, DisplaysOnly, AccInv
  <2>2. CASE ~On(c) /\ conn[c].who = u
    <3>1. c \in behind'
          BY <1>5, <2>2 DEF Of
    <3> QED BY <2>2, <3>1 DEF Matches, DisplaysOnly
  <2>3. CASE conn[c].who # u
    <3>1. c \in behind' <=> c \in behind
          BY <1>5, <2>3 DEF Of
    <3>2. state'[c] = state[c] /\ Matches(c) /\ DisplaysOnly(c)
          BY <1>3, <2>3 DEF AccInv
    <3> QED BY <1>1, <1>2, <2>3, <3>1, <3>2 DEF Matches, DisplaysOnly
  <2> QED BY <2>1, <2>2, <2>3
<1>9. ASSUME NEW v \in Users PROVE Curated(v)'
  <2>0. Of(v)' = Of(v)
        BY DEF Of
  <2>1. CASE v = u
    <3>1. \A c \in Of(u) \ behind' : On(c) /\ state'[c] = Effective(p)
          BY <1>3, <1>5 DEF Of
    <3> QED BY <1>1, <2>0, <2>1, <3>1, EffectiveFits DEF Curated
  <2>2. CASE v # u
    <3>1. \A c \in Of(v) : state'[c] = state[c] /\ (c \in behind' <=> c \in behind)
          BY <1>3, <1>5, <2>2 DEF Of
    <3>2. Curated(v)
          BY DEF AccInv
    <3> QED BY <1>1, <1>2, <2>0, <2>2, <3>1, <3>2 DEF Curated
  <2> QED BY <2>1, <2>2
<1> QED BY <1>7, <1>8, <1>9 DEF AccInv

\* One who acts as an admin and is not behind is an admin on file.
LEMMA ActsAsAdmin ==
  ASSUME AccInv, NEW c \in Conns, Acts(c)
  PROVE  /\ acted' \in BOOLEAN
         /\ acted' \/ /\ ~acted /\ conn[c].who \in Users
                      /\ Has(conn[c].who) /\ roster[conn[c].who].admin
BY DEF Acts, Admin, AccInv, AccTypeOK, Matches, DisplaysOnly

\* An admin who is left as one is there after the step.
LEMMA AdminStays ==
  ASSUME AccInv, NEW c \in Conns, Acts(c), NEW u \in Users, NEW p \in Profile,
         roster' = [roster EXCEPT ![u] = p],
         u = conn[c].who => p.admin
  PROVE  AnAdminRemains'
<1> SUFFICES ASSUME ~acted' PROVE \E v \in Users : Has(v)' /\ roster'[v].admin
    BY DEF AnAdminRemains
<1>1. /\ conn[c].who \in Users
      /\ Has(conn[c].who) /\ roster[conn[c].who].admin
      BY ActsAsAdmin
<1>2. roster'[conn[c].who] = IF conn[c].who = u THEN p ELSE roster[conn[c].who]
      BY <1>1 DEF AccInv, AccTypeOK
<1> QED BY <1>1, <1>2, ProfileIsSome DEF Has

\* A profile that is created where there was none: whoever still is connected under that
\* id is behind.
LEMMA CreatedKeeps ==
  ASSUME AccInv, NEW u \in Users, ~Has(u), NEW p \in Profile,
         p.admin <=> p.role = "admin", ~p.own,
         roster' = [roster EXCEPT ![u] = p], misled' = misled \ {u},
         acted' \in BOOLEAN,
         acted' \/ p.admin \/ (~acted /\ \E v \in Users : Has(v)),
         UNCHANGED <<panels, conn, state, saving, behind>>
  PROVE  AccInv'
<1>1. /\ roster' \in [Users -> Profile \cup {Nobody}]
      /\ roster'[u] = p /\ p # Nobody /\ \A v \in Users \ {u} : roster'[v] = roster[v]
      BY ProfileIsSome DEF AccInv, AccTypeOK
<1>2. AccTypeOK'
      BY <1>1 DEF AccInv, AccTypeOK, Has
<1>3. \A c \in Conns : conn[c].at # "none" /\ conn[c].who = u => c \in behind
      BY DEF AccInv, Matches
<1>4. ASSUME NEW c \in Conns PROVE Matches(c)' /\ DisplaysOnly(c)'
      BY <1>1, <1>3 DEF AccInv, Matches, DisplaysOnly, Has
<1>5. Of(u) \subseteq behind
      BY <1>3, AccountsAssumption DEF Of, AccInv, AccTypeOK
<1>6. ASSUME NEW v \in Users PROVE Curated(v)'
  <2>1. Of(v)' = Of(v)
        BY DEF Of
  <2> QED BY <1>1, <1>5, <2>1 DEF AccInv, Curated, Has
<1>7. AnAdminRemains'
      BY <1>1 DEF AccInv, AnAdminRemains, Has
<1> QED BY <1>2, <1>4, <1>6, <1>7 DEF AccInv

\* Closing the connections of an account or a panel.
LEMMA DisconnectedFits ==
  ASSUME AccTypeOK, NEW w, w # Absent, Disconnected(w)
  PROVE  /\ conn' \in [Conns -> [at : {"none", "accepting", "live", "closing"},
                                 who : Users \cup Panels \cup {Absent}]]
         /\ \A c \in Conns : /\ conn'[c].who = conn[c].who
                             /\ conn'[c].at = IF On(c) /\ conn[c].who = w THEN "closing" ELSE conn[c].at
BY DEF AccTypeOK, Disconnected

\* A new preference of somebody who stays the same otherwise.
LEMMA MergedFits ==
  ASSUME NEW p \in Profile, NEW what
  PROVE  /\ Merged(p, what) \in Profile
         /\ Merged(p, what).role = p.role /\ Merged(p, what).admin = p.admin
BY DEF Merged, Profile, Roles

\* A preference stored for an account, and in one connection of it.  Whoever is a kid by
\* now is misled, unless the connection is behind or the preference is no message.
LEMMA StoredKeeps ==
  ASSUME AccInv, NEW c \in Conns, conn[c].who \in Users, NEW u, u = conn[c].who,
         NEW s \in State, s.role = state[c].role, s.admin = state[c].admin,
         state' = [state EXCEPT ![c] = s],
         \/ ~Has(u) /\ UNCHANGED roster
         \/ /\ Has(u)
            /\ \E p \in Profile : /\ roster' = [roster EXCEPT ![u] = p]
                                  /\ p.role = roster[u].role /\ p.admin = roster[u].admin
                                  /\ p.own # roster[u].own /\ p.role = "kid" => u \in misled',
         misled \subseteq misled', misled' \subseteq Users,
         Has(u) /\ roster[u].role = "kid" => c \in behind \/ u \in misled',
         \A d \in Conns : saving'[d] \in {saving[d], {}},
         saving' \in [Conns -> SUBSET {"own", "loose"}],
         UNCHANGED <<panels, conn, behind, acted>>
  PROVE  AccInv'
<1>1. /\ roster' \in [Users -> Profile \cup {Nobody}]
      /\ \A v \in Users : /\ Has(v)' <=> Has(v)
                          /\ Has(v) => roster'[v].role = roster[v].role
                                       /\ roster'[v].admin = roster[v].admin
      BY ProfileIsSome, SMTT(60) DEF AccInv, AccTypeOK, Has
<1>2. \A v \in Users : Has(v) /\ roster[v].role = "kid" /\ v \notin misled' => roster'[v].own = roster[v].own
      BY DEF AccInv, AccTypeOK, Has
<1>3. /\ state' \in [Conns -> State] /\ state'[c] = s
      /\ \A d \in Conns \ {c} : state'[d] = state[d]
      BY DEF AccInv, AccTypeOK
<1>4. AccTypeOK'
      BY <1>1, <1>3 DEF AccInv, AccTypeOK
<1>5. ASSUME NEW d \in Conns PROVE Matches(d)'
      BY <1>1, <1>3 DEF AccInv, Matches
<1>6. ASSUME NEW d \in Conns PROVE DisplaysOnly(d)'
      BY <1>3 DEF AccInv, DisplaysOnly
<1>7. ASSUME NEW v \in Users PROVE Curated(v)'
  <2>1. SUFFICES ASSUME Has(v), roster[v].role = "kid", v \notin misled'
                 PROVE  /\ ~roster'[v].own
                        /\ \A d \in Of(v) \ behind : ~state'[d].own /\ ~state'[d].loose
        BY <1>1 DEF Curated, Of
  <2>2. Curated(v) /\ v \notin misled
        BY <2>1 DEF AccInv
  <2>3. ASSUME NEW d \in Of(v) \ behind PROVE ~state'[d].own /\ ~state'[d].loose
    <3>1. d # c
          BY <2>1, <2>3 DEF Of
    <3> QED BY <1>3, <2>1, <2>2, <3>1 DEF Curated, Of
  <2> QED BY <1>2, <2>1, <2>2, <2>3 DEF Curated
<1>8. AnAdminRemains'
      BY <1>1, SMTT(60) DEF AccInv, AnAdminRemains
<1> QED BY <1>4, <1>5, <1>6, <1>7, <1>8 DEF AccInv

\* The end of a suspended save.
LEMMA AccFinishKeeps ==
  ASSUME AccInv, NEW c \in Conns, FinishSave(c)
  PROVE  AccInv'
<1> DEFINE u == conn[c].who
           s == Merged(state[c], saving[c])
           p == Merged(roster[u], saving[c])
<1>1. /\ saving[c] # {} /\ saving' = [saving EXCEPT ![c] = {}]
      /\ state' = [state EXCEPT ![c] = s]
      /\ IF Has(u) THEN roster' = [roster EXCEPT ![u] = p] ELSE UNCHANGED roster
      /\ misled' = IF Has(u) /\ roster[u].role = "kid" THEN misled \cup {u} ELSE misled
      /\ UNCHANGED <<panels, conn, behind, acted>>
      BY DEF FinishSave, AccInv, AccTypeOK
<1>2. u \in Users
      BY <1>1 DEF AccInv, DisplaysOnly
<1>3. s \in State /\ s.role = state[c].role /\ s.admin = state[c].admin
  <2>1. state[c] \in State
        BY DEF AccInv, AccTypeOK
  <2> QED BY <2>1 DEF Merged, State
<1>4. Has(u) => p \in Profile /\ p.role = roster[u].role /\ p.admin = roster[u].admin
      BY <1>2, HasProfile, MergedFits DEF AccInv
<1>5. misled \subseteq misled' /\ misled' \subseteq Users
      BY <1>1, <1>2 DEF AccInv, AccTypeOK
<1>6. /\ saving' \in [Conns -> SUBSET {"own", "loose"}]
      /\ \A d \in Conns : saving'[d] \in {saving[d], {}}
      BY <1>1 DEF AccInv, AccTypeOK
<1>7. Has(u) /\ roster[u].role = "kid" => u \in misled'
      BY <1>1
<1> HIDE DEF u, s, p
<1>8. \/ ~Has(u) /\ UNCHANGED roster
      \/ /\ Has(u)
         /\ \E q \in Profile : /\ roster' = [roster EXCEPT ![u] = q]
                               /\ q.role = roster[u].role /\ q.admin = roster[u].admin
                               /\ q.own # roster[u].own /\ q.role = "kid" => u \in misled'
      BY <1>1, <1>4, <1>7
<1> QED BY <1>1, <1>2, <1>3, <1>5, <1>6, <1>7, <1>8, StoredKeeps DEF u

\* set_listen_only, which a kid's connection may not send.
LEMMA ListenOnlyKeeps ==
  ASSUME AccInv, NEW c \in Conns, NEW l \in BOOLEAN, SetListenOnly(c, l)
  PROVE  AccInv'
<1> DEFINE u == conn[c].who
           s == [state[c] EXCEPT !.loose = l]
           p == [roster[u] EXCEPT !.loose = l]
<1>1. /\ conn[c].at = "live" /\ state[c].role \notin {"kid", "display"}
      /\ state' = [state EXCEPT ![c] = s]
      /\ IF Has(u) THEN roster' = [roster EXCEPT ![u] = p] ELSE UNCHANGED roster
      /\ UNCHANGED <<panels, conn, saving, behind, misled, acted>>
      BY DEF SetListenOnly, history, AccInv, AccTypeOK, Has
<1>2. u \in Users
      BY <1>1 DEF AccInv, DisplaysOnly
<1>3. s \in State /\ s.role = state[c].role /\ s.admin = state[c].admin
  <2>1. state[c] \in State
        BY DEF AccInv, AccTypeOK
  <2> QED BY <2>1 DEF State
<1>4. Has(u) => p \in Profile /\ p.role = roster[u].role /\ p.admin = roster[u].admin
               /\ p.own = roster[u].own
  <2>1. Has(u) => roster[u] \in Profile
        BY <1>2, HasProfile DEF AccInv
  <2> QED BY <2>1 DEF Profile
<1>5. misled \subseteq misled' /\ misled' \subseteq Users
      BY <1>1 DEF AccInv, AccTypeOK
<1>6. /\ saving' \in [Conns -> SUBSET {"own", "loose"}]
      /\ \A d \in Conns : saving'[d] \in {saving[d], {}}
      BY <1>1 DEF AccInv, AccTypeOK
<1>7. Has(u) /\ roster[u].role = "kid" => c \in behind
      BY <1>1, <1>2 DEF AccInv, Matches
<1> HIDE DEF u, s, p
<1>8. \/ ~Has(u) /\ UNCHANGED roster
      \/ /\ Has(u)
         /\ \E q \in Profile : /\ roster' = [roster EXCEPT ![u] = q]
                               /\ q.role = roster[u].role /\ q.admin = roster[u].admin
                               /\ q.own # roster[u].own /\ q.role = "kid" => u \in misled'
      BY <1>1, <1>4
<1> QED BY <1>1, <1>2, <1>3, <1>5, <1>6, <1>7, <1>8, StoredKeeps DEF u

\* Steps that leave the store alone, and of the connections only c.
LEMMA OneConnection ==
  ASSUME AccInv, NEW c \in Conns,
         UNCHANGED <<stores, misled, acted>>,
         AccTypeOK', Matches(c)', DisplaysOnly(c)',
         behind' \in {behind, behind \ {c}},
         conn'[c].who \in Users /\ c \notin behind' /\ Has(conn'[c].who)
           /\ roster[conn'[c].who].role = "kid" /\ conn'[c].who \notin misled
           => ~state'[c].own /\ ~state'[c].loose,
         \A d \in Conns \ {c} : conn'[d] = conn[d] /\ state'[d] = state[d] /\ saving'[d] = saving[d]
  PROVE  AccInv'
<1>1. \A d \in Conns : Matches(d)' /\ DisplaysOnly(d)'
      BY DEF AccInv, Matches, DisplaysOnly, stores, Has
<1>2. ASSUME NEW u \in Users PROVE Curated(u)'
  <2>1. Curated(u)
        BY DEF AccInv
  <2>2. ASSUME NEW d \in Of(u)' \ behind', Has(u), roster[u].role = "kid", u \notin misled
        PROVE  ~state'[d].own /\ ~state'[d].loose
    <3>1. d \in Conns /\ conn'[d].who = u
          BY DEF Of
    <3>2. CASE d = c
          BY <2>2, <3>1, <3>2
    <3>3. CASE d # c
      <4>1. d \in Of(u) \ behind
            BY <2>2, <3>1, <3>3 DEF Of
      <4> QED BY <2>1, <2>2, <3>1, <3>3, <4>1 DEF Curated
    <3> QED BY <3>2, <3>3
  <2>3. UNCHANGED <<roster, misled>>
        BY DEF stores
  <2> QED BY <2>1, <2>2, <2>3 DEF Curated, Has
<1>3. AnAdminRemains'
      BY DEF AccInv, AnAdminRemains, stores, Has
<1> QED BY <1>1, <1>2, <1>3 DEF AccInv

\* What an admin does.
LEMMA AdminKeeps ==
  ASSUME AccInv, NEW c \in Conns, Administer(c)
  PROVE  AccInv'
<1>1. ASSUME NEW u \in Users, NEW r \in Roles, SetRole(c, u, r) PROVE AccInv'
  <2> DEFINE p == Demoted(roster[u], r)
  <2>1. roster[u] \in Profile
        BY <1>1, HasProfile DEF SetRole, AccInv
  <2>2. p \in Profile /\ p.role = r /\ (p.admin <=> r = "admin")
        /\ (r = "kid" => (p.own => roster[u].own /\ roster[u].role = "kid"))
        BY <2>1 DEF Demoted, Profile, Roles
  <2>3. roster' = [roster EXCEPT ![u] = p] /\ Has(u) /\ Synced(u) /\ Told(u) /\ Acts(c)
        /\ UNCHANGED <<panels, conn, saving>> /\ (u = conn[c].who => r = "admin")
        BY <1>1 DEF SetRole
  <2>4. misled' \in {misled, misled \ {u}} /\ (r = "kid" /\ roster[u].role = "kid" => misled' = misled)
        BY <1>1 DEF SetRole
  <2>5. Curated(u)
        BY DEF AccInv
  <2>6. r = "kid" /\ u \notin misled' => ~p.own
        BY <2>2, <2>3, <2>4, <2>5 DEF Curated
  <2> HIDE DEF p
  <2>7. AnAdminRemains'
        BY <2>2, <2>3, AdminStays
  <2>8. misled' \subseteq Users /\ misled \ {u} \subseteq misled'
        BY <2>4 DEF AccInv, AccTypeOK
  <2>9. acted' \in BOOLEAN
        BY <2>3, ActsAsAdmin
  <2> QED BY <2>2, <2>3, <2>6, <2>7, <2>8, <2>9, SyncKeeps
<1>2. ASSUME NEW u \in Users, NEW a \in BOOLEAN, SetAdmin(c, u, a) PROVE AccInv'
  <2> DEFINE p == [roster[u] EXCEPT !.admin = a,
                     !.role = IF a THEN "admin" ELSE IF @ = "admin" THEN "adult" ELSE @]
  <2>1. roster[u] \in Profile
        BY <1>2, HasProfile DEF SetAdmin, AccInv
  <2>2. p \in Profile /\ p.admin = a /\ (p.admin <=> p.role = "admin")
        /\ (p.role = "kid" => roster[u].role = "kid" /\ p.own = roster[u].own)
        BY <2>1 DEF Profile, Roles
  <2>3. roster' = [roster EXCEPT ![u] = p]
        BY <1>2 DEF SetAdmin, AccInv, AccTypeOK
  <2>4. Has(u) /\ Synced(u) /\ Told(u) /\ Acts(c) /\ (u = conn[c].who => a)
        /\ UNCHANGED <<panels, conn, saving, misled>>
        BY <1>2 DEF SetAdmin
  <2>5. p.role = "kid" /\ u \notin misled' => ~p.own
        BY <2>2, <2>4 DEF AccInv, Curated
  <2> HIDE DEF p
  <2>6. AnAdminRemains'
        BY <2>2, <2>3, <2>4, AdminStays
  <2>7. acted' \in BOOLEAN /\ misled' \subseteq Users
        BY <2>4, ActsAsAdmin DEF AccInv, AccTypeOK
  <2> QED BY <2>2, <2>3, <2>4, <2>5, <2>6, <2>7, SyncKeeps
<1>3. ASSUME NEW u \in Users, GiveMessages(c, u) PROVE AccInv'
  <2> DEFINE p == [roster[u] EXCEPT !.own = FALSE]
  <2>1. roster[u] \in Profile /\ (roster[u].admin <=> roster[u].role = "admin")
        BY <1>3, HasProfile DEF GiveMessages, AccInv
  <2>2. p \in Profile /\ p.admin = roster[u].admin /\ p.role = roster[u].role /\ ~p.own
        BY <2>1 DEF Profile
  <2>3. roster' = [roster EXCEPT ![u] = p]
        BY <1>3 DEF GiveMessages, AccInv, AccTypeOK
  <2>4. Has(u) /\ Synced(u) /\ Told(u) /\ Acts(c) /\ misled' = misled \ {u}
        /\ UNCHANGED <<panels, conn, saving>>
        BY <1>3 DEF GiveMessages
  <2> HIDE DEF p
  <2>6. AnAdminRemains'
    <3>1. CASE u = conn[c].who
      <4>1. acted' \/ p.admin
            BY <2>2, <2>4, <3>1, ActsAsAdmin
      <4>2. CASE p.admin
            BY <2>2, <2>3, <2>4, <4>2, AdminStays
      <4> QED BY <4>1, <4>2 DEF AnAdminRemains
    <3>2. CASE u # conn[c].who
          BY <2>2, <2>3, <2>4, <3>2, AdminStays
    <3> QED BY <3>1, <3>2
  <2>7. acted' \in BOOLEAN /\ misled' \subseteq Users
        BY <2>4, ActsAsAdmin DEF AccInv, AccTypeOK
  <2> QED BY <2>1, <2>2, <2>3, <2>4, <2>6, <2>7, SyncKeeps
<1>4. ASSUME NEW u \in Users, SetCoordinator(c, u) PROVE AccInv'
  <2>0. PICK l \in BOOLEAN : roster' = [roster EXCEPT ![u].loose = l]
        BY <1>4 DEF SetCoordinator
  <2> DEFINE p == [roster[u] EXCEPT !.loose = l]
  <2>1. roster[u] \in Profile /\ (roster[u].admin <=> roster[u].role = "admin")
        BY <1>4, HasProfile DEF SetCoordinator, AccInv
  <2>2. p \in Profile /\ p.admin = roster[u].admin /\ p.role = roster[u].role
        BY <2>1 DEF Profile
  <2>3. roster' = [roster EXCEPT ![u] = p]
        BY <2>0 DEF AccInv, AccTypeOK
  <2>4. Has(u) /\ Synced(u) /\ Told(u) /\ Acts(c) /\ roster[u].role # "kid"
        /\ UNCHANGED <<panels, conn, saving, misled>>
        BY <1>4 DEF SetCoordinator
  <2> HIDE DEF p
  <2>6. AnAdminRemains'
    <3>1. CASE u = conn[c].who
      <4>1. acted' \/ p.admin
            BY <2>2, <2>4, <3>1, ActsAsAdmin
      <4>2. CASE p.admin
            BY <2>2, <2>3, <2>4, <4>2, AdminStays
      <4> QED BY <4>1, <4>2 DEF AnAdminRemains
    <3>2. CASE u # conn[c].who
          BY <2>2, <2>3, <2>4, <3>2, AdminStays
    <3> QED BY <3>1, <3>2
  <2>7. acted' \in BOOLEAN /\ misled' \subseteq Users
        BY <2>4, ActsAsAdmin DEF AccInv, AccTypeOK
  <2> QED BY <2>1, <2>2, <2>3, <2>4, <2>6, <2>7, SyncKeeps
<1>5. ASSUME NEW u \in Users, NEW r \in Roles, CreateProfile(c, u, r) PROVE AccInv'
  <2>1. Acts(c) /\ ~Has(u) /\ roster' = [roster EXCEPT ![u] = New(r)] /\ misled' = misled \ {u}
        /\ UNCHANGED <<panels, sockets, behind>>
        BY <1>5 DEF CreateProfile
  <2>2. New(r) \in Profile /\ (New(r).admin <=> New(r).role = "admin") /\ ~New(r).own
        BY DEF New, Profile
  <2>3. acted' \in BOOLEAN /\ (acted' \/ (~acted /\ conn[c].who \in Users /\ Has(conn[c].who)))
        BY <2>1, ActsAsAdmin
  <2>4. acted' \/ (~acted /\ \E v \in Users : Has(v))
        BY <2>3
  <2> QED BY <2>1, <2>2, <2>3, <2>4, CreatedKeeps DEF sockets
<1>6. ASSUME NEW u \in Users, DeleteProfile(c, u) PROVE AccInv'
  <2>1. /\ Acts(c) /\ Has(u) /\ u # conn[c].who
        /\ roster' = [roster EXCEPT ![u] = Nobody]
        /\ behind' = behind \cup Of(u)
        /\ UNCHANGED <<panels, conn, state, saving, misled>>
        BY <1>6 DEF DeleteProfile, sockets
  <2>2. /\ roster' \in [Users -> Profile \cup {Nobody}]
        /\ ~Has(u)' /\ \A v \in Users \ {u} : roster'[v] = roster[v]
        BY <2>1 DEF AccInv, AccTypeOK, Has
  <2>3. acted' \in BOOLEAN
        BY <2>1, ActsAsAdmin
  <2>4. behind' \subseteq Conns
        BY <2>1 DEF AccInv, AccTypeOK, Of
  <2>5. AccTypeOK'
        BY <2>1, <2>2, <2>3, <2>4 DEF AccInv, AccTypeOK, Has
  <2>6. ASSUME NEW d \in Conns PROVE Matches(d)' /\ DisplaysOnly(d)'
        BY <2>1, <2>2, AccountsAssumption DEF AccInv, Matches, DisplaysOnly, Of, Has
  <2>7. ASSUME NEW v \in Users PROVE Curated(v)'
        BY <2>1, <2>2 DEF AccInv, Curated, Of, Has
  <2>8. AnAdminRemains'
    <3>1. CASE acted'
          BY <3>1 DEF AnAdminRemains
    <3>2. CASE ~acted'
      <4>1. conn[c].who \in Users /\ Has(conn[c].who) /\ roster[conn[c].who].admin
            BY <2>1, <3>2, ActsAsAdmin
      <4> QED BY <2>1, <2>2, <4>1 DEF AnAdminRemains, Has
    <3> QED BY <3>1, <3>2
  <2> QED BY <2>5, <2>6, <2>7, <2>8 DEF AccInv
<1>7. ASSUME NEW p \in Panels, CreatePanel(c, p) PROVE AccInv'
  <2>1. /\ Acts(c) /\ panels' = panels \cup {p}
        /\ UNCHANGED <<roster, conn, state, saving, behind, misled>>
        BY <1>7 DEF CreatePanel, sockets
  <2>2. acted' \in BOOLEAN /\ (acted' \/ ~acted)
        BY <2>1, ActsAsAdmin
  <2>3. AccTypeOK'
        BY <2>1, <2>2 DEF AccInv, AccTypeOK, Has
  <2>4. \A d \in Conns : Matches(d)' /\ DisplaysOnly(d)'
        BY <2>1 DEF AccInv, Matches, DisplaysOnly, Has
  <2>5. (\A v \in Users : Curated(v)') /\ AnAdminRemains'
        BY <2>1, <2>2 DEF AccInv, Curated, Of, Has, AnAdminRemains
  <2> QED BY <2>3, <2>4, <2>5 DEF AccInv
<1>8. ASSUME NEW p \in Panels, RevokePanel(c, p) PROVE AccInv'
  <2>1. /\ Acts(c) /\ panels' = panels \ {p} /\ Disconnected(p)
        /\ behind' = behind \cup {d \in Of(p) : ~On(d)}
        /\ UNCHANGED <<roster, state, saving, misled>>
        BY <1>8 DEF RevokePanel
  <2>2. acted' \in BOOLEAN /\ (acted' \/ ~acted)
        BY <2>1, ActsAsAdmin
  <2>3. AccTypeOK' /\ \A d \in Conns : conn'[d].who = conn[d].who
    <3>1. p # Absent
          BY AccountsAssumption
    <3>2. /\ conn' \in [Conns -> [at : {"none", "accepting", "live", "closing"},
                                  who : Users \cup Panels \cup {Absent}]]
          /\ \A d \in Conns : /\ conn'[d].who = conn[d].who
                              /\ conn'[d].at = "none" <=> conn[d].at = "none"
          BY <2>1, <3>1, DisconnectedFits DEF AccInv, On
    <3> QED BY <2>1, <2>2, <3>2 DEF AccInv, AccTypeOK, Has, Of
  <2>4. ASSUME NEW d \in Conns PROVE Matches(d)' /\ DisplaysOnly(d)'
    <3>1. CASE conn[d].who = p
          BY <2>1, <2>3, <3>1, AccountsAssumption DEF AccInv, AccTypeOK, Matches, DisplaysOnly, Of, On, Has, Disconnected
    <3>2. CASE conn[d].who # p
          BY <2>1, <2>3, <3>2 DEF AccInv, AccTypeOK, Matches, DisplaysOnly, Of, On, Has, Disconnected
    <3> QED BY <3>1, <3>2
  <2>5. ASSUME NEW v \in Users PROVE Curated(v)'
    <3>1. Of(v)' = Of(v)
          BY <2>3 DEF Of
    <3> QED BY <2>1, <3>1 DEF AccInv, Curated, Has
  <2>6. AnAdminRemains'
        BY <2>1, <2>2 DEF AccInv, Has, AnAdminRemains
  <2> QED BY <2>3, <2>4, <2>5, <2>6 DEF AccInv
<1> QED BY <1>1, <1>2, <1>3, <1>4, <1>5, <1>6, <1>7, <1>8 DEF Administer

\* What a connection does.
LEMMA AccConnectionKeeps ==
  ASSUME AccInv, NEW c \in Conns, Connection(c)
  PROVE  AccInv'
<1>1. ASSUME NEW u \in Users, Open(c, u) PROVE AccInv'
  <2>1. /\ conn[c].at = "none" /\ Has(u)
        /\ conn' = [conn EXCEPT ![c] = [at |-> "accepting", who |-> u]]
        /\ state' = [state EXCEPT ![c] = Effective(roster[u])]
        /\ UNCHANGED <<roster, panels, saving, behind, misled, acted>>
        BY <1>1 DEF Open, stores, history
  <2>2. roster[u] \in Profile
        BY <2>1, HasProfile DEF AccInv
  <2>3. conn'[c] = [at |-> "accepting", who |-> u] /\ state'[c] = Effective(roster[u])
        BY <2>1 DEF AccInv, AccTypeOK
  <2>4. AccTypeOK'
        BY <2>1, <2>2, EffectiveFits, AccountsAssumption DEF AccInv, AccTypeOK, Has
  <2>5. Matches(c)' /\ DisplaysOnly(c)'
        BY <2>1, <2>2, <2>3, EffectiveFits, AccountsAssumption DEF Matches, DisplaysOnly, Has
  <2>6. roster[u].role = "kid" /\ u \notin misled => ~state'[c].own /\ ~state'[c].loose
        BY <2>1, <2>2, <2>3, EffectiveFits DEF AccInv, Curated
  <2>7. \A d \in Conns \ {c} : conn'[d] = conn[d] /\ state'[d] = state[d] /\ saving'[d] = saving[d]
        BY <2>1 DEF AccInv, AccTypeOK
  <2> QED BY <2>1, <2>3, <2>4, <2>5, <2>6, <2>7, OneConnection DEF stores
<1>2. ASSUME NEW p \in Panels, OpenDisplay(c, p) PROVE AccInv'
  <2>1. /\ conn[c].at = "none" /\ p \in panels
        /\ conn' = [conn EXCEPT ![c] = [at |-> "accepting", who |-> p]]
        /\ state' = [state EXCEPT ![c] = Display]
        /\ UNCHANGED <<roster, panels, saving, behind, misled, acted>>
        BY <1>2 DEF OpenDisplay, stores, history
  <2>2. /\ conn'[c] = [at |-> "accepting", who |-> p] /\ state'[c] = Display
        /\ saving[c] = {} /\ p \notin Users /\ p # Absent
        BY <2>1, AccountsAssumption DEF AccInv, AccTypeOK, DisplaysOnly
  <2>3. AccTypeOK'
        BY <2>1, <2>2 DEF AccInv, AccTypeOK, Has, Display, State
  <2>4. Matches(c)' /\ DisplaysOnly(c)'
    <3>1. /\ conn'[c].who = p /\ state'[c].role = "display" /\ p \in panels'
          /\ state'[c].admin = FALSE /\ saving'[c] = {}
          BY <2>1, <2>2 DEF Display
    <3> QED BY <2>2, <3>1 DEF Matches, DisplaysOnly
  <2>5. \A d \in Conns \ {c} : conn'[d] = conn[d] /\ state'[d] = state[d] /\ saving'[d] = saving[d]
        BY <2>1 DEF AccInv, AccTypeOK
  <2> QED BY <2>1, <2>2, <2>3, <2>4, <2>5, OneConnection DEF stores
<1>3. CASE Accept(c)
  <2>1. /\ conn[c].at = "accepting" /\ conn' = [conn EXCEPT ![c].at = "live"]
        /\ UNCHANGED <<roster, panels, state, saving, behind, misled, acted>>
        BY <1>3 DEF Accept, stores, history
  <2>2. conn'[c].at = "live" /\ conn'[c].who = conn[c].who
        BY <2>1 DEF AccInv, AccTypeOK
  <2>3. AccTypeOK'
        BY <2>1, <2>2 DEF AccInv, AccTypeOK, Has
  <2>4. Matches(c)' /\ DisplaysOnly(c)'
        BY <2>1, <2>2 DEF AccInv, Matches, DisplaysOnly, Has
  <2>5. \A d \in Conns \ {c} : conn'[d] = conn[d] /\ state'[d] = state[d] /\ saving'[d] = saving[d]
        BY <2>1 DEF AccInv, AccTypeOK
  <2>6. ASSUME conn[c].who \in Users, c \notin behind, Has(conn[c].who),
               roster[conn[c].who].role = "kid", conn[c].who \notin misled
        PROVE  ~state[c].own /\ ~state[c].loose
        BY <2>6 DEF AccInv, Curated, Of
  <2> QED BY <2>1, <2>2, <2>3, <2>4, <2>5, <2>6, OneConnection DEF stores
<1>4. CASE Close(c)
  <2>1. /\ saving[c] = {}
        /\ conn' = [conn EXCEPT ![c] = NoConn] /\ state' = [state EXCEPT ![c] = Display]
        /\ behind' = behind \ {c}
        /\ UNCHANGED <<roster, panels, saving, misled, acted>>
        BY <1>4 DEF Close, stores
  <2>2. conn'[c] = NoConn /\ state'[c] = Display /\ NoConn.who \notin Users
        BY <2>1, AccountsAssumption DEF AccInv, AccTypeOK, NoConn
  <2>3. AccTypeOK'
        BY <2>1, <2>2 DEF AccInv, AccTypeOK, Has, NoConn, Display, State
  <2>4. Matches(c)' /\ DisplaysOnly(c)'
    <3>1. /\ conn'[c].at = "none" /\ state'[c].role = "display"
          /\ state'[c].admin = FALSE /\ saving'[c] = {}
          BY <2>1, <2>2 DEF NoConn, Display
    <3> QED BY <3>1 DEF Matches, DisplaysOnly
  <2>5. \A d \in Conns \ {c} : conn'[d] = conn[d] /\ state'[d] = state[d] /\ saving'[d] = saving[d]
        BY <2>1 DEF AccInv, AccTypeOK
  <2> QED BY <2>1, <2>2, <2>3, <2>4, <2>5, OneConnection DEF stores
<1>5. CASE EditOwn(c)
  <2> DEFINE u == conn[c].who
  <2>1. /\ u \in Users /\ Has(u) /\ roster' = roster /\ Synced(u) /\ Told(u)
        /\ UNCHANGED <<panels, conn, saving, misled, acted>>
        BY <1>5 DEF EditOwn
  <2>2. roster[u] \in Profile /\ (roster[u].admin <=> roster[u].role = "admin")
        BY <2>1, HasProfile DEF AccInv
  <2>3. roster' = [roster EXCEPT ![u] = roster[u]]
        BY <2>1 DEF AccInv, AccTypeOK
  <2>4. roster[u].role = "kid" /\ u \notin misled' => ~roster[u].own
        BY <2>1 DEF AccInv, Curated
  <2>5. AnAdminRemains'
        BY <2>1 DEF AccInv, AnAdminRemains, Has
  <2>6. misled' \subseteq Users /\ acted' \in BOOLEAN
        BY <2>1 DEF AccInv, AccTypeOK
  <2> HIDE DEF u
  <2> QED BY <2>1, <2>2, <2>3, <2>4, <2>5, <2>6, SyncKeeps
<1>6. CASE FinishSave(c)
      BY <1>6, AccFinishKeeps
<1>7. ASSUME NEW what \in Saves, BeginSave(c, what) PROVE AccInv'
  <2>1. /\ conn[c].at = "live" /\ state[c].role # "display"
        /\ saving' = [saving EXCEPT ![c] = what]
        /\ UNCHANGED <<roster, panels, conn, state, behind, misled, acted>>
        BY <1>7 DEF BeginSave, stores, history
  <2>2. what \subseteq {"own", "loose"}
        BY AccountsAssumption
  <2>3. AccTypeOK'
        BY <2>1, <2>2 DEF AccInv, AccTypeOK, Has
  <2>4. \A d \in Conns : Matches(d)'
        BY <2>1 DEF AccInv, Matches, Has
  <2>5. \A d \in Conns : DisplaysOnly(d)'
        BY <2>1 DEF AccInv, AccTypeOK, DisplaysOnly
  <2>6. (\A v \in Users : Curated(v)') /\ AnAdminRemains'
        BY <2>1 DEF AccInv, Curated, Of, Has, AnAdminRemains
  <2> QED BY <2>3, <2>4, <2>5, <2>6 DEF AccInv
<1>8. ASSUME NEW l \in BOOLEAN, SetListenOnly(c, l) PROVE AccInv'
      BY <1>8, ListenOnlyKeeps
<1> QED BY <1>1, <1>2, <1>3, <1>4, <1>5, <1>6, <1>7, <1>8 DEF Connection

\* Every step keeps the invariant.
LEMMA NextInv == AccInv /\ [AccNext]_accVars => AccInv'
<1> SUFFICES ASSUME AccInv, [AccNext]_accVars PROVE AccInv'
    OBVIOUS
<1>1. ASSUME NEW c \in Conns, Administer(c) PROVE AccInv'
      BY <1>1, AdminKeeps
<1>2. ASSUME NEW c \in Conns, Connection(c) PROVE AccInv'
      BY <1>2, AccConnectionKeeps
<1>3. ASSUME NEW u \in Users, Setup(u) PROVE AccInv'
  <2>1. /\ ~Has(u) /\ roster' = [roster EXCEPT ![u] = New("admin")]
        /\ misled' = misled \ {u} /\ acted' = FALSE
        /\ UNCHANGED <<panels, conn, state, saving, behind>>
        BY <1>3 DEF Setup, sockets
  <2>2. New("admin") \in Profile /\ New("admin").admin /\ New("admin").role = "admin"
        /\ ~New("admin").own
        BY DEF New, Profile, Roles
  <2>3. New("admin").admin <=> New("admin").role = "admin"
        BY <2>2
  <2>4. acted' \in BOOLEAN
        BY <2>1
  <2> QED BY <2>1, <2>2, <2>3, <2>4, CreatedKeeps
<1>4. ASSUME NEW u \in Users, RevokeUser(u) PROVE AccInv'
  <2>1. Disconnected(u) /\ UNCHANGED <<roster, panels, state, saving, behind, misled, acted>>
        BY <1>4 DEF RevokeUser, stores, history
  <2>2. u # Absent
        BY AccountsAssumption
  <2>3. /\ conn' \in [Conns -> [at : {"none", "accepting", "live", "closing"},
                                who : Users \cup Panels \cup {Absent}]]
        /\ \A d \in Conns : /\ conn'[d].who = conn[d].who
                            /\ conn'[d].at = "none" <=> conn[d].at = "none"
                            /\ conn[d].at = "closing" => conn'[d].at = "closing"
        BY <2>1, <2>2, DisconnectedFits DEF AccInv, On
  <2>4. AccTypeOK'
        BY <2>1, <2>3 DEF AccInv, AccTypeOK, Has
  <2>5. \A d \in Conns : Matches(d)' /\ DisplaysOnly(d)'
        BY <2>1, <2>3 DEF AccInv, Matches, DisplaysOnly, Has
  <2>6. (\A v \in Users : Curated(v)') /\ AnAdminRemains'
        BY <2>1, <2>3 DEF AccInv, Curated, Of, Has, AnAdminRemains
  <2> QED BY <2>4, <2>5, <2>6 DEF AccInv
<1>5. CASE RestartServer
  <2>1. /\ conn' = [c \in Conns |-> NoConn] /\ state' = [c \in Conns |-> Display]
        /\ saving' = [c \in Conns |-> {}] /\ behind' = {}
        /\ UNCHANGED <<roster, panels, misled, acted>>
        BY <1>5 DEF RestartServer
  <2>2. AccTypeOK'
        BY <2>1 DEF AccInv, AccTypeOK, Has, NoConn, Display, State
  <2>3. \A d \in Conns : Matches(d)' /\ DisplaysOnly(d)'
        BY <2>1 DEF Matches, DisplaysOnly, NoConn, Display
  <2>4. (\A v \in Users : Curated(v)') /\ AnAdminRemains'
        BY <2>1 DEF AccInv, Curated, Of, Has, AnAdminRemains, Display
  <2> QED BY <2>2, <2>3, <2>4 DEF AccInv
<1>6. CASE UNCHANGED accVars
  <2>1. UNCHANGED <<roster, panels, conn, state, saving, behind, misled, acted>>
        BY <1>6 DEF accVars, stores, sockets, history
  <2> QED BY <2>1 DEF AccInv, AccTypeOK, Matches, DisplaysOnly, Curated, Of, Has, AnAdminRemains
<1> QED BY <1>1, <1>2, <1>3, <1>4, <1>5, <1>6 DEF AccNext

\* The roster, the connections and their copies keep their types, and role admin goes with
\* is_admin (the comment of ROLES).
THEOREM AccountsTyped == AccSpec => []AccTypeOK
<1>1. AccSpec => []AccInv
      BY InitInv, NextInv, PTL DEF AccSpec
<1>2. AccInv => AccTypeOK
      BY DEF AccInv
<1> QED BY <1>1, <1>2, PTL

\* What a connection may do is what its account may do, but for those that missed a change
\* (_sync_live_state_for_user, set_role).
THEOREM ConnectionsHoldRoles == AccSpec => []RolesHold
<1>1. AccSpec => []AccInv
      BY InitInv, NextInv, PTL DEF AccSpec
<1> QED BY <1>1, InvSuffices, PTL

\* An admin remains, unless a connection acted that missed a change (set_role,
\* update_profile, delete_profile).
THEOREM AdminsRemain == AccSpec => []AnAdminRemains
<1>1. AccSpec => []AccInv
      BY InitInv, NextInv, PTL DEF AccSpec
<1> QED BY <1>1, InvSuffices, PTL

-----------------------------------------------------------------------------
(* The hub. *)

LEMMA EmptyLog == \A S : <<>> \in Seq(S) /\ IsInjective(<<>>) /\ ToSet(<<>>) = {}
BY DEF IsInjective, ToSet

\* A log that shows each message once goes on doing so with another message.
LEMMA LogAppend ==
  ASSUME NEW S, NEW log \in Seq(S), NEW m \in S
  PROVE  /\ Append(log, m) \in Seq(S)
         /\ ToSet(Append(log, m)) = ToSet(log) \cup {m}
         /\ IsInjective(log) /\ m \notin ToSet(log) => IsInjective(Append(log, m))
<1> DEFINE n == Len(log)
           t == Append(log, m)
<1>1. /\ n \in Nat /\ t \in Seq(S) /\ Len(t) = n + 1 /\ DOMAIN log = 1..n /\ DOMAIN t = 1..(n + 1)
      /\ t[n + 1] = m /\ \A i \in 1..n : t[i] = log[i]
      OBVIOUS
<1> HIDE DEF n, t
<1>2. \A i \in 1..(n + 1) : i \in 1..n \/ i = n + 1
      BY <1>1
<1>3. n + 1 \in 1..(n + 1) /\ \A i \in 1..n : i \in 1..(n + 1)
      BY <1>1
<1>4. m \notin ToSet(log) => \A i \in 1..n : log[i] # m
      BY <1>1 DEF ToSet
<1>5. IsInjective(log) /\ m \notin ToSet(log) => IsInjective(t)
      BY <1>1, <1>2, <1>4 DEF IsInjective
<1>6. ToSet(t) = ToSet(log) \cup {m}
  <2>1. ToSet(t) = {t[j] : j \in 1..(n + 1)} /\ ToSet(log) = {log[k] : k \in 1..n}
        BY <1>1 DEF ToSet
  <2>2. ASSUME NEW x \in ToSet(t) PROVE x \in ToSet(log) \cup {m}
        BY <1>1, <1>2, <2>1
  <2>3. ASSUME NEW x \in ToSet(log) \cup {m} PROVE x \in ToSet(t)
        BY <1>1, <1>3, <2>1
  <2> QED BY <2>2, <2>3
<1> QED BY <1>1, <1>5, <1>6 DEF t

\* Trimming a log that is within its cap but for the last message.
LEMMA TrimKeeps ==
  ASSUME NEW S, NEW log \in Seq(S), Len(log) <= MaxEntries + 1
  PROVE  /\ Trim(log) \in Seq(S) /\ Len(Trim(log)) <= MaxEntries
         /\ ToSet(Trim(log)) \subseteq ToSet(log)
         /\ IsInjective(log) => IsInjective(Trim(log))
<1> DEFINE n == Len(log)
           k == n - MaxEntries
           t == SubSeq(log, k + 1, n)
<1>1. n \in Nat /\ MaxEntries \in Nat \ {0} /\ DOMAIN log = 1..n
      BY HubAssumption
<1>2. CASE ~(n > MaxEntries)
  <2>1. Trim(log) = log
        BY <1>2 DEF Trim
  <2> QED BY <1>1, <1>2, <2>1
<1>3. CASE n > MaxEntries
  <2>1. Trim(log) = t /\ k \in Nat /\ k + 1 \in 1..n /\ n - (k + 1) + 1 = MaxEntries
        BY <1>1, <1>3 DEF Trim
  <2>2. /\ t \in Seq(S) /\ Len(t) = MaxEntries
        /\ \A i \in 1..MaxEntries : t[i] = log[i + k]
    <3>1. /\ t \in Seq(S) /\ Len(t) = IF k + 1 <= n THEN n - (k + 1) + 1 ELSE 0
          /\ \A i \in 1..(n - (k + 1) + 1) : t[i] = log[(k + 1) + i - 1]
      <4> HIDE DEF k
      <4> QED BY <1>1, <2>1, SubSeqProperties
    <3>2. \A i \in 1..MaxEntries : (k + 1) + i - 1 = i + k
      <4> HIDE DEF k, n
      <4> QED BY <1>1, <2>1
    <3> QED BY <1>1, <2>1, <3>1, <3>2
  <2>3. DOMAIN t = 1..MaxEntries
        BY <2>2
  <2>4. \A i \in 1..MaxEntries : i + k \in 1..n
        BY <1>1, <1>3
  <2> HIDE DEF n, k, t
  <2>5. ToSet(t) \subseteq ToSet(log)
        BY <1>1, <2>2, <2>3, <2>4 DEF ToSet
  <2>6. IsInjective(log) => IsInjective(t)
    <3>1. SUFFICES ASSUME IsInjective(log), NEW i \in 1..MaxEntries, NEW j \in 1..MaxEntries, t[i] = t[j]
                   PROVE  i = j
          BY <2>3 DEF IsInjective
    <3>2. log[i + k] = log[j + k]
          BY <2>2, <3>1
    <3>3. i + k = j + k
          BY <1>1, <2>4, <3>1, <3>2 DEF IsInjective
    <3> QED BY <2>1, <3>3
  <2> QED BY <1>1, <2>1, <2>2, <2>5, <2>6
<1> QED BY <1>2, <1>3

------------------------------------------------------------------------------
Msg(t) == job[t].kind = "msg"
Joined(s) == phase[s] \in {"joining", "live"} /\ link[s] = "up"

\* What the hub is made of, but for the logs.
HubShape ==
  /\ clients \subseteq Sockets
  /\ phase \in [Sockets -> {"new", "accepting", "joining", "live", "gone"}]
  /\ link \in [Sockets -> {"up", "down"}]
  /\ job \in [Tasks -> Jobs]
  /\ begun \subseteq Messages
  /\ clears \in 0..MaxClears
  /\ missed \in [Sockets -> SUBSET Messages]

\* Every log is one of messages whose broadcast has begun, and shows none twice.
Log(q) == q \in Seq(Messages) /\ IsInjective(q) /\ ToSet(q) \subseteq begun
LogsOK == /\ view \in [Sockets -> Seq(Messages)] /\ snapshot \in [Sockets -> Seq(Messages)]
          /\ Log(entries) /\ Len(entries) <= MaxEntries
          /\ \A s \in Sockets : Log(view[s]) /\ Log(snapshot[s])

\* A message under way is one task's, and not in the history yet.
UnderWay ==
  /\ \A t \in Tasks : Msg(t) => job[t].msg \in begun \ ToSet(entries)
  /\ \A t \in Tasks : ~Msg(t) => job[t].msg = Nothing
  /\ \A t, u \in Tasks : Msg(t) /\ Msg(u) /\ job[t].msg = job[u].msg => t = u

\* Who is sent to has registered; who has failed is down for good.
Addressed ==
  /\ \A s \in clients : phase[s] \notin {"new", "accepting"}
  /\ \A s \in Sockets : phase[s] \in {"new", "accepting"} => snapshot[s] = <<>>
  /\ \A t \in Tasks : /\ \A s \in job[t].todo : phase[s] \notin {"new", "accepting"}
                      /\ \A s \in job[t].dead : phase[s] # "new" /\ link[s] = "down"
  /\ \A s \in Sockets : Joined(s) => s \in clients
  /\ \A s \in Sockets : phase[s] = "live" => snapshot[s] = <<>>

\* Who is yet to be sent a message has it neither on the screen nor in its backfill.
NotYet == \A t \in Tasks : Msg(t) => \A s \in job[t].todo :
            job[t].msg \notin ToSet(view[s]) \cup ToSet(snapshot[s])

\* A socket that has joined has, will get, or has missed what is under way ...
WillShow == \A t \in Tasks, s \in Sockets : Msg(t) /\ Joined(s) =>
              s \in job[t].todo \/ job[t].msg \in ToSet(view[s]) \cup missed[s]

\* ... and what was recorded.
HasHistory == \A s \in Sockets : Joined(s) =>
                ToSet(entries) \subseteq ToSet(view[s]) \cup missed[s] \cup ToSet(snapshot[s])

HubInv == HubShape /\ LogsOK /\ UnderWay /\ Addressed /\ NotYet /\ WillShow /\ HasHistory

LEMMA HubInitial == HubInit => HubInv
<1> SUFFICES ASSUME HubInit PROVE HubInv
      OBVIOUS
<1>1. Idle \in Jobs /\ Idle.kind = "idle" /\ Idle.msg = Nothing /\ Idle.todo = {} /\ Idle.dead = {}
      BY DEF Idle, Jobs
<1>2. HubShape
      BY <1>1, HubAssumption DEF HubInit, HubShape
<1>3. Log(<<>>) /\ Len(<<>>) <= MaxEntries
      BY EmptyLog, HubAssumption DEF Log
<1>4. LogsOK
      BY <1>3 DEF HubInit, LogsOK, Log
<1>5. UnderWay /\ Addressed
      BY <1>1 DEF HubInit, UnderWay, Addressed, Msg, Joined
<1>6. NotYet /\ WillShow /\ HasHistory
      BY <1>1 DEF HubInit, NotYet, WillShow, HasHistory, Msg, Joined
<1> QED BY <1>2, <1>4, <1>5, <1>6 DEF HubInv

\* The steps of a connection that touch no log.
LEMMA ConnectionKeeps ==
  ASSUME HubInv, NEW s \in Sockets, Connect(s) \/ Drop(s) \/ Disconnect(s) \/ Leave(s)
  PROVE  HubInv'
<1> USE DEF HubInv
<1>1. UNCHANGED <<snapshot, entries, job, begun, clears, view, missed>>
      BY DEF Connect, Drop, Disconnect, Leave, screen
<1>2. /\ HubShape'
      /\ \A x \in Sockets : Joined(x)' => Joined(x) /\ (x \in clients => x \in clients')
      /\ clients' \subseteq clients
      /\ \A x \in Sockets : phase[x] \notin {"new", "accepting"} => phase'[x] \notin {"new", "accepting"}
      /\ \A x \in Sockets : phase'[x] \in {"new", "accepting"} => phase[x] \in {"new", "accepting"}
      /\ \A x \in Sockets : phase[x] # "new" /\ link[x] = "down" => phase'[x] # "new" /\ link'[x] = "down"
      /\ \A x \in Sockets : phase'[x] = "live" => phase[x] = "live"
  <2>1. CASE Connect(s)
        BY <2>1 DEF Connect, screen, HubShape, Joined
  <2>2. CASE Drop(s)
        BY <2>2 DEF Drop, screen, HubShape, Joined
  <2>3. CASE Disconnect(s)
        BY <2>3 DEF Disconnect, screen, HubShape, Joined
  <2>4. CASE Leave(s)
        BY <2>4 DEF Leave, screen, HubShape, Joined
  <2> QED BY <2>1, <2>2, <2>3, <2>4
<1>3. LogsOK'
      BY <1>1 DEF LogsOK, Log
<1>4. UnderWay' /\ NotYet'
      BY <1>1 DEF UnderWay, NotYet, Msg
<1>5. Addressed'
      BY <1>1, <1>2 DEF Addressed, HubShape, Jobs
<1>6. WillShow' /\ HasHistory'
      BY <1>1, <1>2 DEF WillShow, HasHistory, Msg
<1> QED BY <1>2, <1>3, <1>4, <1>5, <1>6

\* A socket registers: what is recorded is in its backfill, what is under way it has missed.
LEMMA RegisterKeeps ==
  ASSUME HubInv, NEW s \in Sockets, Register(s)
  PROVE  HubInv'
<1> USE DEF HubInv
<1>1. /\ phase[s] = "accepting" /\ phase' = [phase EXCEPT ![s] = "joining"]
      /\ snapshot' = [snapshot EXCEPT ![s] = entries] /\ clients' = clients \cup {s}
      /\ missed' = [missed EXCEPT ![s] = InFlight]
      /\ UNCHANGED <<link, entries, job, begun, clears, view>>
      BY DEF Register
<1>2. InFlight \subseteq Messages /\ \A t \in Tasks : Msg(t) => job[t].msg \in InFlight
      BY DEF InFlight, UnderWay, Msg, HubShape
<1>3. HubShape'
      BY <1>1, <1>2 DEF HubShape
<1>4. LogsOK'
      BY <1>1 DEF LogsOK, Log
<1>5. UnderWay'
      BY <1>1 DEF UnderWay, Msg
<1>6. Addressed'
      BY <1>1, <1>3 DEF Addressed, HubShape, Jobs, Joined
<1>7. /\ snapshot'[s] = entries /\ missed'[s] = InFlight
      /\ \A x \in Sockets \ {s} : /\ snapshot'[x] = snapshot[x] /\ missed'[x] = missed[x]
                                  /\ Joined(x)' <=> Joined(x)
      BY <1>1 DEF LogsOK, HubShape, Joined
<1>8. \A t \in Tasks : s \notin job[t].todo
      BY <1>1 DEF Addressed
<1>9. NotYet'
      BY <1>1, <1>7, <1>8 DEF NotYet, Msg, HubShape, Jobs
<1>10. WillShow' /\ HasHistory'
      BY <1>1, <1>2, <1>7 DEF WillShow, HasHistory, Msg
<1> QED BY <1>3, <1>4, <1>5, <1>6, <1>9, <1>10

\* The backfill: what was shown before it is lost.
LEMMA BackfillKeeps ==
  ASSUME HubInv, NEW s \in Sockets, Backfill(s)
  PROVE  HubInv'
<1> USE DEF HubInv
<1>1. /\ phase[s] = "joining" /\ phase' = [phase EXCEPT ![s] = "live"]
      /\ snapshot' = [snapshot EXCEPT ![s] = <<>>]
      /\ UNCHANGED <<link, entries, job, begun, clears>>
      BY DEF Backfill
<1>2. snapshot'[s] = <<>> /\ \A x \in Sockets \ {s} : snapshot'[x] = snapshot[x] /\ phase'[x] = phase[x]
      BY <1>1 DEF LogsOK, HubShape
<1>3. CASE /\ link[s] = "up"
           /\ view' = [view EXCEPT ![s] = snapshot[s]]
           /\ missed' = [missed EXCEPT ![s] = missed[s] \cup ToSet(view[s])]
           /\ UNCHANGED clients
  <2>1. /\ view'[s] = snapshot[s] /\ missed'[s] = missed[s] \cup ToSet(view[s])
        /\ \A x \in Sockets \ {s} : view'[x] = view[x] /\ missed'[x] = missed[x]
        BY <1>3 DEF LogsOK, HubShape
  <2>2. ToSet(view[s]) \subseteq Messages
        BY DEF LogsOK, HubShape, Log
  <2>3. HubShape'
        BY <1>1, <1>3, <2>2 DEF HubShape
  <2>4. LogsOK'
        BY <1>1, <1>2, <1>3, <2>1, EmptyLog DEF LogsOK, Log
  <2>5. UnderWay'
        BY <1>1 DEF UnderWay, Msg
  <2>6. Addressed'
        BY <1>1, <1>2, <1>3, <2>3 DEF Addressed, HubShape, Jobs, Joined
  <2>7. NotYet'
        BY <1>1, <1>2, <2>1, EmptyLog DEF NotYet, Msg, HubShape, Jobs
  <2>8. WillShow' /\ HasHistory'
        BY <1>1, <1>2, <2>1, EmptyLog DEF WillShow, HasHistory, Msg, Joined, HubShape
  <2> QED BY <2>3, <2>4, <2>5, <2>6, <2>7, <2>8
<1>4. CASE link[s] = "down" /\ clients' = clients \ {s} /\ UNCHANGED screen
  <2>1. view' = view /\ missed' = missed
        BY <1>4 DEF screen
  <2>2. HubShape'
        BY <1>1, <1>4, <2>1 DEF HubShape
  <2>3. LogsOK'
        BY <1>1, <1>2, <2>1, EmptyLog DEF LogsOK, Log
  <2>4. UnderWay'
        BY <1>1 DEF UnderWay, Msg
  <2>5. Addressed'
        BY <1>1, <1>2, <1>4, <2>2 DEF Addressed, HubShape, Jobs, Joined
  <2>6. NotYet'
        BY <1>1, <1>2, <2>1, EmptyLog DEF NotYet, Msg, HubShape, Jobs
  <2>7. \A x \in Sockets : Joined(x)' => x # s /\ Joined(x)
        BY <1>1, <1>2, <1>4 DEF Joined
  <2>8. WillShow' /\ HasHistory'
        BY <1>1, <1>2, <2>1, <2>7 DEF WillShow, HasHistory, Msg
  <2> QED BY <2>2, <2>3, <2>4, <2>5, <2>6, <2>8
<1> QED BY <1>3, <1>4 DEF Backfill

\* A new broadcast is due to every socket that has joined.
LEMMA BroadcastKeeps ==
  ASSUME HubInv, NEW t \in Tasks, NEW m \in Messages, Broadcast(t, m)
  PROVE  HubInv'
<1> USE DEF HubInv
<1> DEFINE j == [kind |-> "msg", msg |-> m, todo |-> clients, dead |-> {}]
<1>1. /\ m \notin begun /\ begun' = begun \cup {m} /\ job' = [job EXCEPT ![t] = j]
      /\ UNCHANGED <<clients, phase, link, snapshot, entries, clears, view, missed>>
      BY DEF Broadcast, endpoint, screen
<1>2. j \in Jobs /\ j.kind = "msg" /\ j.msg = m /\ j.todo = clients /\ j.dead = {}
      BY DEF Jobs, HubShape
<1> HIDE DEF j
<1>3. job'[t] = j /\ \A u \in Tasks \ {t} : job'[u] = job[u]
      BY <1>1 DEF HubShape
<1>4. HubShape'
      BY <1>1, <1>2 DEF HubShape
<1>5. LogsOK'
      BY <1>1 DEF LogsOK, Log
<1>6. /\ m \notin ToSet(entries)
      /\ \A s \in Sockets : m \notin ToSet(view[s]) \cup ToSet(snapshot[s])
      BY <1>1 DEF LogsOK, Log
<1>7. UnderWay'
  <2>1. \A u \in Tasks \ {t} : Msg(u)' <=> Msg(u)
        BY <1>3 DEF Msg
  <2>2. \A u \in Tasks : Msg(u) => job[u].msg # m
        BY <1>1 DEF UnderWay
  <2> QED BY <1>1, <1>2, <1>3, <1>6, <2>1, <2>2 DEF UnderWay, Msg
<1>8. Addressed'
      BY <1>1, <1>2, <1>3 DEF Addressed, Joined
<1>9. NotYet'
      BY <1>1, <1>2, <1>3, <1>6 DEF NotYet, Msg, HubShape
<1>10. WillShow'
      BY <1>1, <1>2, <1>3 DEF WillShow, Msg, Joined, Addressed
<1>11. HasHistory'
      BY <1>1 DEF HasHistory, Joined
<1> QED BY <1>4, <1>5, <1>7, <1>8, <1>9, <1>10, <1>11

\* Emptying the history takes nothing from anyone.
LEMMA ClearKeeps ==
  ASSUME HubInv, NEW s \in Sockets, Clear(s)
  PROVE  HubInv'
<1> USE DEF HubInv
<1> DEFINE j == [kind |-> "clear", msg |-> Nothing, todo |-> clients, dead |-> {}]
<1>0. s \in Tasks
      BY DEF Tasks
<1>1. /\ entries' = <<>> /\ clears' = clears + 1 /\ clears < MaxClears /\ job' = [job EXCEPT ![s] = j]
      /\ UNCHANGED <<clients, phase, link, snapshot, begun, view, missed>>
      BY DEF Clear, endpoint, screen
<1>2. j \in Jobs /\ j.kind # "msg" /\ j.msg = Nothing /\ j.todo = clients /\ j.dead = {}
      BY DEF Jobs, HubShape
<1> HIDE DEF j
<1>3. job'[s] = j /\ \A u \in Tasks \ {s} : job'[u] = job[u]
      BY <1>0, <1>1 DEF HubShape
<1>4. ~Msg(s)' /\ \A u \in Tasks \ {s} : Msg(u)' <=> Msg(u)
      BY <1>2, <1>3 DEF Msg
<1>5. clears' \in 0..MaxClears
      BY <1>1, HubAssumption DEF HubShape
<1>6. HubShape'
      BY <1>0, <1>1, <1>2, <1>5 DEF HubShape
<1>7. LogsOK'
      BY <1>1, EmptyLog, HubAssumption DEF LogsOK, Log
<1>8. UnderWay'
      BY <1>1, <1>2, <1>3, <1>4, EmptyLog DEF UnderWay
<1>9. Addressed'
      BY <1>1, <1>2, <1>3 DEF Addressed, Joined
<1>10. NotYet' /\ WillShow'
      BY <1>1, <1>3, <1>4 DEF NotYet, WillShow, Joined
<1>11. HasHistory'
      BY <1>1, EmptyLog DEF HasHistory, Joined
<1> QED BY <1>6, <1>7, <1>8, <1>9, <1>10, <1>11

\* One send; a socket whose link is down takes nothing.
LEMMA SendKeeps ==
  ASSUME HubInv, NEW t \in Tasks, NEW s \in Sockets, Send(t, s)
  PROVE  HubInv'
<1> USE DEF HubInv
<1>1. s \in job[t].todo /\ UNCHANGED <<clients, phase, link, snapshot, entries, begun, clears>>
      BY DEF Send, endpoint
<1>2. job[t] \in Jobs
      BY DEF HubShape
<1> DEFINE after(d) == [job[t] EXCEPT !.todo = job[t].todo \ {s}, !.dead = d]
<1>3. PICK d \in {job[t].dead, job[t].dead \cup {s}} :
        /\ job' = [job EXCEPT ![t] = after(d)]
        /\ s \in d => s \in job[t].dead \/ link[s] = "down"
  <2>1. CASE link[s] = "up" /\ job' = [job EXCEPT ![t].todo = job[t].todo \ {s}]
    <3>1. [job[t] EXCEPT !.todo = job[t].todo \ {s}] = after(job[t].dead)
          BY <1>2 DEF Jobs
    <3>2. job' = [job EXCEPT ![t] = [job[t] EXCEPT !.todo = job[t].todo \ {s}]]
          BY <2>1 DEF HubShape
    <3> HIDE DEF after
    <3>3. job' = [job EXCEPT ![t] = after(job[t].dead)]
          BY <3>1, <3>2
    <3> QED BY <3>3
  <2>2. CASE /\ link[s] = "down"
             /\ job' = [job EXCEPT ![t].todo = job[t].todo \ {s}, ![t].dead = job[t].dead \cup {s}]
    <3>1. job' = [job EXCEPT ![t] = after(job[t].dead \cup {s})]
          BY <2>2 DEF HubShape
    <3> HIDE DEF after
    <3> QED BY <2>2, <3>1
  <2> QED BY <2>1, <2>2 DEF Send
<1> DEFINE j == after(d)
<1>12. /\ j \in Jobs /\ j.kind = job[t].kind /\ j.msg = job[t].msg
       /\ j.todo = job[t].todo \ {s} /\ j.dead = d
      BY <1>2, <1>3 DEF Jobs
<1>13. /\ link[s] = "down" => UNCHANGED screen
       /\ link[s] = "up" => Show(s, job[t])
      BY DEF Send
<1>4. job' = [job EXCEPT ![t] = j] /\ job'[t] = j /\ \A u \in Tasks \ {t} : job'[u] = job[u]
      BY <1>3 DEF HubShape
<1> HIDE DEF after, j
<1>5. \A u \in Tasks : (Msg(u)' <=> Msg(u)) /\ job'[u].msg = job[u].msg /\ job'[u].todo \subseteq job[u].todo
      BY <1>12, <1>4 DEF Msg
<1>6. UnderWay' /\ Addressed'
  <2>1. UnderWay'
        BY <1>1, <1>5 DEF UnderWay
  <2>2. phase[s] # "new"
        BY <1>1 DEF Addressed
  <2> QED BY <1>1, <1>3, <1>12, <1>4, <1>5, <2>1, <2>2 DEF Addressed, Joined
<1>7. \A u \in Tasks, x \in Sockets : x \in job[u].todo /\ <<u, x>> # <<t, s>> => x \in job'[u].todo
      BY <1>12, <1>4
<1>8. s \notin job'[t].todo
      BY <1>12, <1>4
<1>9. CASE link[s] = "down"
  <2>1. view' = view /\ missed' = missed
        BY <1>13, <1>9 DEF screen
  <2>2. HubShape' /\ LogsOK'
        BY <1>1, <1>12, <1>4, <2>1 DEF HubShape, LogsOK, Log
  <2>3. NotYet' /\ WillShow' /\ HasHistory'
        BY <1>1, <1>5, <1>7, <1>9, <2>1 DEF NotYet, WillShow, HasHistory, Joined
  <2> QED BY <1>6, <2>2, <2>3
<1>10. CASE link[s] = "up" /\ Msg(t)
  <2> DEFINE m == job[t].msg
  <2>1. view' = [view EXCEPT ![s] = Append(view[s], m)] /\ missed' = missed
        BY <1>13, <1>10 DEF Show, Msg
  <2>2. m \in begun /\ m \in Messages /\ m \notin ToSet(view[s])
        BY <1>1, <1>10 DEF UnderWay, NotYet, HubShape
  <2>3. view[s] \in Seq(Messages) /\ IsInjective(view[s]) /\ ToSet(view[s]) \subseteq begun
        BY DEF LogsOK, Log
  <2> HIDE DEF m
  <2>4. /\ Append(view[s], m) \in Seq(Messages) /\ IsInjective(Append(view[s], m))
        /\ ToSet(Append(view[s], m)) = ToSet(view[s]) \cup {m}
        BY <2>2, <2>3, LogAppend
  <2>5. /\ view' \in [Sockets -> Seq(Messages)] /\ view'[s] = Append(view[s], m)
        /\ \A x \in Sockets \ {s} : view'[x] = view[x]
        BY <2>1, <2>4 DEF LogsOK
  <2>6. HubShape'
        BY <1>1, <1>12, <1>4, <2>1 DEF HubShape
  <2>7. LogsOK'
    <3>1. ToSet(Append(view[s], m)) \subseteq begun
          BY <2>2, <2>3, <2>4
    <3>2. Log(view'[s])
          BY <2>4, <2>5, <3>1 DEF Log
    <3>3. \A x \in Sockets : Log(view'[x]) /\ Log(snapshot[x])
          BY <2>5, <3>2 DEF LogsOK
    <3> QED BY <1>1, <2>5, <3>3 DEF LogsOK, Log
  <2>8. NotYet'
    <3>1. SUFFICES ASSUME NEW u \in Tasks, Msg(u)', NEW x \in job'[u].todo
                   PROVE  job'[u].msg \notin ToSet(view'[x]) \cup ToSet(snapshot[x])
          BY <1>1 DEF NotYet
    <3>2. Msg(u) /\ x \in job[u].todo /\ job'[u].msg = job[u].msg /\ x \in Sockets
          BY <1>5, <3>1 DEF HubShape, Jobs
    <3>3. job[u].msg \notin ToSet(view[x]) \cup ToSet(snapshot[x])
          BY <3>2 DEF NotYet
    <3>4. CASE x = s
      <4>1. u # t
            BY <1>8, <3>1, <3>4
      <4>2. job[u].msg # m
            BY <1>10, <3>2, <4>1 DEF UnderWay, m
      <4> QED BY <2>4, <2>5, <3>2, <3>3, <3>4, <4>2
    <3>5. CASE x # s
          BY <2>5, <3>2, <3>3, <3>5
    <3> QED BY <3>4, <3>5
  <2>9. \A x \in Sockets : ToSet(view[x]) \subseteq ToSet(view'[x])
        BY <2>4, <2>5
  <2>10. m \in ToSet(view'[s])
        BY <2>4, <2>5
  <2>11. WillShow'
    <3>1. SUFFICES ASSUME NEW u \in Tasks, NEW x \in Sockets, Msg(u), Joined(x)
                   PROVE  x \in job'[u].todo \/ job[u].msg \in ToSet(view'[x]) \cup missed[x]
          BY <1>1, <1>5, <2>1 DEF WillShow, Joined
    <3>2. CASE u = t /\ x = s
          BY <2>10, <3>2 DEF m
    <3>3. CASE <<u, x>> # <<t, s>>
          BY <1>7, <2>9, <3>1, <3>3 DEF WillShow
    <3> QED BY <3>2, <3>3
  <2>12. HasHistory'
        BY <1>1, <2>1, <2>9 DEF HasHistory, Joined
  <2> QED BY <1>6, <2>6, <2>7, <2>8, <2>11, <2>12
<1>11. CASE link[s] = "up" /\ ~Msg(t)
  <2>1. /\ view' = [view EXCEPT ![s] = <<>>]
        /\ missed' = [missed EXCEPT ![s] = missed[s] \cup ToSet(view[s])]
        BY <1>13, <1>11 DEF Show, Msg
  <2>2. /\ view'[s] = <<>> /\ missed'[s] = missed[s] \cup ToSet(view[s])
        /\ \A x \in Sockets \ {s} : view'[x] = view[x] /\ missed'[x] = missed[x]
        /\ view' \in [Sockets -> Seq(Messages)]
        BY <2>1, EmptyLog DEF LogsOK, HubShape
  <2>3. ToSet(view[s]) \subseteq Messages
        BY DEF LogsOK, Log, HubShape
  <2>4. HubShape'
        BY <1>1, <1>12, <1>4, <2>1, <2>3 DEF HubShape
  <2>5. LogsOK'
        BY <1>1, <2>2, EmptyLog DEF LogsOK, Log
  <2>6. NotYet'
        BY <1>1, <1>5, <2>2, EmptyLog DEF NotYet, HubShape, Jobs
  <2>7. \A x \in Sockets : ToSet(view[x]) \cup missed[x] \subseteq ToSet(view'[x]) \cup missed'[x]
        BY <2>2
  <2>8. WillShow'
    <3>1. SUFFICES ASSUME NEW u \in Tasks, NEW x \in Sockets, Msg(u), Joined(x)
                   PROVE  x \in job'[u].todo \/ job[u].msg \in ToSet(view'[x]) \cup missed'[x]
          BY <1>1, <1>5 DEF WillShow, Joined
    <3>2. u # t
          BY <1>11, <3>1
    <3> QED BY <1>7, <2>7, <3>1, <3>2 DEF WillShow
  <2>9. HasHistory'
        BY <1>1, <2>7 DEF HasHistory, Joined
  <2> QED BY <1>6, <2>4, <2>5, <2>6, <2>8, <2>9
<1> QED BY <1>9, <1>10, <1>11 DEF HubShape

\* The end of a broadcast: who failed is dropped, and the message is recorded.
LEMMA FinishKeeps ==
  ASSUME HubInv, NEW t \in Tasks, Finish(t)
  PROVE  HubInv'
<1> USE DEF HubInv
<1>1. /\ job[t].todo = {} /\ clients' = clients \ job[t].dead /\ entries' = Record(job[t].msg)
      /\ job' = [job EXCEPT ![t] = Idle]
      /\ UNCHANGED <<phase, link, snapshot, begun, clears, view, missed>>
      BY DEF Finish, endpoint, screen
<1>2. Idle \in Jobs /\ Idle.kind = "idle" /\ Idle.msg = Nothing /\ Idle.todo = {} /\ Idle.dead = {}
      BY DEF Idle, Jobs
<1>3. job'[t] = Idle /\ \A u \in Tasks \ {t} : job'[u] = job[u]
      BY <1>1 DEF HubShape
<1>4. ~Msg(t)' /\ \A u \in Tasks \ {t} : Msg(u)' <=> Msg(u)
      BY <1>2, <1>3 DEF Msg
<1>5. HubShape'
      BY <1>1, <1>2 DEF HubShape
<1>6. /\ Log(entries') /\ Len(entries') <= MaxEntries
      /\ ToSet(entries') \subseteq ToSet(entries) \cup (IF Msg(t) THEN {job[t].msg} ELSE {})
  <2>1. CASE Msg(t)
    <3> DEFINE m == job[t].msg
    <3>1. m \in begun /\ m \in Messages /\ m \notin ToSet(entries)
          BY <2>1 DEF UnderWay, HubShape
    <3>2. entries' = Trim(Append(entries, m))
          BY <1>1, <3>1 DEF Record
    <3>3. entries \in Seq(Messages) /\ IsInjective(entries) /\ ToSet(entries) \subseteq begun
          BY DEF LogsOK, Log
    <3> HIDE DEF m
    <3>4. /\ Append(entries, m) \in Seq(Messages) /\ IsInjective(Append(entries, m))
          /\ ToSet(Append(entries, m)) = ToSet(entries) \cup {m}
          BY <3>1, <3>3, LogAppend
    <3>5. Len(Append(entries, m)) <= MaxEntries + 1
          BY <3>3, HubAssumption DEF LogsOK
    <3>6. /\ entries' \in Seq(Messages) /\ Len(entries') <= MaxEntries /\ IsInjective(entries')
          /\ ToSet(entries') \subseteq ToSet(entries) \cup {m}
          BY <3>2, <3>4, <3>5, TrimKeeps
    <3> QED BY <1>1, <2>1, <3>1, <3>3, <3>6 DEF Log, m
  <2>2. CASE ~Msg(t)
    <3>1. job[t].msg \notin Messages
          BY <2>2, HubAssumption DEF UnderWay
    <3>2. entries' = entries
          BY <1>1, <3>1 DEF Record
    <3> QED BY <1>1, <3>2 DEF LogsOK, Log
  <2> QED BY <2>1, <2>2
<1>7. LogsOK'
      BY <1>1, <1>6 DEF LogsOK, Log
<1>8. UnderWay'
      BY <1>1, <1>2, <1>3, <1>4, <1>6 DEF UnderWay
<1>9. Addressed'
      BY <1>1, <1>2, <1>3 DEF Addressed, Joined
<1>10. NotYet' /\ WillShow'
      BY <1>1, <1>3, <1>4 DEF NotYet, WillShow, Joined
<1>11. HasHistory'
  <2>1. \A s \in Sockets : Msg(t) /\ Joined(s) => job[t].msg \in ToSet(view[s]) \cup missed[s]
        BY <1>1 DEF WillShow
  <2> QED BY <1>1, <1>6, <2>1 DEF HasHistory, Joined
<1> QED BY <1>5, <1>7, <1>8, <1>9, <1>10, <1>11

LEMMA HubInductive == HubInv /\ [HubNext]_hubVars => HubInv'
<1> SUFFICES ASSUME HubInv, [HubNext]_hubVars PROVE HubInv'
      OBVIOUS
<1>1. CASE UNCHANGED hubVars
      BY <1>1 DEF hubVars, endpoint, screen, HubInv, HubShape, LogsOK, Log, UnderWay, Addressed,
                  NotYet, WillShow, HasHistory, Msg, Joined
<1> QED BY <1>1, ConnectionKeeps, RegisterKeeps, BackfillKeeps, BroadcastKeeps, ClearKeeps,
           SendKeeps, FinishKeeps DEF HubNext, Socket

\* The types; and the history stays within its cap.
THEOREM HubTypes == HubSpec => []HubTypeOK
<1>1. HubInv => HubTypeOK
      BY DEF HubInv, HubTypeOK, HubShape, LogsOK, Log
<1> QED BY HubInitial, HubInductive, <1>1, PTL DEF HubSpec

\* A browser never shows a message twice, and misses none of the history but in the three
\* windows, for any sockets that come and go, any tasks that broadcast and any cap.
THEOREM HubShownOnce == HubSpec => []ShownOnce
<1>1. ASSUME HubInv PROVE ShownOnce
  <2>1. NeverTwice
        BY <1>1 DEF HubInv, LogsOK, Log, NeverTwice
  <2>2. NothingElseMissed
        BY <1>1, EmptyLog DEF HubInv, HasHistory, Addressed, NothingElseMissed, Joined
  <2> QED BY <2>1, <2>2 DEF ShownOnce
<1> QED BY HubInitial, HubInductive, <1>1, PTL DEF HubSpec

-----------------------------------------------------------------------------
(* The family board. *)

\* Nobody has checked in tomorrow.
OkIsPast == \A u \in Members : presence[u].lastOk <= day

FamInv == FamTypeOK /\ OkIsPast /\ OkIsNeverMissed /\ NothingLingers

BoardEntries == [kept : BOOLEAN, lastOk : {Never} \cup Days, heard : BOOLEAN, missed : BOOLEAN]

LEMMA FamInitial == FamInit => FamInv
<1> SUFFICES ASSUME FamInit PROVE FamInv
      OBVIOUS
<1>1. NoRow \in BoardEntries /\ NoRow.lastOk = Never /\ ~NoRow.missed /\ ~NoRow.kept
      BY DEF NoRow, BoardEntries
<1>2. NoReminder \in [hour : {Never} \cup 0..LastHour, enabled : BOOLEAN]
      BY DEF NoReminder
<1>3. FamTypeOK
      BY <1>1, <1>2, FamilyAssumption DEF FamInit, FamTypeOK, BoardEntries, Days
<1>4. OkIsPast
      BY <1>1 DEF FamInit, OkIsPast, Never
<1>5. OkIsNeverMissed /\ NothingLingers
      BY <1>1 DEF FamInit, OkIsNeverMissed, NothingLingers
<1> QED BY <1>3, <1>4, <1>5 DEF FamInv

\* A tick flags only a member who has not checked in today, and touches nobody
\* without a reminder.
LEMMA TickKeeps == ASSUME FamInv, Tick PROVE FamInv'
<1> USE DEF FamInv, FamTypeOK, Tick
<1>1. ASSUME NEW u \in Members
      PROVE  /\ presence'[u] \in BoardEntries
             /\ presence'[u].lastOk = presence[u].lastOk
             /\ presence'[u].missed => presence[u].lastOk # day
             /\ reminder[u] = NoReminder => presence'[u] = presence[u]
  <2>1. presence[u] \in BoardEntries /\ Missed(u) \in BOOLEAN
        BY DEF BoardEntries, Missed
  <2>2. CASE reminder[u] = NoReminder \/ Missed(u) = presence[u].missed
    <3>1. presence'[u] = presence[u]
          BY <2>2
    <3> QED BY <2>1, <3>1 DEF OkIsNeverMissed
  <2>3. CASE ~(reminder[u] = NoReminder \/ Missed(u) = presence[u].missed)
    <3>1. presence'[u] = [presence[u] EXCEPT !.kept = TRUE, !.missed = Missed(u)]
          BY <2>3
    <3>2. presence'[u] \in BoardEntries /\ presence'[u].lastOk = presence[u].lastOk
          BY <2>1, <3>1 DEF BoardEntries
    <3>3. presence'[u].missed = Missed(u)
          BY <2>1, <3>1 DEF BoardEntries
    <3>4. Missed(u) => presence[u].lastOk # day
          BY DEF Missed
    <3> QED BY <2>3, <3>2, <3>3, <3>4
  <2> QED BY <2>2, <2>3
<1>2. presence' = [u \in Members |-> presence'[u]]
      OBVIOUS
<1>3. presence' \in [Members -> BoardEntries]
      BY <1>1, <1>2
<1>4. FamTypeOK'
      BY <1>3 DEF BoardEntries, clock
<1>5. OkIsPast' /\ OkIsNeverMissed'
      BY <1>1, ZenonT(60) DEF clock, OkIsPast, OkIsNeverMissed
<1>6. NothingLingers'
      BY <1>1 DEF NothingLingers
<1> QED BY <1>4, <1>5, <1>6

\* Each write of a presence row: what it must satisfy.
LEMMA OneRow ==
  ASSUME FamInv, NEW u \in Members, NEW r \in BoardEntries, r.lastOk <= day, r.missed => r.lastOk # day,
         presence' = [presence EXCEPT ![u] = r], UNCHANGED clock
  PROVE  presence' \in [Members -> BoardEntries] /\ OkIsPast' /\ OkIsNeverMissed'
BY DEF FamInv, FamTypeOK, OkIsPast, OkIsNeverMissed, BoardEntries, clock

LEMMA WriterKeeps ==
  ASSUME FamInv, NEW u \in Members, MarkOk(u) \/ TouchHeard(u) PROVE FamInv'
<1> USE DEF FamInv
<1>1. PICK r \in BoardEntries :
        /\ r.lastOk <= day
        /\ r.missed => r.lastOk # day
        /\ presence' = [presence EXCEPT ![u] = r]
  <2>0. presence[u] \in BoardEntries
        BY DEF FamTypeOK, BoardEntries
  <2>1. CASE MarkOk(u)
    <3> DEFINE r == [kept |-> TRUE, lastOk |-> day, heard |-> TRUE, missed |-> FALSE]
    <3>1. r \in BoardEntries /\ r.lastOk = day /\ ~r.missed
          BY DEF FamTypeOK, BoardEntries
    <3>2. presence' = [presence EXCEPT ![u] = r]
          BY <2>1 DEF MarkOk
    <3>3. day <= day
          BY DEF FamTypeOK, Days
    <3> HIDE DEF r
    <3>4. r.lastOk <= day /\ (r.missed => r.lastOk # day)
          BY <3>1, <3>3
    <3> QED BY <3>1, <3>2, <3>4
  <2>2. CASE TouchHeard(u)
    <3> DEFINE r == [presence[u] EXCEPT !.kept = TRUE, !.heard = TRUE]
    <3>1. r \in BoardEntries /\ r.lastOk = presence[u].lastOk /\ r.missed = presence[u].missed
          BY <2>0 DEF BoardEntries
    <3>2. presence' = [presence EXCEPT ![u] = r]
          BY <2>2 DEF TouchHeard, FamTypeOK
    <3> HIDE DEF r
    <3> QED BY <3>1, <3>2 DEF OkIsPast, OkIsNeverMissed
  <2> QED BY <2>1, <2>2
<1>2. /\ UNCHANGED <<clock, profiles, online, reminder, deleting>>
      /\ revived' = (IF u \in profiles THEN revived ELSE revived \cup {u})
      /\ checking' \subseteq Members /\ talking' \subseteq Members
      BY DEF MarkOk, TouchHeard, Written, FamTypeOK
<1>3. presence' \in [Members -> BoardEntries] /\ OkIsPast' /\ OkIsNeverMissed'
      BY <1>1, <1>2, OneRow DEF clock
<1>4. FamTypeOK'
  <2>1. /\ day' = day /\ hour' = hour /\ profiles' = profiles
        /\ online' = online /\ reminder' = reminder /\ deleting' = deleting
        BY <1>2 DEF clock
  <2>2. revived' \subseteq Members
        BY <1>2 DEF FamTypeOK
  <2> QED BY <1>2, <1>3, <2>1, <2>2 DEF FamTypeOK, BoardEntries
<1>5. NothingLingers'
  <2>1. profiles' = profiles /\ deleting' = deleting
        BY <1>2
  <2> QED BY <1>1, <1>2, <2>1 DEF NothingLingers, FamTypeOK
<1> QED BY <1>3, <1>4, <1>5

LEMMA DeletionKeeps ==
  ASSUME FamInv, NEW u \in Members, ProfileDeleted(u) \/ RemovePresence(u) PROVE FamInv'
<1> USE DEF FamInv
<1>1. NoRow \in BoardEntries /\ NoRow.lastOk = Never /\ ~NoRow.missed /\ ~NoRow.kept
      BY DEF NoRow, BoardEntries
<1>2. NoReminder \in [hour : {Never} \cup 0..LastHour, enabled : BOOLEAN]
      BY DEF NoReminder
<1>3. CASE ProfileDeleted(u)
  <2>1. FamTypeOK'
        BY <1>2, <1>3 DEF ProfileDeleted, FamTypeOK, clock
  <2>2. OkIsPast' /\ OkIsNeverMissed'
        BY <1>3 DEF ProfileDeleted, OkIsPast, OkIsNeverMissed, clock
  <2>3. NothingLingers'
        BY <1>3 DEF ProfileDeleted, NothingLingers, FamTypeOK
  <2> QED BY <2>1, <2>2, <2>3
<1>4. CASE RemovePresence(u)
  <2>1. Never <= day
        BY DEF Never, FamTypeOK, Days
  <2>2. presence' \in [Members -> BoardEntries] /\ OkIsPast' /\ OkIsNeverMissed'
        BY <1>1, <1>4, <2>1, OneRow DEF RemovePresence
  <2>3. FamTypeOK'
        BY <1>4, <2>2 DEF RemovePresence, FamTypeOK, BoardEntries, clock
  <2>4. NothingLingers'
        BY <1>1, <1>4 DEF RemovePresence, NothingLingers, FamTypeOK
  <2> QED BY <2>2, <2>3, <2>4
<1> QED BY <1>3, <1>4

LEMMA TimeKeeps == ASSUME FamInv, TimePasses PROVE FamInv'
<1> USE DEF FamInv
<1>1. day' \in Days /\ hour' \in 0..LastHour /\ (day' = day \/ day' = day + 1) /\ day \in Int
      BY FamilyAssumption DEF TimePasses, FamTypeOK, Days
<1>2. /\ UNCHANGED <<profiles, online, reminder, presence, checking, talking, deleting, revived>>
      BY DEF TimePasses
<1>3. \A u \in Members : presence[u].lastOk \in Int
      BY DEF FamTypeOK, Days, Never
<1>4. OkIsPast' /\ OkIsNeverMissed'
      BY <1>1, <1>2, <1>3 DEF OkIsPast, OkIsNeverMissed
<1> QED BY <1>1, <1>2, <1>4 DEF FamTypeOK, NothingLingers

LEMMA FamInductive == FamInv /\ [FamNext]_famVars => FamInv'
<1> SUFFICES ASSUME FamInv, [FamNext]_famVars PROVE FamInv'
      OBVIOUS
<1>1. CASE Tick
      BY <1>1, TickKeeps
<1>2. CASE TimePasses
      BY <1>2, TimeKeeps
<1>3. CASE RestartBoard
      BY <1>3 DEF RestartBoard, FamInv, FamTypeOK, OkIsPast, OkIsNeverMissed, NothingLingers, clock
<1>4. ASSUME NEW u \in Members,
             ProfileCreated(u) \/ Connects(u) \/ Leaves(u) \/ CheckIn(u) \/ Talk(u)
      PROVE  FamInv'
  <2>1. /\ UNCHANGED <<clock, reminder, presence, deleting, revived>>
        /\ profiles \subseteq profiles' /\ profiles' \subseteq Members
        /\ online' \subseteq Members /\ checking' \subseteq Members /\ talking' \subseteq Members
        BY <1>4 DEF ProfileCreated, Connects, Leaves, CheckIn, Talk, FamInv, FamTypeOK
  <2> QED BY <2>1 DEF FamInv, FamTypeOK, OkIsPast, OkIsNeverMissed, NothingLingers, clock
<1>5. ASSUME NEW u \in Members, ProfileDeleted(u) \/ RemovePresence(u) PROVE FamInv'
      BY <1>5, DeletionKeeps
<1>6. ASSUME NEW u \in Members, MarkOk(u) \/ TouchHeard(u) PROVE FamInv'
      BY <1>6, WriterKeeps
<1>7. ASSUME NEW u \in Members, NEW h \in {Never} \cup 0..LastHour, NEW on \in BOOLEAN,
             SetReminder(u, h, on)
      PROVE  FamInv'
  <2>1. reminder' \in [Members -> [hour : {Never} \cup 0..LastHour, enabled : BOOLEAN]]
        BY <1>7 DEF SetReminder, NoReminder, FamInv, FamTypeOK
  <2>2. \A v \in Members \ {u} : reminder'[v] = reminder[v]
        BY <1>7 DEF SetReminder, FamInv, FamTypeOK
  <2>3. /\ UNCHANGED <<clock, profiles, online, presence, checking, talking, deleting>>
        /\ revived' = (IF u \in profiles THEN revived ELSE revived \cup {u})
        BY <1>7 DEF SetReminder, Written
  <2> QED BY <2>1, <2>2, <2>3 DEF FamInv, FamTypeOK, OkIsPast, OkIsNeverMissed, NothingLingers, clock
<1>8. CASE UNCHANGED famVars
      BY <1>8 DEF famVars, FamInv, FamTypeOK, OkIsPast, OkIsNeverMissed, NothingLingers, clock
<1> QED BY <1>1, <1>2, <1>3, <1>4, <1>5, <1>6, <1>7, <1>8 DEF FamNext

\* What the family board shows of a member is true, for any members and any length of day:
\* nobody who checked in today is shown as missing, and nothing of a deleted member lingers.
THEOREM BoardTrue == FamSpec => []BoardIsTrue
<1>1. FamInv => BoardIsTrue
      BY DEF FamInv, BoardIsTrue
<1> QED BY FamInitial, FamInductive, <1>1, PTL DEF FamSpec

-----------------------------------------------------------------------------
(* Sign-in. *)

\* The list h is the tail of the attempts m, what it lacks of them is past, and no window
\* has too many.
Traced(h, m, past) ==
  /\ Len(h) <= Len(m)
  /\ \A j \in 1..Len(h) : h[j] = m[(Len(m) - Len(h)) + j]
  /\ \A i \in 1..(Len(m) - Len(h)) : m[i] <= past
  /\ \A i \in 1..(Len(m) - PerWindow) : m[i] + Window <= m[i + PerWindow]

\* What the limiter knows of an address: few attempts, in their order, the last of those
\* it admitted; and whoever waits for what it was promised outlasts one of them.
Limited(a) ==
  /\ Len(hits[a]) <= PerWindow
  /\ Traced(hits[a], admitted[a], now - Window)
  /\ \A i, j \in 1..Len(hits[a]) : i <= j => hits[a][i] <= hits[a][j]
  /\ promised[a] # Gone /\ hits[a] # <<>>
       => \E i \in 1..Len(hits[a]) : hits[a][i] + Window < promised[a]

LimiterInv ==
  /\ now \in 0..MaxNow
  /\ hits \in [Addresses -> Seq(0..now)] /\ admitted \in [Addresses -> Seq(0..now)]
  /\ promised \in [Addresses -> Times \cup {Gone}]
  /\ \A a \in Addresses : Limited(a)

LockInv ==
  /\ now \in 0..MaxNow
  /\ attempts \in [Names -> 0..MaxAttempts] /\ lockedUntil \in [Names -> Times \cup {Gone}]
  /\ LockFits

TokenInv ==
  /\ now \in 0..MaxNow
  /\ sessions \in [Tokens -> Grants] /\ storedSessions \in [Tokens -> Grants]
  /\ tickets \in [Tickets -> Grants]
  /\ FileFits

SignInv == LimiterInv /\ LockInv /\ TokenInv

LEMMA SignConstants ==
  /\ Second \in Nat /\ Second >= 1 /\ MaxAttempts \in Nat /\ MaxAttempts >= 1
  /\ LockFor \in Nat /\ LockFor >= 1 /\ PerWindow \in Nat /\ PerWindow >= 1
  /\ Window \in Nat /\ Window >= 1 /\ MaxAddresses \in Nat /\ MaxAddresses >= 1
  /\ SessionFor \in Nat /\ SessionFor >= 1 /\ TicketFor \in Nat /\ TicketFor >= 1
  /\ MaxNow \in Nat /\ MaxNow >= 1
  /\ Gone \notin Nat /\ Gone \notin [user : Names, until : Nat]
<1>1. \A n \in {Second, MaxAttempts, LockFor, PerWindow, Window, MaxAddresses, SessionFor,
                TicketFor, MaxNow} : n \in Nat \ {0}
      BY SignInAssumption
<1>2. \A n \in Nat \ {0} : n \in Nat /\ n >= 1
      OBVIOUS
<1> QED BY <1>1, <1>2, SignInAssumption

-----------------------------------------------------------------------------
\* What is left of an address's attempts when the old ones are dropped: the last ones.
LEMMA RecentTail ==
  ASSUME LimiterInv, NEW a \in Addresses
  PROVE  /\ Recent(a) \in Seq(0..now)
         /\ \E d \in 0..Len(hits[a]) :
              /\ Len(Recent(a)) = Len(hits[a]) - d
              /\ \A j \in 1..(Len(hits[a]) - d) : Recent(a)[j] = hits[a][d + j]
              /\ \A i \in 1..Len(hits[a]) : hits[a][i] > now - Window <=> i > d
<1> DEFINE h == hits[a]
           w == now - Window
           places == {i \in DOMAIN h : h[i] > w}
<1>1. h \in Seq(0..now) /\ DOMAIN h = 1..Len(h) /\ now \in Nat /\ w \in Int
      BY SignConstants DEF LimiterInv
<1>2. Recent(a) = Kept(h, places)
      BY DEF Recent
<1>3. \A i, j \in 1..Len(h) : i <= j => h[i] <= h[j]
      BY DEF LimiterInv, Limited
<1>4. \A i \in 1..Len(h) : i \in places <=> h[i] > w
      BY <1>1
<1> HIDE DEF h, places, w
<1>5. h \in Seq(Nat)
      BY <1>1
<1>6. PICK d \in 0..Len(h) : \A i \in 1..Len(h) : h[i] > w <=> i > d
      BY <1>1, <1>3, <1>5, RisingTail
<1>7. \A i \in 1..Len(h) : i \in places <=> i > d
      BY <1>4, <1>6
<1>8. /\ Len(Kept(h, places)) = Len(h) - d
      /\ \A j \in 1..(Len(h) - d) : Kept(h, places)[j] = h[d + j]
      BY <1>5, <1>7, KeptTail
<1>9. Kept(h, places) \in Seq(0..now)
      BY <1>1, KeptIs
<1> QED BY <1>2, <1>6, <1>8, <1>9 DEF h, w

LEMMA RecentIs ==
  ASSUME LimiterInv, NEW a \in Addresses
  PROVE  /\ Recent(a) \in Seq(0..now) /\ Len(Recent(a)) <= Len(hits[a])
         /\ \A i \in 1..Len(Recent(a)) : Recent(a)[i] > now - Window
         /\ \A i, j \in 1..Len(Recent(a)) : i <= j => Recent(a)[i] <= Recent(a)[j]
         /\ (\E i \in 1..Len(hits[a]) : hits[a][i] <= now - Window)
              => Len(Recent(a)) < Len(hits[a])
<1> DEFINE h == hits[a]
           n == Len(h)
           r == Recent(a)
           w == now - Window
<1>1. n \in Nat /\ now \in Nat /\ w \in Int /\ \A i \in 1..n : h[i] \in Nat
  <2>1. h \in Seq(0..now) /\ now \in Nat /\ w \in Int
        BY SignConstants DEF LimiterInv
  <2> QED BY <2>1
<1>2. \A i, j \in 1..n : i <= j => h[i] <= h[j]
      BY DEF LimiterInv, Limited
<1>3. r \in Seq(0..now)
      BY RecentTail
<1>4. PICK d \in 0..n : /\ Len(r) = n - d
                        /\ \A j \in 1..(n - d) : r[j] = h[d + j]
                        /\ \A i \in 1..n : h[i] > w <=> i > d
      BY RecentTail
<1> HIDE DEF h, n, r, w
<1>5. \A j \in 1..(n - d) : d + j \in 1..n /\ d + j > d
      BY <1>1
<1>6. \A i, j \in 1..(n - d) : i <= j => r[i] <= r[j]
  <2>1. ASSUME NEW i \in 1..(n - d), NEW j \in 1..(n - d), i <= j PROVE r[i] <= r[j]
    <3>1. d + i <= d + j
          BY <1>1, <2>1
    <3> QED BY <1>2, <1>4, <1>5, <3>1
  <2> QED BY <2>1
<1>7. \A i \in 1..(n - d) : r[i] > w
      BY <1>4, <1>5
<1>8. (\E i \in 1..n : h[i] <= w) => n - d < n
  <2>1. ASSUME NEW i \in 1..n, h[i] <= w PROVE n - d < n
    <3>1. ~(i > d)
          BY <1>1, <1>4, <2>1
    <3> QED BY <1>1, <3>1
  <2> QED BY <2>1
<1>9. n - d <= n
      BY <1>1
<1> QED BY <1>3, <1>4, <1>6, <1>7, <1>8, <1>9 DEF h, n, r, w

\* The list without the old ones is still a tail of the attempts.
LEMMA RecentTraced ==
  ASSUME LimiterInv, NEW a \in Addresses
  PROVE  Traced(Recent(a), admitted[a], now - Window)
<1> DEFINE h == hits[a]
           n == Len(h)
           r == Recent(a)
           w == now - Window
           m == admitted[a]
           k == Len(m)
<1>1. n \in Nat /\ k \in Nat /\ now \in Nat /\ w \in Int
  <2>1. h \in Seq(0..now) /\ m \in Seq(0..now) /\ now \in Nat /\ w \in Int
        BY SignConstants DEF LimiterInv
  <2> QED BY <2>1
<1>2. \A i \in 1..n : h[i] \in Nat
  <2>1. h \in Seq(0..now)
        BY DEF LimiterInv
  <2> QED BY <1>1, <2>1
<1>3. /\ n <= k
      /\ \A j \in 1..n : h[j] = m[(k - n) + j]
      /\ \A i \in 1..(k - n) : m[i] <= w
      /\ \A i \in 1..(k - PerWindow) : m[i] + Window <= m[i + PerWindow]
      BY DEF LimiterInv, Limited, Traced
<1>4. PICK d \in 0..n : /\ Len(r) = n - d
                        /\ \A j \in 1..(n - d) : r[j] = h[d + j]
                        /\ \A i \in 1..n : h[i] > w <=> i > d
      BY RecentTail
<1> HIDE DEF h, n, r, w, m, k
<1>5. Len(r) <= k /\ k - Len(r) = (k - n) + d
      BY <1>1, <1>3, <1>4
<1>6. ASSUME NEW j \in 1..Len(r) PROVE r[j] = m[(k - Len(r)) + j]
  <2>1. j \in 1..(n - d) /\ d + j \in 1..n /\ (k - n) + (d + j) = (k - Len(r)) + j
        BY <1>1, <1>4, <1>5
  <2> QED BY <1>3, <1>4, <2>1
<1>7. ASSUME NEW i \in 1..(k - Len(r)) PROVE m[i] <= w
  <2>1. CASE i \in 1..(k - n)
        BY <1>3, <2>1
  <2>2. CASE i > k - n
    <3>1. i - (k - n) \in 1..n /\ ~(i - (k - n) > d) /\ (k - n) + (i - (k - n)) = i
          BY <1>1, <1>3, <1>5, <2>2
    <3>2. m[i] = h[i - (k - n)] /\ ~(h[i - (k - n)] > w)
          BY <1>3, <1>4, <3>1
    <3> QED BY <1>1, <1>2, <3>1, <3>2
  <2> QED BY <1>1, <1>3, <2>1, <2>2
<1> QED BY <1>3, <1>5, <1>6, <1>7 DEF Traced, r, m, k, w

\* The oldest attempt is one of them.
LEMMA OldestIs ==
  ASSUME NEW s \in Seq(Nat), s # <<>>
  PROVE  \E i \in 1..Len(s) : Min(Range(s)) = s[i]
<1>1. Range(s) \in SUBSET Nat /\ Range(s) # {}
  <2>1. DOMAIN s = 1..Len(s) /\ Len(s) \in Nat /\ Len(s) # 0 /\ \A i \in 1..Len(s) : s[i] \in Nat
        OBVIOUS
  <2>2. 1 \in 1..Len(s)
        BY <2>1
  <2> QED BY <2>1, <2>2 DEF Range
<1>2. PICK x \in Range(s) : \A y \in Range(s) : x <= y
      BY <1>1, LeastNat
<1>3. Min(Range(s)) \in Range(s)
      BY <1>2 DEF Min
<1>4. DOMAIN s = 1..Len(s)
      OBVIOUS
<1> QED BY <1>3, <1>4 DEF Range

LEMMA Divided ==
  ASSUME NEW x \in Nat, NEW s \in Nat, s >= 1
  PROVE  x \div s \in Nat /\ s * (x \div s) <= x /\ x < s * (x \div s) + s
OBVIOUS

\* An address that is refused is told to wait until an attempt of it is no longer recent.
LEMMA WaitSuffices ==
  ASSUME LimiterInv, NEW a \in Addresses, Exhausted(a)
  PROVE  /\ now + Second * RetryAfter(a) \in Times
         /\ \E i \in 1..Len(Recent(a)) : Recent(a)[i] + Window < now + Second * RetryAfter(a)
<1> DEFINE r == Recent(a)
           oldest == Min(Range(r))
           x == oldest + Window - now
<1>1. /\ r \in Seq(0..now) /\ \A i \in 1..Len(r) : r[i] > now - Window
      BY RecentIs
<1>2. now \in Nat /\ now <= MaxNow
      BY SignConstants DEF LimiterInv
<1>3. Len(r) >= 1
      BY SignConstants, <1>1 DEF Exhausted
<1>4. r \in Seq(Nat) /\ r # <<>>
      BY <1>1, <1>2, <1>3
<1> HIDE DEF r
<1>5. PICK i \in 1..Len(r) : oldest = r[i]
      BY <1>4, OldestIs
<1> HIDE DEF oldest
<1>6. oldest \in 0..now /\ oldest > now - Window
  <2>1. r[i] > now - Window
        BY <1>1, Zenon
  <2>2. r[i] \in 0..now
        BY <1>1, ElementOfSeq
  <2> QED BY <1>5, <2>1, <2>2
<1>7. x \in Nat /\ x <= Window
      BY <1>2, <1>6, SignConstants
<1>8. oldest + Window = now + x
      BY <1>2, <1>6, SignConstants
<1> HIDE DEF x
<1> DEFINE d == x \div Second
<1>9. d \in Nat /\ Second * d <= x /\ x < Second * d + Second
      BY <1>7, Divided, SignConstants
<1>10. RetryAfter(a) = d + 1
      BY DEF RetryAfter, r, oldest, x
<1> HIDE DEF d
<1>11. Second * (d + 1) = Second * d + Second /\ Second * d \in Nat
      BY <1>9, SignConstants
<1> DEFINE m == Second * d
<1>12. /\ now + Second * RetryAfter(a) = now + m + Second
       /\ m \in Nat /\ m <= x /\ x < m + Second
  <2>1. Second * RetryAfter(a) = m + Second
        BY <1>10, <1>11
  <2>2. m \in Nat /\ m <= x /\ x < m + Second
        BY <1>9, <1>11
  <2> HIDE DEF m
  <2>3. now + (m + Second) = now + m + Second
        BY <1>2, <2>2, SignConstants
  <2> QED BY <2>1, <2>2, <2>3
<1> HIDE DEF m
<1>13. now + m + Second \in Times
      BY <1>2, <1>7, <1>12, SignConstants DEF Times
<1>14. r[i] + Window < now + m + Second
      BY <1>2, <1>5, <1>7, <1>8, <1>12, SignConstants
<1> QED BY <1>12, <1>13, <1>14 DEF r

\* An address that waited as long as it was told is not refused.
LEMMA WaitedEnough ==
  ASSUME LimiterInv, NEW a \in Addresses, promised[a] # Gone, now >= promised[a]
  PROVE  ~Exhausted(a)
<1> DEFINE n == Len(hits[a])
<1>1. hits[a] \in Seq(0..now) /\ n \in Nat /\ now \in Nat /\ n <= PerWindow
      BY DEF LimiterInv, Limited
<1>2. Recent(a) \in Seq(0..now) /\ Len(Recent(a)) <= n
      BY RecentIs
<1>3. CASE hits[a] = <<>>
  <2>1. Len(Recent(a)) <= 0
        BY <1>2, <1>3
  <2> QED BY <2>1, <1>2, SignConstants DEF Exhausted
<1>4. CASE hits[a] # <<>>
  <2>1. PICK i \in 1..n : hits[a][i] + Window < promised[a]
        BY <1>4 DEF LimiterInv, Limited
  <2>2. promised[a] \in Nat
        BY SignConstants DEF LimiterInv, Times
  <2>3. hits[a][i] <= now - Window
        BY <1>1, <2>1, <2>2, SignConstants, SMTT(60)
  <2>4. Len(Recent(a)) < n
        BY <2>3, RecentIs
  <2> QED BY <1>1, <1>2, <2>4, SignConstants DEF Exhausted
<1> QED BY <1>3, <1>4

-----------------------------------------------------------------------------
LEMMA NoneTraced == ASSUME NEW past PROVE Traced(<<>>, <<>>, past)
<1>1. Len(<<>>) = 0 /\ 1..(0 - 0) = {} /\ 1..0 = {} /\ 1..(0 - PerWindow) = {} /\ 0 <= 0
      BY SignConstants
<1> QED BY <1>1 DEF Traced

\* The limiter's lists in a step: those of a are l and m, unless they are forgotten, and
\* another address keeps its own or is forgotten.
Listed(a, l, m) ==
  /\ hits' = [b \in Addresses |-> hits'[b]] /\ admitted' = [b \in Addresses |-> admitted'[b]]
  /\ \A b \in Addresses : \/ hits'[b] = <<>> /\ admitted'[b] = <<>>
                          \/ b = a /\ hits'[b] = l /\ admitted'[b] = m
                          \/ b # a /\ hits'[b] = hits[b] /\ admitted'[b] = admitted[b]

\* One address changes: what its new list, its attempts and its promise must satisfy.
LEMMA OneAddress ==
  ASSUME LimiterInv, NEW a \in Addresses, NEW l \in Seq(0..now), NEW m \in Seq(0..now),
         NEW p \in Times \cup {Gone}, Len(l) <= PerWindow, Traced(l, m, now - Window),
         \A i, j \in 1..Len(l) : i <= j => l[i] <= l[j],
         p # Gone => \E i \in 1..Len(l) : l[i] + Window < p,
         now' = now, promised' = [promised EXCEPT ![a] = p],
         Listed(a, l, m)
  PROVE  LimiterInv'
<1>1. /\ hits \in [Addresses -> Seq(0..now)] /\ admitted \in [Addresses -> Seq(0..now)]
      /\ promised \in [Addresses -> Times \cup {Gone}]
      /\ now \in 0..MaxNow /\ \A b \in Addresses : Limited(b)
      BY DEF LimiterInv
<1>2. /\ promised' \in [Addresses -> Times \cup {Gone}] /\ promised'[a] = p
      /\ \A b \in Addresses \ {a} : promised'[b] = promised[b]
      BY <1>1
<1>3. <<>> \in Seq(0..now) /\ Len(<<>>) = 0
      OBVIOUS
<1>8. /\ hits' = [b \in Addresses |-> hits'[b]] /\ admitted' = [b \in Addresses |-> admitted'[b]]
      /\ \A b \in Addresses : \/ hits'[b] = <<>> /\ admitted'[b] = <<>>
                              \/ b = a /\ hits'[b] = l /\ admitted'[b] = m
                              \/ b # a /\ hits'[b] = hits[b] /\ admitted'[b] = admitted[b]
      BY Zenon DEF Listed
<1>4. \A b \in Addresses : hits'[b] \in Seq(0..now) /\ admitted'[b] \in Seq(0..now)
      BY <1>1, <1>3, <1>8
<1>5. ASSUME NEW b \in Addresses PROVE Limited(b)'
  <2>1. CASE hits'[b] = <<>> /\ admitted'[b] = <<>>
    <3>1. Len(hits'[b]) <= PerWindow /\ 1..Len(hits'[b]) = {}
          BY <1>3, <2>1, SignConstants
    <3>2. Traced(<<>>, <<>>, now' - Window)
          BY NoneTraced
    <3> QED BY <2>1, <3>1, <3>2 DEF Limited
  <2>2. CASE b = a /\ hits'[b] = l /\ admitted'[b] = m
    <3>1. hits'[b] = l /\ admitted'[b] = m /\ promised'[b] = p /\ now' = now
          BY <1>2, <2>2
    <3>2. /\ Len(hits'[b]) <= PerWindow
          /\ Traced(hits'[b], admitted'[b], now' - Window)
          /\ \A i, j \in 1..Len(hits'[b]) : i <= j => hits'[b][i] <= hits'[b][j]
          /\ promised'[b] # Gone /\ hits'[b] # <<>>
               => \E i \in 1..Len(hits'[b]) : hits'[b][i] + Window < promised'[b]
          BY <3>1, Zenon
    <3> QED BY <3>2 DEF Limited
  <2>3. CASE b # a /\ hits'[b] = hits[b] /\ admitted'[b] = admitted[b]
    <3>1. /\ hits'[b] = hits[b] /\ admitted'[b] = admitted[b] /\ promised'[b] = promised[b]
          /\ now' = now /\ Limited(b)
          BY <1>1, <1>2, <2>3
    <3> QED BY <3>1, Zenon DEF Limited
  <2> QED BY <1>8, <2>1, <2>2, <2>3
<1>6. hits' \in [Addresses -> Seq(0..now)]
      BY <1>4, <1>8
<1>7. admitted' \in [Addresses -> Seq(0..now)]
      BY <1>4, <1>8
<1> QED BY <1>1, <1>2, <1>5, <1>6, <1>7 DEF LimiterInv, Times

\* One more attempt, when the list still has room, comes a window after the one that
\* stands PerWindow before it.
LEMMA OneMoreTraced ==
  ASSUME NEW t \in Nat, NEW r \in Seq(0..t), NEW m \in Seq(0..t),
         Traced(r, m, t - Window), Len(r) < PerWindow
  PROVE  Traced(Append(r, t), Append(m, t), t - Window)
<1> DEFINE n == Len(r)
           k == Len(m)
           r1 == Append(r, t)
           m1 == Append(m, t)
           w == t - Window
<1>1. n \in Nat /\ k \in Nat /\ w \in Int /\ PerWindow \in Nat /\ PerWindow >= 1 /\ Window \in Nat
      BY SignConstants
<1>2. Len(r1) = n + 1 /\ r1[n + 1] = t /\ \A j \in 1..n : r1[j] = r[j]
      OBVIOUS
<1>3. Len(m1) = k + 1 /\ m1[k + 1] = t /\ \A j \in 1..k : m1[j] = m[j] /\ m[j] \in Nat
      OBVIOUS
<1>4. /\ n <= k /\ n < PerWindow
      /\ \A j \in 1..n : r[j] = m[(k - n) + j]
      /\ \A i \in 1..(k - n) : m[i] <= w
      /\ \A i \in 1..(k - PerWindow) : m[i] + Window <= m[i + PerWindow]
      BY DEF Traced
<1>9. \A x \in Nat : x <= w => x + Window <= t
      BY <1>1
<1> HIDE DEF n, k, r1, m1, w
<1>5. n + 1 <= k + 1 /\ (k + 1) - (n + 1) = k - n
      BY <1>1, <1>4
<1>6. ASSUME NEW j \in 1..(n + 1) PROVE r1[j] = m1[(k - n) + j]
  <2>1. CASE j = n + 1
    <3>1. (k - n) + j = k + 1
          BY <1>1, <2>1
    <3> QED BY <1>2, <1>3, <2>1, <3>1
  <2>2. CASE j \in 1..n
    <3>1. (k - n) + j \in 1..k
          BY <1>1, <1>4, <2>2
    <3> QED BY <1>2, <1>3, <1>4, <2>2, <3>1
  <2> QED BY <1>1, <2>1, <2>2
<1>7. ASSUME NEW i \in 1..(k - n) PROVE m1[i] <= w
  <2>1. i \in 1..k
        BY <1>1, <1>4
  <2> QED BY <1>3, <1>4, <2>1
<1>8. ASSUME NEW i \in 1..((k + 1) - PerWindow) PROVE m1[i] + Window <= m1[i + PerWindow]
  <2>1. CASE i \in 1..(k - PerWindow)
    <3>1. i \in 1..k /\ i + PerWindow \in 1..k
          BY <1>1, <2>1
    <3> QED BY <1>3, <1>4, <2>1, <3>1
  <2>2. CASE i = (k + 1) - PerWindow
    <3>1. i \in 1..(k - n) /\ i \in 1..k /\ i + PerWindow = k + 1
          BY <1>1, <1>4, <2>2
    <3>2. m[i] <= w /\ m[i] \in Nat /\ m1[i] = m[i]
          BY <1>3, <1>4, <3>1
    <3> QED BY <1>3, <1>9, <3>1, <3>2
  <2> QED BY <1>1, <2>1, <2>2
<1> QED BY <1>2, <1>3, <1>5, <1>6, <1>7, <1>8 DEF Traced, r1, m1, w

LEMMA RefuseKeeps == ASSUME LimiterInv, NEW a \in Addresses, Refuse(a) PROVE LimiterInv'
<1> DEFINE p == now + Second * RetryAfter(a)
           l == Recent(a)
<1>1. /\ hits' = [hits EXCEPT ![a] = l] /\ promised' = [promised EXCEPT ![a] = p]
      /\ now' = now /\ Exhausted(a) /\ admitted' = admitted
      BY DEF Refuse
<1>2. p \in Times /\ \E i \in 1..Len(l) : l[i] + Window < p
      BY <1>1, WaitSuffices
<1>3. l \in Seq(0..now) /\ Len(l) <= PerWindow /\ \A i, j \in 1..Len(l) : i <= j => l[i] <= l[j]
  <2>1. l \in Seq(0..now) /\ Len(l) <= Len(hits[a]) /\ Len(hits[a]) <= PerWindow
        BY RecentIs DEF LimiterInv, Limited
  <2>2. hits[a] \in Seq(0..now)
        BY DEF LimiterInv
  <2> HIDE DEF l
  <2>3. Len(l) <= PerWindow
        BY <2>1, <2>2, SignConstants
  <2> QED BY <2>1, <2>3, RecentIs DEF l
<1> DEFINE m == admitted[a]
<1>4. Traced(l, m, now - Window)
      BY RecentTraced
<1>5. /\ hits = [b \in Addresses |-> hits[b]]
      /\ admitted = [b \in Addresses |-> admitted[b]] /\ m \in Seq(0..now)
      BY DEF LimiterInv
<1> HIDE DEF p, l
<1>6. hits' = [b \in Addresses |-> hits'[b]] /\ admitted' = [b \in Addresses |-> admitted'[b]]
      BY <1>1, <1>5
<1>7. \A b \in Addresses : \/ b = a /\ hits'[b] = l /\ admitted'[b] = m
                           \/ b # a /\ hits'[b] = hits[b] /\ admitted'[b] = admitted[b]
      BY <1>1, <1>5
<1> HIDE DEF m
<1>8. Listed(a, l, m)
      BY <1>6, <1>7, Zenon DEF Listed
<1>9. /\ p \in Times \cup {Gone} /\ (p # Gone => \E i \in 1..Len(l) : l[i] + Window < p)
      BY <1>2
<1> QED BY <1>1, <1>3, <1>4, <1>5, <1>8, <1>9, OneAddress

LEMMA AdmitKeeps ==
  ASSUME LimiterInv, NEW a \in Addresses, Admit(a), now' = now PROVE LimiterInv'
<1> DEFINE r == Recent(a)
           l == Append(r, now)
           n == Len(r)
           m == Append(admitted[a], now)
           h == [hits EXCEPT ![a] = l]
<1>1. /\ hits' \in Evicted(h) /\ promised' = [promised EXCEPT ![a] = Gone]
      /\ admitted' = [x \in Addresses |-> IF hits'[x] = <<>> THEN <<>>
                                         ELSE IF x = a THEN m ELSE admitted[x]]
      BY DEF Admit
<1>10. hits \in [Addresses -> Seq(0..now)] /\ admitted[a] \in Seq(0..now)
       BY DEF LimiterInv
<1>11. \A b \in Addresses : h[b] = IF b = a THEN l ELSE hits[b]
       BY <1>10
<1>12. /\ hits' = [b \in Addresses |-> hits'[b]]
       /\ \A b \in Addresses : hits'[b] = h[b] \/ hits'[b] = <<>>
  <2>1. h = [b \in Addresses |-> h[b]]
        BY <1>10
  <2>2. hits' = h \/ \E b \in Addresses : hits' = [h EXCEPT ![b] = <<>>]
        BY <1>1 DEF Evicted
  <2> HIDE DEF h
  <2>3. CASE hits' = h
        BY <2>1, <2>3
  <2>4. CASE \E b \in Addresses : hits' = [h EXCEPT ![b] = <<>>]
        BY <2>1, <2>4
  <2> QED BY <2>2, <2>3, <2>4
<1> HIDE DEF h
<1>13. \A b \in Addresses : \/ hits'[b] = <<>> /\ admitted'[b] = <<>>
                            \/ b = a /\ hits'[b] = l /\ admitted'[b] = m
                            \/ b # a /\ hits'[b] = hits[b] /\ admitted'[b] = admitted[b]
  <2> HIDE DEF m, l
  <2> QED BY <1>1, <1>11, <1>12, Zenon
<1>14. admitted' = [b \in Addresses |-> admitted'[b]]
       BY <1>1
<1>2. r \in Seq(0..now) /\ \A i, j \in 1..n : i <= j => r[i] <= r[j]
      BY RecentIs
<1>3. ~(n >= PerWindow)
      BY DEF Admit, Exhausted
<1>4. now \in Nat /\ now \in 0..now
      BY SignConstants DEF LimiterInv
<1>15. Traced(l, m, now - Window) /\ m \in Seq(0..now)
  <2>1. Traced(r, admitted[a], now - Window)
        BY RecentTraced
  <2>2. Len(r) < PerWindow
        BY <1>2, <1>3, SignConstants
  <2> QED BY <1>2, <1>4, <1>10, <2>1, <2>2, OneMoreTraced
<1> HIDE DEF r, m
<1>5. l \in Seq(0..now) /\ Len(l) = n + 1 /\ l[n + 1] = now /\ \A i \in 1..n : l[i] = r[i]
      BY <1>2, <1>4
<1>6. n \in Nat /\ n + 1 <= PerWindow
      BY <1>2, <1>3, SignConstants
<1>7. \A i \in 1..n : r[i] <= now
  <2>1. \A i \in 1..n : r[i] \in 0..now
        BY <1>2, ElementOfSeq
  <2> QED BY <1>4, <2>1
<1> HIDE DEF l, n
<1>8. ASSUME NEW i \in 1..(n + 1), NEW j \in 1..(n + 1), i <= j PROVE l[i] <= l[j]
  <2>1. CASE j \in 1..n
    <3>1. i \in 1..n
          BY <1>6, <1>8, <2>1
    <3> QED BY <1>2, <1>5, <1>8, <2>1, <3>1
  <2>2. CASE j = n + 1 /\ i \in 1..n
        BY <1>5, <1>7, <2>2
  <2>3. CASE j = n + 1 /\ i = n + 1
        BY <1>4, <1>5, <2>3
  <2> QED BY <1>6, <2>1, <2>2, <2>3
<1>9. Len(l) <= PerWindow /\ \A i, j \in 1..Len(l) : i <= j => l[i] <= l[j]
      BY <1>5, <1>6, <1>8
<1>16. Listed(a, l, m)
       BY <1>12, <1>13, <1>14, Zenon DEF Listed
<1> QED BY <1>1, <1>5, <1>9, <1>15, <1>16, OneAddress

\* As time goes by, nothing is recent that was not.
LEMMA TickLimits == ASSUME LimiterInv, NextTick PROVE LimiterInv'
<1>1. /\ now \in Nat /\ now' = now + 1 /\ now' \in 0..MaxNow
      /\ UNCHANGED <<hits, admitted, promised>>
      BY SignConstants DEF LimiterInv, NextTick
<1>2. 0..now \subseteq 0..now'
      BY <1>1
<1>3. ASSUME NEW a \in Addresses PROVE hits[a] \in Seq(0..now') /\ admitted[a] \in Seq(0..now')
  <2>1. hits[a] \in Seq(0..now) /\ admitted[a] \in Seq(0..now)
        BY DEF LimiterInv
  <2> QED BY <1>2, <2>1, SeqMonotonic
<1>7. hits = [a \in Addresses |-> hits[a]] /\ admitted = [a \in Addresses |-> admitted[a]]
      BY DEF LimiterInv
<1>4. hits' \in [Addresses -> Seq(0..now')]
      BY <1>1, <1>3, <1>7
<1>5. admitted' \in [Addresses -> Seq(0..now')]
      BY <1>1, <1>3, <1>7
<1>6. ASSUME NEW a \in Addresses PROVE Limited(a)'
  <2> DEFINE h == hits[a]
             m == admitted[a]
  <2>1. /\ Len(h) \in Nat /\ Len(m) \in Nat /\ \A i \in 1..Len(m) : m[i] \in Nat
        /\ now - Window \in Int /\ now' - Window \in Int /\ now - Window <= now' - Window
    <3>1. h \in Seq(0..now) /\ m \in Seq(0..now)
          BY DEF LimiterInv
    <3> QED BY <1>1, <3>1, SignConstants
  <2>2. Limited(a) /\ hits' = hits /\ admitted' = admitted /\ promised' = promised
        BY <1>1 DEF LimiterInv
  <2>3. Len(h) <= Len(m) /\ \A i \in 1..(Len(m) - Len(h)) : m[i] <= now - Window
        BY <2>2 DEF Limited, Traced
  <2> DEFINE k == Len(m) - Len(h)
  <2>4. \A i \in 1..k : m[i] <= now' - Window
    <3>1. \A i \in 1..k : i \in 1..Len(m)
          BY <2>1, <2>3
    <3>2. \A i \in 1..k : m[i] \in Nat /\ m[i] <= now - Window
          BY <2>1, <2>3, <3>1
    <3> HIDE DEF k, m
    <3> QED BY <2>1, <3>2
  <2>5. Traced(h, m, now' - Window)
        BY <2>2, <2>4 DEF Limited, Traced
  <2> QED BY <2>2, <2>5, Zenon DEF Limited
<1> QED BY <1>1, <1>4, <1>5, <1>6 DEF LimiterInv, Times

\* An empty limiter, at the start and after a restart.
LEMMA FreshLimiter ==
  ASSUME now' \in 0..MaxNow, hits' = Untracked, admitted' = Untracked,
         promised' = [a \in Addresses |-> Gone]
  PROVE  LimiterInv'
<1>1. <<>> \in Seq(0..now') /\ Len(<<>>) = 0 /\ 1..0 = {}
      OBVIOUS
<1>2. /\ hits' \in [Addresses -> Seq(0..now')] /\ admitted' \in [Addresses -> Seq(0..now')]
      /\ promised' \in [Addresses -> Times \cup {Gone}]
      /\ \A a \in Addresses : hits'[a] = <<>> /\ admitted'[a] = <<>> /\ promised'[a] = Gone
      BY <1>1 DEF Untracked
<1>3. ASSUME NEW a \in Addresses PROVE Limited(a)'
  <2>1. Len(hits'[a]) = 0 /\ 0 <= PerWindow /\ 1..Len(hits'[a]) = {} /\ promised'[a] = Gone
        BY <1>1, <1>2, SignConstants
  <2>2. Traced(hits'[a], admitted'[a], now' - Window)
        BY <1>2, NoneTraced
  <2> QED BY <2>1, <2>2 DEF Limited
<1> QED BY <1>2, <1>3 DEF LimiterInv, Times

-----------------------------------------------------------------------------
\* The lockout.
LEMMA LockTimes ==
  ASSUME now \in 0..MaxNow
  PROVE  now + LockFor \in Times /\ now + LockFor # Gone /\ now + LockFor <= now + LockFor
<1>1. now \in Nat /\ now <= MaxNow
      BY SignConstants
<1> QED BY <1>1, SignConstants DEF Times

\* One account changes: its attempts and its lock go together.
LEMMA OneAccount ==
  ASSUME LockInv, NEW n \in Names, NEW k \in 0..MaxAttempts, NEW u \in Times \cup {Gone},
         u # Gone <=> k >= MaxAttempts,
         u # Gone => u <= now + LockFor,
         now' = now, attempts' = [attempts EXCEPT ![n] = k],
         lockedUntil' = [lockedUntil EXCEPT ![n] = u]
  PROVE  LockInv'
<1>1. /\ attempts' \in [Names -> 0..MaxAttempts] /\ lockedUntil' \in [Names -> Times \cup {Gone}]
      /\ attempts'[n] = k /\ lockedUntil'[n] = u
      /\ \A m \in Names \ {n} : attempts'[m] = attempts[m] /\ lockedUntil'[m] = lockedUntil[m]
      BY DEF LockInv
<1>2. LockFits'
  <2>1. ASSUME NEW m \in Names
        PROVE  /\ lockedUntil'[m] # Gone <=> attempts'[m] >= MaxAttempts
               /\ lockedUntil'[m] # Gone => lockedUntil'[m] <= now' + LockFor
    <3>1. CASE m = n
          BY <1>1, <3>1
    <3>2. CASE m # n
      <4>1. attempts'[m] = attempts[m] /\ lockedUntil'[m] = lockedUntil[m]
            BY <1>1, <3>2
      <4>2. /\ lockedUntil[m] # Gone <=> attempts[m] >= MaxAttempts
            /\ lockedUntil[m] # Gone => lockedUntil[m] <= now + LockFor
            BY DEF LockInv, LockFits
      <4> QED BY <4>1, <4>2
    <3> QED BY <3>1, <3>2
  <2> QED BY <2>1 DEF LockFits
<1> QED BY <1>1, <1>2 DEF LockInv, Times

LEMMA ClearedKeeps == ASSUME LockInv, NEW n \in Names, Cleared(n), now' = now PROVE LockInv'
<1>1. 0 \in 0..MaxAttempts /\ ~(0 >= MaxAttempts)
      BY SignConstants
<1> QED BY <1>1, OneAccount DEF Cleared

\* An account is locked as it uses up its attempts, and then only once the lock is over.
LEMMA WrongKeeps ==
  ASSUME LockInv, NEW a \in Addresses, NEW n \in Names, WrongPassword(a, n) PROVE LockInv'
<1> DEFINE k == Failures(n) + 1
           u == IF k >= MaxAttempts THEN now + LockFor ELSE Gone
<1>1. /\ attempts' = [attempts EXCEPT ![n] = k] /\ lockedUntil' = [lockedUntil EXCEPT ![n] = u]
      /\ now' = now /\ ~Locked(n)
      BY DEF WrongPassword
<1>2. /\ now \in 0..MaxNow /\ attempts[n] \in 0..MaxAttempts /\ lockedUntil[n] \in Times \cup {Gone}
      /\ lockedUntil[n] # Gone <=> attempts[n] >= MaxAttempts
      BY DEF LockInv, LockFits
<1>3. LockOver(n) \/ lockedUntil[n] = Gone
  <2>1. lockedUntil[n] # Gone => lockedUntil[n] \in Nat /\ now \in Nat
        BY <1>2, SignConstants DEF Times
  <2>2. lockedUntil[n] # Gone => ~(now < lockedUntil[n])
        BY <1>1 DEF Locked
  <2>3. lockedUntil[n] # Gone => now >= lockedUntil[n]
        BY <2>1, <2>2
  <2> QED BY <2>3 DEF LockOver
<1>4. Failures(n) \in Nat /\ Failures(n) < MaxAttempts
  <2>1. CASE LockOver(n)
        BY <2>1, SignConstants DEF Failures
  <2>2. CASE ~LockOver(n)
    <3>1. lockedUntil[n] = Gone /\ Failures(n) = attempts[n]
          BY <1>3, <2>2 DEF Failures
    <3>2. ~(attempts[n] >= MaxAttempts)
          BY <1>2, <3>1
    <3> QED BY <1>2, <3>1, <3>2, SignConstants
  <2> QED BY <2>1, <2>2
<1>5. k \in 0..MaxAttempts
      BY <1>4, SignConstants
<1> HIDE DEF k
<1>6. /\ u \in Times \cup {Gone} /\ (u # Gone <=> k >= MaxAttempts)
      /\ u # Gone => u <= now + LockFor
      BY <1>2, LockTimes
<1> HIDE DEF u
<1> QED BY <1>1, <1>5, <1>6, OneAccount

LEMMA LocksRest ==
  ASSUME LockInv, UNCHANGED <<attempts, lockedUntil>>,
         now' = now \/ NextTick
  PROVE  LockInv'
<1>1. now \in Nat /\ now' \in 0..MaxNow /\ now' >= now
      BY SignConstants DEF LockInv, NextTick
<1>2. ASSUME NEW n \in Names, lockedUntil[n] # Gone PROVE lockedUntil[n] <= now' + LockFor
  <2>1. lockedUntil[n] \in Nat /\ lockedUntil[n] <= now + LockFor
        BY <1>2, SignConstants DEF LockInv, LockFits, Times
  <2> QED BY <1>1, <2>1, SignConstants
<1> QED BY <1>1, <1>2 DEF LockInv, LockFits, Times

-----------------------------------------------------------------------------
\* Sessions and tickets.
LEMMA GrantIs ==
  ASSUME now \in 0..MaxNow, NEW n \in Names, NEW d \in {SessionFor, TicketFor}
  PROVE  [user |-> n, until |-> now + d] \in Grants
<1>1. now + d \in Times
      BY SignConstants DEF Times
<1> QED BY <1>1 DEF Grants

\* What has expired goes on being so.
LEMMA ExpiredStays ==
  ASSUME now \in Nat, now' \in Nat, now' >= now, NEW s \in Grants, Expired(s)
  PROVE  s # Gone /\ s.until <= now'
<1>1. s # Gone /\ s.until <= now
      BY DEF Expired
<1>2. s.until \in Nat
      BY <1>1, SignConstants DEF Grants, Times
<1> QED BY <1>1, <1>2

LEMMA TokensRest ==
  ASSUME TokenInv, UNCHANGED <<sessions, storedSessions>>, tickets' \in [Tickets -> Grants],
         now' = now \/ NextTick
  PROVE  TokenInv'
<1>1. now \in Nat /\ now' \in Nat /\ now' \in 0..MaxNow /\ now' >= now
      BY SignConstants DEF TokenInv, NextTick
<1>2. ASSUME NEW t \in Tokens
      PROVE  \/ sessions[t] = storedSessions[t]
             \/ sessions[t] = Gone /\ storedSessions[t] # Gone /\ storedSessions[t].until <= now'
  <2>1. \/ sessions[t] = storedSessions[t]
        \/ sessions[t] = Gone /\ Expired(storedSessions[t])
        BY DEF TokenInv, FileFits
  <2>2. storedSessions[t] \in Grants
        BY DEF TokenInv
  <2> QED BY <1>1, <2>1, <2>2, ExpiredStays
<1>3. FileFits'
      BY <1>2 DEF FileFits, Expired
<1> QED BY <1>1, <1>3 DEF TokenInv, Grants, Times

\* The file is written with the sessions there are.
LEMMA SavedFits ==
  ASSUME TokenInv, sessions' \in [Tokens -> Grants], tickets' \in [Tickets -> Grants],
         storedSessions' = sessions', now' = now
  PROVE  TokenInv'
BY DEF TokenInv, FileFits, Grants, Times

LEMMA EndedKeeps ==
  ASSUME TokenInv, NEW gone \in SUBSET Tokens, Ended(gone), now' = now, tickets' = tickets
  PROVE  TokenInv'
<1>1. sessions \in [Tokens -> Grants] /\ tickets \in [Tickets -> Grants] /\ Gone \in Grants
      BY DEF TokenInv, Grants
<1>2. CASE gone = {}
  <2>1. sessions' = sessions /\ storedSessions' = storedSessions
        BY <1>1, <1>2 DEF Ended
  <2> QED BY <1>1, <2>1, TokensRest
<1>3. CASE gone # {}
  <2>1. sessions' \in [Tokens -> Grants] /\ storedSessions' = sessions'
        BY <1>1, <1>3 DEF Ended
  <2> QED BY <1>1, <2>1, SavedFits
<1> QED BY <1>2, <1>3

LEMMA LogInKeeps ==
  ASSUME TokenInv, NEW a \in Addresses, NEW n \in Names, NEW t \in Tokens, LogIn(a, n, t)
  PROVE  TokenInv'
<1>1. [user |-> n, until |-> now + SessionFor] \in Grants
      BY GrantIs DEF TokenInv
<1>2. sessions' \in [Tokens -> Grants] /\ storedSessions' = sessions'
      BY <1>1 DEF TokenInv, LogIn
<1> QED BY <1>2, SavedFits DEF TokenInv, LogIn

LEMMA StaleKeeps == ASSUME TokenInv, NEW t \in Tokens, Stale(t) PROVE TokenInv'
<1>1. /\ sessions \in [Tokens -> Grants] /\ Gone \in Grants /\ Expired(sessions[t])
      /\ sessions' = [sessions EXCEPT ![t] = Gone]
      /\ now' = now /\ storedSessions' = storedSessions /\ tickets' = tickets
      BY DEF TokenInv, Grants, Stale
<1>2. sessions' \in [Tokens -> Grants] /\ sessions'[t] = Gone
      /\ \A x \in Tokens \ {t} : sessions'[x] = sessions[x]
      BY <1>1
<1>3. ASSUME NEW x \in Tokens
      PROVE  \/ sessions'[x] = storedSessions[x]
             \/ sessions'[x] = Gone /\ Expired(storedSessions[x])
  <2>1. \/ sessions[x] = storedSessions[x]
        \/ sessions[x] = Gone /\ Expired(storedSessions[x])
        BY DEF TokenInv, FileFits
  <2>2. CASE x = t
    <3>1. sessions[t] # Gone
          BY <1>1 DEF Expired
    <3> QED BY <1>1, <1>2, <2>1, <2>2, <3>1
  <2> QED BY <1>2, <2>1, <2>2
<1>4. FileFits'
      BY <1>1, <1>3 DEF FileFits, Expired
<1> QED BY <1>1, <1>2, <1>4 DEF TokenInv, Grants, Times

LEMMA TicketKeeps ==
  ASSUME TokenInv, NEW k \in Tickets, UseTicket(k) \/ \E t \in Tokens : IssueTicket(t, k)
  PROVE  TokenInv'
<1>1. tickets \in [Tickets -> Grants] /\ Gone \in Grants
      BY DEF TokenInv, Grants
<1>2. CASE UseTicket(k)
  <2>1. tickets' \in [Tickets -> Grants]
        BY <1>1, <1>2 DEF UseTicket
  <2> QED BY <1>2, <2>1, TokensRest DEF UseTicket
<1>3. ASSUME NEW t \in Tokens, IssueTicket(t, k) PROVE TokenInv'
  <2> DEFINE g == [user |-> sessions[t].user, until |-> now + TicketFor]
  <2>1. sessions[t] \in Grants /\ sessions[t] # Gone
        BY <1>3 DEF IssueTicket, TokenInv
  <2>2. sessions[t].user \in Names
        BY <2>1 DEF Grants
  <2>3. g \in Grants
        BY <2>2, GrantIs DEF TokenInv
  <2>4. tickets' = [x \in Tickets |->
                      IF x = k THEN g ELSE IF Expired(tickets[x]) THEN Gone ELSE tickets[x]]
        BY <1>3 DEF IssueTicket
  <2> HIDE DEF g
  <2>5. tickets' \in [Tickets -> Grants]
        BY <1>1, <2>3, <2>4
  <2> QED BY <1>3, <2>5, TokensRest DEF IssueTicket
<1> QED BY <1>2, <1>3

LEMMA RebootKeeps == ASSUME TokenInv, Reboot PROVE TokenInv'
<1>1. storedSessions \in [Tokens -> Grants] /\ Gone \in Grants
      BY DEF TokenInv, Grants
<1>2. sessions' \in [Tokens -> Grants] /\ tickets' \in [Tickets -> Grants]
      BY <1>1 DEF Reboot
<1> QED BY <1>2, SavedFits DEF Reboot

-----------------------------------------------------------------------------
LEMMA SignInitial == SignInit => SignInv
<1> SUFFICES ASSUME SignInit PROVE SignInv
      OBVIOUS
<1>1. now \in 0..MaxNow /\ 0 \in 0..MaxAttempts /\ ~(0 >= MaxAttempts) /\ Gone \in Grants
      BY SignConstants DEF SignInit, Grants
<1>2. LimiterInv
  <2>1. <<>> \in Seq(0..now) /\ Len(<<>>) = 0 /\ 1..0 = {} /\ 0 <= PerWindow
        BY SignConstants
  <2>2. Traced(<<>>, <<>>, now - Window)
        BY NoneTraced
  <2> QED BY <1>1, <2>1, <2>2 DEF SignInit, LimiterInv, Limited, Untracked
<1>3. LockInv
      BY <1>1 DEF SignInit, LockInv, LockFits
<1>4. TokenInv
      BY <1>1 DEF SignInit, TokenInv, FileFits, NoTokens
<1> QED BY <1>2, <1>3, <1>4 DEF SignInv

LEMMA SignInductive == SignInv /\ [SignNext]_signVars => SignInv'
<1> SUFFICES ASSUME SignInv, [SignNext]_signVars PROVE SignInv'
      OBVIOUS
<1> USE DEF SignInv
<1>1. CASE NextTick
  <2>1. UNCHANGED <<attempts, lockedUntil, sessions, storedSessions>> /\ tickets' = tickets
        BY <1>1 DEF NextTick
  <2>2. tickets' \in [Tickets -> Grants]
        BY <2>1 DEF TokenInv
  <2> QED BY <1>1, <2>1, <2>2, TickLimits, LocksRest, TokensRest
<1>2. ASSUME NEW a \in Addresses, Refuse(a) PROVE SignInv'
  <2>1. /\ UNCHANGED <<attempts, lockedUntil, sessions, storedSessions>> /\ now' = now
        /\ tickets' \in [Tickets -> Grants]
        BY <1>2 DEF Refuse, TokenInv
  <2> QED BY <1>2, <2>1, RefuseKeeps, LocksRest, TokensRest
<1>3. ASSUME NEW a \in Addresses, UnknownName(a) \/ \E n \in Names : RefusedAsLocked(a, n)
      PROVE  SignInv'
  <2>1. /\ Admit(a) /\ now' = now /\ UNCHANGED <<attempts, lockedUntil, sessions, storedSessions>>
        /\ tickets' \in [Tickets -> Grants]
        BY <1>3 DEF UnknownName, RefusedAsLocked, TokenInv
  <2> QED BY <2>1, AdmitKeeps, LocksRest, TokensRest
<1>4. ASSUME NEW a \in Addresses, NEW n \in Names, WrongPassword(a, n) PROVE SignInv'
  <2>1. /\ Admit(a) /\ now' = now /\ UNCHANGED <<sessions, storedSessions>>
        /\ tickets' \in [Tickets -> Grants]
        BY <1>4 DEF WrongPassword, TokenInv
  <2> QED BY <1>4, <2>1, AdmitKeeps, WrongKeeps, TokensRest
<1>5. ASSUME NEW a \in Addresses, NEW n \in Names, NEW t \in Tokens, LogIn(a, n, t)
      PROVE  SignInv'
  <2>1. Admit(a) /\ Cleared(n) /\ now' = now
        BY <1>5 DEF LogIn
  <2> QED BY <1>5, <2>1, AdmitKeeps, ClearedKeeps, LogInKeeps
<1>6. ASSUME NEW n \in Names, ResetLockout(n) PROVE SignInv'
  <2>1. /\ Cleared(n) /\ now' = now /\ UNCHANGED <<hits, promised, sessions, storedSessions>>
        /\ tickets' \in [Tickets -> Grants] /\ admitted' = admitted
        BY <1>6 DEF ResetLockout, TokenInv
  <2>2. LimiterInv'
        BY <2>1 DEF LimiterInv, Limited, Times
  <2> QED BY <2>1, <2>2, ClearedKeeps, TokensRest
<1>7. ASSUME UNCHANGED <<now, hits, admitted, promised, attempts, lockedUntil>>, TokenInv' PROVE SignInv'
  <2>1. LimiterInv'
        BY <1>7 DEF LimiterInv, Limited, Times
  <2> QED BY <1>7, <2>1, LocksRest
<1>8. ASSUME NEW n \in Names, RevokeSessions(n) PROVE SignInv'
  <2> DEFINE gone == {t \in Tokens : sessions[t] # Gone /\ sessions[t].user = n}
  <2>1. Ended(gone) /\ UNCHANGED <<now, hits, admitted, promised, attempts, lockedUntil>> /\ tickets' = tickets
        BY <1>8 DEF RevokeSessions
  <2>2. gone \in SUBSET Tokens
        OBVIOUS
  <2> HIDE DEF gone
  <2> QED BY <1>7, <2>1, <2>2, EndedKeeps
<1>9. ASSUME NEW t \in Tokens, LogOut(t) PROVE SignInv'
  <2>1. /\ Ended({t}) /\ UNCHANGED <<now, hits, admitted, promised, attempts, lockedUntil>>
        /\ tickets' = tickets /\ {t} \in SUBSET Tokens
        BY <1>9 DEF LogOut
  <2> QED BY <1>7, <2>1, EndedKeeps
<1>10. ASSUME NEW t \in Tokens, Stale(t) PROVE SignInv'
       BY <1>7, <1>10, StaleKeeps DEF Stale
<1>11. ASSUME NEW k \in Tickets, UseTicket(k) \/ \E t \in Tokens : IssueTicket(t, k)
       PROVE  SignInv'
  <2>1. UNCHANGED <<now, hits, admitted, promised, attempts, lockedUntil>>
        BY <1>11 DEF UseTicket, IssueTicket
  <2> QED BY <1>7, <1>11, <2>1, TicketKeeps
<1>12. CASE Reboot
  <2>1. /\ hits' = Untracked /\ admitted' = Untracked
        /\ promised' = [a \in Addresses |-> Gone] /\ now' = now /\ UNCHANGED <<attempts, lockedUntil>>
        BY <1>12 DEF Reboot
  <2>2. now' \in 0..MaxNow
        BY <2>1 DEF LimiterInv
  <2> QED BY <1>12, <2>1, <2>2, FreshLimiter, LocksRest, RebootKeeps
<1>13. CASE UNCHANGED signVars
  <2>1. UNCHANGED <<now, hits, admitted, promised, attempts, lockedUntil, sessions, storedSessions,
                    tickets>>
        BY <1>13 DEF signVars
  <2>2. tickets' \in [Tickets -> Grants]
        BY <2>1 DEF TokenInv
  <2> QED BY <1>7, <2>1, <2>2, TokensRest
<1> QED BY <1>1, <1>2, <1>3, <1>4, <1>5, <1>6, <1>8, <1>9, <1>10, <1>11, <1>12, <1>13
        DEF SignNext

\* The types of the sign-in, for any accounts, addresses, tokens and any limits.
THEOREM SignInTyped == SignSpec => []SignTypeOK
<1>1. SignInv => SignTypeOK
      BY DEF SignInv, LimiterInv, LockInv, TokenInv, SignTypeOK
<1> QED BY SignInitial, SignInductive, <1>1, PTL DEF SignSpec

\* As long as the limiter does not forget an address (in a restart, or for want of room),
\* it admits no more than PerWindow of its attempts in any window, and one that waits as
\* long as it was told is admitted; an account is locked exactly when it has used up its
\* attempts; and a restart brings back no session that was ended: whatever the limits and
\* the lifetimes.
THEOREM SignInHolds == SignSpec => []SignInKeeps
<1>1. SignInv => SignInKeeps
  <2> SUFFICES ASSUME SignInv PROVE SignInKeeps
        OBVIOUS
  <2>1. ASSUME NEW a \in Addresses
        PROVE  /\ \A i \in 1..Len(admitted[a]) - PerWindow :
                    admitted[a][i] + Window <= admitted[a][i + PerWindow]
               /\ promised[a] # Gone /\ now >= promised[a] => ~Exhausted(a)
        BY WaitedEnough DEF LimiterInv, Limited, Traced, SignInv
  <2> QED BY <2>1 DEF SignInKeeps, RateHolds, SignInv, LockInv, TokenInv
<1> QED BY SignInitial, SignInductive, <1>1, PTL DEF SignSpec

-----------------------------------------------------------------------------
(* The contact book. *)

LEMMA BookConstants ==
  NoName \notin People /\ Licensee \in [Calls -> People] /\ MaxRows \in Nat /\ MaxRows >= 1
BY BookAssumption

\* The least place of some.
LEMMA FirstIs ==
  ASSUME NEW n \in Nat, NEW places \in SUBSET (1..n), places # {}
  PROVE  First(places) \in places
<1>1. places \in SUBSET Nat
      OBVIOUS
<1>2. PICK i \in places : \A j \in places : i <= j
      BY <1>1, LeastNat
<1> QED BY <1>2 DEF First

LEMMA NamedIs ==
  ASSUME BookTypeOK, NEW c, NEW m
  PROVE  /\ Len(book) \in Nat /\ Named(c, m) \in SUBSET (1..Len(book)) /\ DOMAIN book = 1..Len(book)
         /\ Named(c, m) # {} => First(Named(c, m)) \in 1..Len(book)
<1>1. book \in Seq(Rows)
      BY DEF BookTypeOK
<1>2. Len(book) \in Nat /\ DOMAIN book = 1..Len(book) /\ Named(c, m) \in SUBSET (1..Len(book))
      BY <1>1 DEF Named
<1> QED BY <1>2, FirstIs

\* A row is replaced in its place.
LEMMA Replaced ==
  ASSUME NEW S, NEW s \in Seq(S), NEW i \in 1..Len(s), NEW e \in S
  PROVE  LET t == [s EXCEPT ![i] = e]
         IN  t \in Seq(S) /\ Len(t) = Len(s) /\ DOMAIN t = DOMAIN s
             /\ t[i] = e /\ \A j \in 1..Len(s) : j # i => t[j] = s[j]
OBVIOUS

LEMMA BookInitial == BookInit => BookTypeOK
<1>1. \A S : <<>> \in Seq(S) /\ Len(<<>>) = 0
      OBVIOUS
<1> QED BY <1>1, BookConstants DEF BookInit, BookTypeOK

LEMMA ListKeeps ==
  ASSUME BookTypeOK, AddContact \/ EditContact \/ DeleteContact PROVE BookTypeOK'
<1>1. book \in Seq(Rows) /\ Len(book) \in Nat /\ Len(book) <= MaxRows
      BY DEF BookTypeOK
<1>2. UNCHANGED <<unverified, pending, tasks, flights>>
      BY DEF AddContact, EditContact, DeleteContact
<1>3. book' \in Seq(Rows) /\ Len(book') <= MaxRows
  <2>1. ASSUME NEW r \in Rows, Len(Added(r)) <= MaxRows, book' = Added(r)
        PROVE  book' \in Seq(Rows) /\ Len(book') <= MaxRows
    <3>1. Append(book, r) \in Seq(Rows)
          BY <1>1
    <3>2. Added(r) \in Seq(Rows)
          BY <3>1, KeptIs DEF Added
    <3> QED BY <2>1, <3>2
  <2>2. CASE EditContact
    <3>1. PICK c \in Calls, old \in People \cup {NoName}, new \in People \cup {NoName}, l \in Labels :
            /\ Named(c, old) # {}
            /\ book' = [book EXCEPT ![First(Named(c, old))].name = new,
                                    ![First(Named(c, old))].place = l]
          BY <2>2, ZenonT(60) DEF EditContact
    <3> DEFINE i == First(Named(c, old))
               e == [book[i] EXCEPT !.name = new, !.place = l]
    <3>2. i \in 1..Len(book)
          BY <3>1, NamedIs
    <3>3. book[i] \in Rows
          BY <1>1, <3>2
    <3>4. e \in Rows
          BY <3>3 DEF Rows
    <3>5. book' = [book EXCEPT ![i] = e]
          BY <1>1, <3>1, <3>2
    <3> HIDE DEF i, e
    <3> QED BY <1>1, <3>2, <3>4, <3>5, Replaced
  <2>3. CASE DeleteContact
    <3>1. PICK c \in Calls, n \in People \cup {NoName} :
            book' = Kept(book, DOMAIN book \ Named(c, n))
          BY <2>3 DEF DeleteContact
    <3>2. book' \in Seq(Rows) /\ Len(book') <= Len(book)
          BY <1>1, <3>1, KeptIs DEF LeftOf
    <3> QED BY <1>1, <3>2, BookConstants
  <2> QED BY <2>1, <2>2, <2>3 DEF AddContact
<1> QED BY <1>2, <1>3 DEF BookTypeOK

\* A verdict of verify_all comes to a row that has, or gets, the name it is about.
LEMMA Verdict ==
  ASSUME BookTypeOK, VerifyNext
  PROVE  /\ book' \in Seq(Rows) /\ Len(book') = Len(book) /\ unverified' \in Seq(Rows)
         /\ \A i \in 1..Len(book) : book'[i].verified /\ ~book[i].verified
              => book'[i].name = Licensee[book'[i].call]
<1> DEFINE r == Head(unverified)
           is == Named(r.call, r.name)
           k == First(is)
<1>1. book \in Seq(Rows) /\ unverified \in Seq(Rows) /\ unverified # <<>>
      BY DEF BookTypeOK, VerifyNext
<1>2. r \in Rows /\ unverified' \in Seq(Rows)
      BY <1>1 DEF VerifyNext
<1>3. is # {} => k \in 1..Len(book)
      BY NamedIs
<1>4. PICK status \in Answers(r.call, r.name) :
        book' = IF r.verified \/ status \in Unreached \/ is = {} THEN book
                ELSE [book EXCEPT ![k] = Verified(r, status)]
      BY DEF VerifyNext
<1> DEFINE e == Verified(r, status)
<1>5. e \in Rows /\ e.name = r.name /\ e.call = r.call /\ (e.verified => status = "verified")
      BY <1>2 DEF Verified, Rows, Labels
<1>6. status = "verified" => r.name = Licensee[r.call]
      BY DEF Answers
<1> HIDE DEF r, is, k, e
<1>7. CASE book' = book
      BY <1>1, <1>2, <1>7
<1>8. CASE is # {} /\ book' = [book EXCEPT ![k] = e]
  <2>1. k \in 1..Len(book)
        BY <1>3, <1>8
  <2>2. /\ book' \in Seq(Rows) /\ Len(book') = Len(book) /\ book'[k] = e
        /\ \A j \in 1..Len(book) : j # k => book'[j] = book[j]
        BY <1>1, <1>5, <1>8, <2>1, Replaced
  <2>3. ASSUME NEW i \in 1..Len(book), book'[i].verified, ~book[i].verified
        PROVE  book'[i].name = Licensee[book'[i].call]
    <3>1. i = k
          BY <2>2, <2>3
    <3> QED BY <1>5, <1>6, <2>2, <2>3, <3>1
  <2> QED BY <1>2, <2>2, <2>3
<1> QED BY <1>4, <1>7, <1>8 DEF e

LEMMA LookUpsKeep ==
  ASSUME BookTypeOK,
         \/ \E c \in Calls, n \in People \cup {NoName}, reached \in BOOLEAN : Hear(c, n, reached)
         \/ \E i \in DOMAIN flights : Answer(i)
         \/ \E c \in DOMAIN pending : Dismiss({c})
         \/ Dismiss(Calls)
  PROVE  BookTypeOK' /\ UNCHANGED <<book, unverified>>
<1>1. /\ book \in Seq(Rows) /\ Len(book) <= MaxRows /\ unverified \in Seq(Rows)
      /\ DOMAIN pending \subseteq Calls /\ tasks \subseteq Calls /\ flights \in Seq(Calls)
      BY DEF BookTypeOK
<1>2. ASSUME NEW c \in Calls, NEW n \in People \cup {NoName}, NEW reached \in BOOLEAN,
             Hear(c, n, reached)
      PROVE  BookTypeOK' /\ UNCHANGED <<book, unverified>>
  <2>1. DOMAIN pending' \subseteq Calls /\ tasks' \subseteq Calls /\ UNCHANGED <<book, unverified>>
        BY <1>1, <1>2 DEF Hear
  <2>2. flights' = flights \/ flights' = Append(flights, c)
        BY <1>2 DEF Hear
  <2>3. flights' \in Seq(Calls)
        BY <1>1, <2>2, SMTT(60)
  <2> QED BY <1>1, <2>1, <2>3 DEF BookTypeOK
<1>3. ASSUME NEW i \in DOMAIN flights, Answer(i) PROVE BookTypeOK' /\ UNCHANGED <<book, unverified>>
  <2>1. i \in 1..Len(flights) /\ flights' = RemoveAt(flights, i)
        BY <1>1, <1>3 DEF Answer
  <2>2. flights' \in Seq(Calls)
        BY <1>1, <2>1, RemoveAtIs
  <2>3. tasks' \subseteq Calls /\ UNCHANGED <<book, unverified>> /\ DOMAIN pending' = DOMAIN pending
        BY <1>1, <1>3 DEF Answer
  <2> QED BY <1>1, <2>2, <2>3 DEF BookTypeOK
<1>4. ASSUME NEW cs, Dismiss(cs) PROVE BookTypeOK' /\ UNCHANGED <<book, unverified>>
      BY <1>1, <1>4 DEF Dismiss, BookTypeOK
<1> QED BY <1>2, <1>3, <1>4

LEMMA BookInductive == BookTypeOK /\ [BookNext]_bookVars => BookTypeOK'
<1> SUFFICES ASSUME BookTypeOK, [BookNext]_bookVars PROVE BookTypeOK'
      OBVIOUS
<1>1. CASE StartVerifyAll
      BY <1>1 DEF StartVerifyAll, BookTypeOK
<1>2. CASE VerifyNext
  <2>1. Len(book') <= MaxRows /\ UNCHANGED <<pending, tasks, flights>>
        BY <1>2, Verdict DEF VerifyNext, BookTypeOK
  <2> QED BY <1>2, <2>1, Verdict DEF BookTypeOK
<1>3. CASE UNCHANGED bookVars
      BY <1>3 DEF bookVars, BookTypeOK
<1> QED BY <1>1, <1>2, <1>3, ListKeeps, LookUpsKeep DEF BookNext

\* The types of the contact book, for any contacts and any bound on the list.
THEOREM BookTyped == BookSpec => []BookTypeOK
BY BookInitial, BookInductive, PTL DEF BookSpec

\* A contact is marked as verified only under the name its licence is held in, whatever is
\* renamed, replaced or deleted while verify_all goes through its copy of the list.
THEOREM BadgesEarned == BookSpec => BadgeIsEarned
<1>1. BookTypeOK /\ [BookNext]_bookVars
        => [Len(unverified') < Len(unverified) => \A i \in DOMAIN book' :
              book'[i].verified /\ ~book[i].verified
                => book'[i].name = Licensee[book'[i].call]]_bookVars
  <2> SUFFICES ASSUME BookTypeOK, BookNext, Len(unverified') < Len(unverified),
                      NEW i \in DOMAIN book', book'[i].verified, ~book[i].verified
               PROVE  book'[i].name = Licensee[book'[i].call]
        OBVIOUS
  <2>1. Len(unverified) \in Nat
        BY DEF BookTypeOK
  <2>2. unverified' # unverified /\ ~(unverified = <<>> /\ Len(unverified') >= 0)
    <3>1. unverified' # unverified
          BY <2>1
    <3>2. unverified = <<>> => Len(unverified) = 0
          OBVIOUS
    <3> QED BY <2>1, <3>1, <3>2
  <2>3. CASE VerifyNext
    <3>1. DOMAIN book' = 1..Len(book)
          BY <2>3, Verdict
    <3> QED BY <2>3, <3>1, Verdict
  <2>4. CASE StartVerifyAll
    <3>1. unverified' \in Seq(Rows) /\ unverified = <<>>
          BY <2>4 DEF StartVerifyAll, BookTypeOK
    <3>2. Len(unverified') >= 0
          BY <3>1
    <3> QED BY <2>2, <3>1, <3>2
  <2>5. CASE AddContact \/ EditContact \/ DeleteContact
        BY <2>2, <2>5 DEF AddContact, EditContact, DeleteContact
  <2> QED BY <2>2, <2>3, <2>4, <2>5, LookUpsKeep DEF BookNext
<1> QED BY BookInitial, BookInductive, <1>1, PTL DEF BookSpec, BadgeIsEarned

-----------------------------------------------------------------------------
(* All five. *)

PeopleInv == HubInv /\ AccInv /\ FamInv /\ BookTypeOK /\ SignInv

\* One component moves, the others rest.
LEMMA EachMovesOrRests ==
  ASSUME [PeopleNext]_<<part, hubVars, accVars, famVars, bookVars, signVars>>
  PROVE  /\ [HubNext]_hubVars /\ [AccNext]_accVars /\ [FamNext]_famVars
         /\ [BookNext]_bookVars /\ [SignNext]_signVars
<1>1. CASE PeopleNext
      BY <1>1 DEF PeopleNext, HubStep, AccStep, FamStep, BookStep, SignStep
<1>2. CASE UNCHANGED <<part, hubVars, accVars, famVars, bookVars, signVars>>
      BY <1>2
<1> QED BY <1>1, <1>2

\* The types of the five components, in the instance that runs them one at a time.
THEOREM PeopleTyped == PeopleSpec => []PeopleTypeOK
<1>1. PeopleInit => PeopleInv
      BY HubInitial, InitInv, FamInitial, BookInitial, SignInitial DEF PeopleInit, PeopleInv
<1>2. PeopleInv /\ [PeopleNext]_<<part, hubVars, accVars, famVars, bookVars, signVars>> => PeopleInv'
      BY EachMovesOrRests, HubInductive, NextInv, FamInductive, BookInductive, SignInductive
         DEF PeopleInv
<1>3. PeopleInv => PeopleTypeOK
  <2>1. HubInv => HubTypeOK
        BY DEF HubInv, HubTypeOK, HubShape, LogsOK, Log
  <2>2. SignInv => SignTypeOK
        BY DEF SignInv, LimiterInv, LockInv, TokenInv, SignTypeOK
  <2>3. AccInv => AccTypeOK
        BY DEF AccInv
  <2>4. FamInv => FamTypeOK
        BY DEF FamInv
  <2> QED BY <2>1, <2>2, <2>3, <2>4 DEF PeopleInv, PeopleTypeOK
<1> QED BY <1>1, <1>2, <1>3, PTL DEF PeopleSpec
=============================================================================
