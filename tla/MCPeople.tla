------------------------------ MODULE MCPeople ------------------------------
(***************************************************************************)
(* Model-checking instance of five components that share no state: a       *)
(* behaviour is one of any of them, and the others rest in their initial   *)
(* state.  So their state spaces add up in one run.  Where the parts of a  *)
(* component hardly meet it is run twice, each time with another part of   *)
(* it bounded: Bounds says how.                                            *)
(***************************************************************************)
EXTENDS StreamHub, Accounts, FamilyBoard, ContactBook, SignIn

CONSTANT Owner
OwnLicence == [c \in Calls |-> Owner]

VARIABLE part

PeopleInit ==
  /\ part \in {"hub", "clears", "accounts", "displays", "family", "contacts", "stations", "sign-in"}
  /\ HubInit /\ AccInit /\ FamInit /\ BookInit /\ SignInit

\* Three messages or a clear of the chat; two accounts or a display beside one;
\* two contacts or stations waiting to become one.
Bounds ==
  /\ part = "hub" => clears' = 0
  /\ part = "clears" => Cardinality(begun') <= 2
  /\ part = "accounts" => panels' = {}
  /\ part = "displays" => Cardinality({u \in Users : roster'[u] # Nobody}) <= 1
  /\ part = "contacts" => DOMAIN pending' = {}
  /\ part = "stations" => Len(book') <= 1

HubStep ==
  /\ part \in {"hub", "clears"} /\ HubNext
  /\ UNCHANGED <<accVars, famVars, bookVars, signVars>>
AccStep ==
  /\ part \in {"accounts", "displays"} /\ AccNext
  /\ UNCHANGED <<hubVars, famVars, bookVars, signVars>>
FamStep == part = "family" /\ FamNext /\ UNCHANGED <<hubVars, accVars, bookVars, signVars>>
BookStep ==
  /\ part \in {"contacts", "stations"} /\ BookNext
  /\ UNCHANGED <<hubVars, accVars, famVars, signVars>>
SignStep == part = "sign-in" /\ SignNext /\ UNCHANGED <<hubVars, accVars, famVars, bookVars>>

PeopleNext ==
  /\ HubStep \/ AccStep \/ FamStep \/ BookStep \/ SignStep
  /\ Bounds /\ UNCHANGED part

PeopleSpec == PeopleInit /\ [][PeopleNext]_<<part, hubVars, accVars, famVars, bookVars, signVars>>

\* Types of the five; a component that rests is in an initial state of its own.
PeopleTypeOK ==
  /\ part \in {"hub", "clears"} => HubTypeOK
  /\ part \in {"accounts", "displays"} => AccTypeOK
  /\ part = "family" => FamTypeOK
  /\ part \in {"contacts", "stations"} => BookTypeOK
  /\ part = "sign-in" => SignTypeOK

Symmetry == Permutations(Sockets) \cup Permutations(Users)  \* Sockets = Conns in the cfg
=============================================================================
