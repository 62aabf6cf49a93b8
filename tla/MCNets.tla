------------------------------- MODULE MCNets -------------------------------
(***************************************************************************)
(* Model-checking instance of ten components that share no state: a        *)
(* behaviour is one of any of them, and the others rest in their initial   *)
(* state.  So their state spaces add up in one run.  Where the parts of a  *)
(* component hardly meet it is run twice, each time with another part of   *)
(* it bounded: Bounds says how.                                            *)
(***************************************************************************)
EXTENDS NeighborhoodNet, NetRecords, NetControl, Positions, Plugins,
        AudioTaps, SpectroRing, Settings, CwLoop, Morse

Signs == {<<"dit">>, <<"dah">>, <<"dit", "dah">>, <<"dah", "dah">>}
Known == Signs \ {<<"dah", "dah">>}
Short == <<<<<<"dit">>>>>>

VARIABLE part

NetsInit ==
  /\ part \in {"accounts", "neighborhood", "records", "incidents", "ncs", "break", "positions",
              "plugins", "taps", "spectrogram", "settings", "cw", "morse"}
  /\ NbrInit /\ RecInit /\ NcsInit /\ PosInit
  /\ IF part # "plugins" THEN folders = {} /\ switches = {} ELSE TRUE
  /\ params = [p \in Plugs |-> CHOOSE to \in Params : TRUE]
  /\ PlugInit
  /\ IF part # "taps" THEN tap = FALSE ELSE TRUE
  /\ TapsInit /\ RingInit /\ SetInit /\ CwInit
  /\ IF part # "morse" THEN message = Short /\ speed = 1 ELSE TRUE
  /\ MorseInit
  /\ part # "morse" => keyed[Len(keyed)].length = 1

\* A board of accounts, or one look-up on the whole board; what is published, or the
\* incidents; two nets, or BREAK BREAK and what passes the gate during one; the parameters
\* of one plugin change.
Bounds ==
  /\ part = "accounts" => \A c \in RadioCalls : row'[c] = NoRow
  /\ part = "neighborhood" => started' <= 1
  /\ part = "records" => reported' = {}
  /\ part = "incidents" => manifest' = <<>>
  /\ part = "ncs" => /\ breaking' = {} /\ seenAlerts' = {}
                     /\ \A i \in Direct \cup {Beacon} : tx'[i] = "none"
  /\ part = "break" => net' <= 1
  /\ part = "plugins" => \A p \in Plugs : params'[p] # params[p] => p = CHOOSE q \in Plugs : TRUE

NbrStep ==
  /\ part \in {"neighborhood", "accounts"} /\ NbrNext
  /\ UNCHANGED <<recVars, ncsVars, posVars, plugVars, tapsVars, ringVars, setVars, cwVars, morseVars>>
RecStep ==
  /\ part \in {"records", "incidents"} /\ RecNext
  /\ UNCHANGED <<nbrVars, ncsVars, posVars, plugVars, tapsVars, ringVars, setVars, cwVars, morseVars>>
NcsStep ==
  /\ part \in {"ncs", "break"} /\ NcsNext
  /\ UNCHANGED <<nbrVars, recVars, posVars, plugVars, tapsVars, ringVars, setVars, cwVars, morseVars>>
PosStep ==
  /\ part = "positions" /\ PosNext
  /\ UNCHANGED <<nbrVars, recVars, ncsVars, plugVars, tapsVars, ringVars, setVars, cwVars, morseVars>>
PlugStep ==
  /\ part = "plugins" /\ PlugNext
  /\ UNCHANGED <<nbrVars, recVars, ncsVars, posVars, tapsVars, ringVars, setVars, cwVars, morseVars>>
TapsStep ==
  /\ part = "taps" /\ TapsNext
  /\ UNCHANGED <<nbrVars, recVars, ncsVars, posVars, plugVars, ringVars, setVars, cwVars, morseVars>>
RingStep ==
  /\ part = "spectrogram" /\ RingNext
  /\ UNCHANGED <<nbrVars, recVars, ncsVars, posVars, plugVars, tapsVars, setVars, cwVars, morseVars>>
SetStep ==
  /\ part = "settings" /\ SetNext
  /\ UNCHANGED <<nbrVars, recVars, ncsVars, posVars, plugVars, tapsVars, ringVars, cwVars, morseVars>>
CwStep ==
  /\ part = "cw" /\ CwNext
  /\ UNCHANGED <<nbrVars, recVars, ncsVars, posVars, plugVars, tapsVars, ringVars, setVars, morseVars>>
MorseStep ==
  /\ part = "morse" /\ MorseNext
  /\ UNCHANGED <<nbrVars, recVars, ncsVars, posVars, plugVars, tapsVars, ringVars, setVars, cwVars>>

NetsNext ==
  /\ \/ NbrStep \/ RecStep \/ NcsStep \/ PosStep \/ PlugStep
     \/ TapsStep \/ RingStep \/ SetStep \/ CwStep \/ MorseStep
  /\ Bounds /\ UNCHANGED part

NetsSpec ==
  NetsInit /\ [][NetsNext]_<<part, nbrVars, recVars, ncsVars, posVars, plugVars,
                           tapsVars, ringVars, setVars, cwVars, morseVars>>

\* Types of the ten; a component that rests is in an initial state of its own.
NetsTypeOK ==
  /\ part \in {"neighborhood", "accounts"} => NbrTypeOK
  /\ part \in {"records", "incidents"} => RecTypeOK
  /\ part \in {"ncs", "break"} => NcsTypeOK
  /\ part = "positions" => PosTypeOK
  /\ part = "plugins" => PlugTypeOK
  /\ part = "taps" => TapsTypeOK
  /\ part = "spectrogram" => RingTypeOK
  /\ part = "settings" => SetTypeOK
  /\ part = "cw" => CwTypeOK
  /\ part = "morse" => MorseTypeOK

\* The receive side: the monitor keeps up with the channel and plays nothing stale, a
\* calibration hears it whole (AudioTaps), the waterfall shows unbroken frames in order
\* (SpectroRing), the worker runs with the settings and words last asked for (Settings), and
\* Morse is collected transmission by transmission (CwLoop).
ReceiverSound == TapsSound /\ RingTrue /\ SettingsHold /\ CwSound

Symmetry == Permutations(Breaks)  \* Breaks = Handlers in the cfg
=============================================================================
