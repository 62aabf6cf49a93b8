-------------------------------- MODULE Morse --------------------------------
(***************************************************************************)
(* CWDecoder._timing_decode (cw/decoder.py), run by run, on a signal keyed *)
(* with exact timing: a dah is three dits, the gaps are one, three and     *)
(* seven.  The filters before it are numeric and left out: the runs are    *)
(* what they are to deliver.  A length is a number of samples.             *)
(*                                                                         *)
(* The sender's speed is not known, so the decoder takes the 33rd          *)
(* percentile of the key-down lengths for a dit.                           *)
(***************************************************************************)
EXTENDS Integers, Sequences, FiniteSets, SequencesExt

CONSTANTS
  Letters,       \* sequences of "dit" and "dah"
  Table,         \* those of them _MORSE_TABLE knows
  Speeds,        \* samples of a dit
  MinDit,        \* below that the decoder gives up
  MaxLetters,    \* bound of the model: letters of a word
  MaxWords       \* bound of the model: words of a transmission

ASSUME MorseAssumption ==
  /\ Letters \subseteq Seq({"dit", "dah"}) \ {<<>>} /\ Table \subseteq Letters
  /\ Speeds \subseteq Nat \ {0} /\ {MinDit, MaxLetters, MaxWords} \subseteq Nat

Blank == <<"blank">>
Unknown == <<"unknown">>      \* "?"
Silences == {1, 9}            \* dits of quiet at the end: a slow sender's tail is a short gap

Words == BoundedSeq(Letters, MaxLetters) \ {<<>>}
Transmissions == BoundedSeq(Words, MaxWords) \ {<<>>}

VARIABLES
  message, speed, \* what was keyed, and how fast
  keyed,         \* the run lengths of it: [down, length]
  cursor,        \* the run the decoder looks at; 0 while it measures
  symbol,        \* current_symbol
  read           \* result_chars

morseVars == <<message, speed, keyed, cursor, symbol, read>>

-----------------------------------------------------------------------------
(* The signal *)

Down(n) == [down |-> TRUE, length |-> n * speed]
Up(n) == [down |-> FALSE, length |-> n * speed]

\* The sequences of ss one after the other, with gap between two of them.
Joined(ss, gap) ==
  LET upTo[n \in 0..Len(ss)] ==
        IF n = 0 THEN <<>> ELSE IF n = 1 THEN ss[1] ELSE upTo[n - 1] \o <<gap>> \o ss[n]
  IN  upTo[Len(ss)]

Elements(letter) ==
  Joined([n \in DOMAIN letter |-> <<Down(IF letter[n] = "dit" THEN 1 ELSE 3)>>], Up(1))
Keying(word) == Joined([n \in DOMAIN word |-> Elements(word[n])], Up(3))
Signal(text, quiet) == Joined([n \in DOMAIN text |-> Keying(text[n])], Up(7)) \o <<Up(quiet)>>

\* What ought to be read: the letters, with a blank between words.
Read(letter) == IF letter \in Table THEN letter ELSE Unknown
Reference(text) ==
  Joined([n \in DOMAIN text |-> [k \in DOMAIN text[n] |-> Read(text[n][k])]], Blank)

-----------------------------------------------------------------------------
(* The decoder *)

\* on_durations: where the key is down.
Downs == {n \in DOMAIN keyed : keyed[n].down}

\* The k-th of their lengths in increasing order.
Ordered(k) ==
  CHOOSE v \in {keyed[n].length : n \in Downs} :
    /\ Cardinality({n \in Downs : keyed[n].length < v}) < k
    /\ k <= Cardinality({n \in Downs : keyed[n].length <= v})

\* numpy.percentile(on_durations, 33), in hundredths: linear between two neighbours.
Percentile33 ==
  LET place == 33 * (Cardinality(Downs) - 1)
      below == Ordered(place \div 100 + 1)
      above == Ordered(place \div 100 + 2)
  IN  100 * below + (place % 100) * (above - below)

\* length < n * dit_samples
Under(length, n) == 100 * length < n * Percentile33

MorseInit ==
  /\ message \in Transmissions /\ speed \in Speeds
  /\ \E quiet \in Silences : keyed = Signal(message, quiet)
  /\ cursor = 0 /\ symbol = <<>> /\ read = <<>>

\* Fewer than two key-downs, or too short ones, are no Morse.
Decodable == Cardinality(Downs) >= 2 /\ Percentile33 >= 100 * MinDit

Measure ==
  /\ cursor = 0 /\ Decodable
  /\ cursor' = 1
  /\ UNCHANGED <<message, speed, keyed, symbol, read>>

KeyDown ==
  /\ cursor \in DOMAIN keyed /\ keyed[cursor].down
  /\ symbol' = Append(symbol, IF Under(keyed[cursor].length, 2) THEN "dit" ELSE "dah")
  /\ cursor' = cursor + 1
  /\ UNCHANGED <<message, speed, keyed, read>>

\* The letter that is complete, if there is one.
Committed == IF symbol = <<>> THEN read ELSE Append(read, Read(symbol))

\* mutant of AfterGap: a word ends where a letter ends
AfterGapWords(length) == IF Under(length, 2) THEN read ELSE Append(Committed, Blank)

\* A gap: between elements, letters or words.
AfterGap(length) ==
  IF Under(length, 2) THEN read
  ELSE IF Under(length, 5) THEN Committed
  ELSE Append(Committed, Blank)

KeyUp ==
  /\ cursor \in DOMAIN keyed /\ ~keyed[cursor].down
  /\ read' = AfterGap(keyed[cursor].length)
  /\ symbol' = IF Under(keyed[cursor].length, 2) THEN symbol ELSE <<>>
  /\ cursor' = cursor + 1
  /\ UNCHANGED <<message, speed, keyed>>

\* The end: what is left of a letter is committed.
Finish ==
  /\ cursor = Len(keyed) + 1
  /\ read' = Committed /\ symbol' = <<>>
  /\ cursor' = cursor + 1
  /\ UNCHANGED <<message, speed, keyed>>

MorseNext == Measure \/ KeyDown \/ KeyUp \/ Finish

MorseSpec == MorseInit /\ [][MorseNext]_morseVars

MorseTypeOK ==
  /\ cursor \in 0 .. Len(keyed) + 2
  /\ \A n \in DOMAIN read : read[n] \in Table \cup {Blank, Unknown}

-----------------------------------------------------------------------------
\* strip(): no blank at the end.
Stripped(s) == IF s # <<>> /\ Last(s) = Blank THEN Front(s) ELSE s

Dits == Cardinality({n \in Downs : keyed[n].length = speed})

\* At any speed, a transmission of which a third and one more of the elements are dits is
\* read as it was sent.  With fewer dits the percentile may fall on a dah, and does.
ReadAsSent ==
  cursor > Len(keyed) + 1 /\ 3 * Dits >= Cardinality(Downs) + 3 => Stripped(read) = Reference(message)
=============================================================================
