------------------------------ MODULE Settings ------------------------------
(***************************************************************************)
(* How a change of the settings, or of the words the recognizer is biased  *)
(* towards, reaches the receiver that is running (server.py, stt/worker.py).*)
(*                                                                         *)
(* A change is written into _config by the socket that asked for it; the   *)
(* socket then tells every browser, which suspends it, and only afterwards *)
(* looks at the worker and LISTEN and restarts or does not.  A worker is   *)
(* built from _config as it is when it is built.  A change of words is     *)
(* pushed into the worker that is running, whose thread may at that moment *)
(* be making a prompt of the words it read before.                         *)
(*                                                                         *)
(* Settings and words are counted: version 2 is what the second change     *)
(* made of them.  SttControl has the overlap of the workers themselves;    *)
(* here there is only the one that _stt_worker names.                      *)
(***************************************************************************)
EXTENDS Naturals

CONSTANTS
  Clients,       \* the sockets: each handles one message at a time
  MaxEdits       \* bound of the model: changes of the settings, and of the words

ASSUME SettingsAssumption == MaxEdits \in Nat

Tiers == {"fast", "second"}  \* Whisper's quick pass and the second pass over whole utterances

VARIABLES
  wanted,        \* version of the worker's settings in _config
  words,         \* version of the saved phrases and contact callsigns
  listens,       \* _stt_listening
  engine,        \* the worker _stt_worker names, with what it was built from
  doing,         \* doing[c]: what the handler of socket c waits for
  missed         \* history: what the running worker could not be told of

setVars == <<wanted, words, listens, engine, doing, missed>>

\* A prompt that no thread has begun to make.
Unmade == [step |-> "unread", of |-> 0]

\* _make_stt_worker: everything is read from _config, the settings s, at this moment.
Made(s) == [present |-> TRUE, settings |-> s, list |-> words,
            prompt |-> [t \in Tiers |-> Unmade]]

SetInit ==
  /\ wanted = 0 /\ words = 0 /\ listens = TRUE
  /\ engine = Made(wanted)
  /\ doing = [c \in Clients |-> "nothing"]
  /\ missed = {}

(***************************************************************************)
(* Words: _assemble_stt_phrases and STTWorker.update_phrases.  The list is *)
(* replaced, and the prompts that exist are made again.  A prompt that a   *)
(* thread is still making will be stored over it: the change missed it.    *)
(***************************************************************************)
\* mutant of Biased: the prompts are made again but the list is left as it was
BiasedPromptsOnly(e, w) ==
  [e EXCEPT !.prompt = [t \in Tiers |-> IF @[t].step = "made" THEN [@[t] EXCEPT !.of = w] ELSE @[t]]]

Biased(e, w) ==
  [e EXCEPT !.list = w,
            !.prompt = [t \in Tiers |-> IF @[t].step = "made" THEN [@[t] EXCEPT !.of = w] ELSE @[t]]]

Making == {t \in Tiers : engine.prompt[t].step = "read"}

\* _rebuild_stt_vocabulary, when the words are w: nothing to do without a worker.
RebuildVocabulary(w) ==
  /\ engine' = IF engine.present THEN Biased(engine, w) ELSE engine
  /\ missed' = IF engine.present THEN (missed \ Tiers) \cup Making ELSE missed

\* A worker's thread takes the list, and later stores the prompt it made of it.
ReadList(t) ==
  /\ engine.present /\ engine.prompt[t].step = "unread"
  /\ t = "second" => engine.prompt["fast"].step = "made"
  /\ engine' = [engine EXCEPT !.prompt[t] = [step |-> "read", of |-> engine.list]]
  /\ UNCHANGED <<wanted, words, listens, doing, missed>>

StorePrompt(t) ==
  /\ engine.present /\ engine.prompt[t].step = "read"
  /\ engine' = [engine EXCEPT !.prompt[t].step = "made"]
  /\ UNCHANGED <<wanted, words, listens, doing, missed>>

(***************************************************************************)
(* Settings.                                                               *)
(***************************************************************************)
\* mutant of Replaced: the worker that was stopped is started again
ReplacedBySame == engine' = [engine EXCEPT !.present = TRUE] /\ missed' = {}

\* A worker built of what _config says now: nothing is missed any more.
Replaced == engine' = Made(wanted) /\ missed' = {}

\* set_server_config: new phrases are pushed at once, then the file is written; a write
\* that fails ends the handler, and its socket, before anyone is told.
SetServerConfig(c) ==
  /\ doing[c] = "nothing"
  /\ \E setting, phrases, written \in BOOLEAN :
       /\ setting => wanted < MaxEdits
       /\ phrases => words < MaxEdits
       /\ setting \/ phrases
       /\ wanted' = IF setting THEN wanted + 1 ELSE wanted
       /\ words' = IF phrases THEN words + 1 ELSE words
       /\ engine' = IF phrases /\ engine.present THEN Biased(engine, words + 1) ELSE engine
       /\ missed' = (IF phrases /\ engine.present THEN (missed \ Tiers) \cup Making ELSE missed)
                    \cup (IF setting /\ ~written THEN {"settings"} ELSE {})
       /\ doing' = [doing EXCEPT ![c] = IF setting /\ written THEN "telling" ELSE "nothing"]
  /\ UNCHANGED listens

\* set_admin_config: of what it changes only the mode of reception concerns the worker.
SetAdminConfig(c) ==
  /\ doing[c] = "nothing" /\ wanted < MaxEdits
  /\ wanted' = wanted + 1
  /\ \E written \in BOOLEAN :
       /\ doing' = [doing EXCEPT ![c] = IF written THEN "telling" ELSE "nothing"]
       /\ missed' = IF written THEN missed ELSE missed \cup {"settings"}
  /\ UNCHANGED <<words, listens, engine>>

\* The browsers and the plugins have been told: restart, if there is a worker and it listens.
Told(c) ==
  /\ doing[c] = "telling"
  /\ doing' = [doing EXCEPT ![c] = IF engine.present /\ listens THEN "joining" ELSE "nothing"]
  /\ missed' = IF engine.present /\ ~listens THEN missed \cup {"settings"} ELSE missed
  /\ UNCHANGED <<wanted, words, listens, engine>>

\* set_input_device restarts the worker whether it listens or not, and builds one at once
\* where a re-scan has left none.
SetInputDevice(c) ==
  /\ doing[c] = "nothing" /\ wanted < MaxEdits
  /\ wanted' = wanted + 1
  /\ \/ /\ engine.present
        /\ doing' = [doing EXCEPT ![c] = "joining"]
        /\ UNCHANGED <<engine, missed>>
     \/ /\ ~engine.present
        /\ engine' = Made(wanted + 1) /\ missed' = {}
        /\ UNCHANGED doing
     \/ /\ missed' = missed \cup {"settings"}   \* the file could not be written
        /\ UNCHANGED <<engine, doing>>
  /\ UNCHANGED <<words, listens>>

\* The old worker is joined: a new one is built and started.
Rebuilt(c) ==
  /\ doing[c] = "joining"
  /\ Replaced
  /\ doing' = [doing EXCEPT ![c] = "nothing"]
  /\ UNCHANGED <<wanted, words, listens>>

\* _refresh_devices: between the join and the end of the re-scan there is no worker; a
\* refresh that finds none builds none.
RefreshDevices(c) ==
  /\ doing[c] = "nothing" /\ engine.present
  /\ doing' = [doing EXCEPT ![c] = "leaving"]
  /\ UNCHANGED <<wanted, words, listens, engine, missed>>

Left(c) ==
  /\ doing[c] = "leaving"
  /\ engine' = [engine EXCEPT !.present = FALSE]
  /\ doing' = [doing EXCEPT ![c] = "scanning"]
  /\ UNCHANGED <<wanted, words, listens, missed>>

Found(c) ==
  /\ doing[c] = "scanning"
  /\ Replaced
  /\ doing' = [doing EXCEPT ![c] = "nothing"]
  /\ UNCHANGED <<wanted, words, listens>>

\* add_contact, update_contact, delete_contact: stored, told to everyone, then the words.
EditContact(c) ==
  /\ doing[c] = "nothing" /\ words < MaxEdits
  /\ words' = words + 1
  /\ doing' = [doing EXCEPT ![c] = "contact"]
  /\ UNCHANGED <<wanted, listens, engine, missed>>

ContactTold(c) ==
  /\ doing[c] = "contact"
  /\ RebuildVocabulary(words)
  /\ doing' = [doing EXCEPT ![c] = "nothing"]
  /\ UNCHANGED <<wanted, words, listens>>

RescanVocabulary(c) ==
  /\ doing[c] = "nothing"
  /\ RebuildVocabulary(words)
  /\ UNCHANGED <<wanted, words, listens, doing>>

SetListening ==
  /\ listens' = ~listens
  /\ UNCHANGED <<wanted, words, engine, doing, missed>>

SetNext ==
  \/ \E c \in Clients : \/ SetServerConfig(c) \/ SetAdminConfig(c) \/ Told(c)
                        \/ SetInputDevice(c) \/ Rebuilt(c)
                        \/ RefreshDevices(c) \/ Left(c) \/ Found(c)
                        \/ EditContact(c) \/ ContactTold(c) \/ RescanVocabulary(c)
  \/ \E t \in Tiers : ReadList(t) \/ StorePrompt(t)
  \/ SetListening

SetSpec == SetInit /\ [][SetNext]_setVars

(***************************************************************************)
(* Properties.                                                             *)
(***************************************************************************)
SetTypeOK ==
  /\ wanted \in 0..MaxEdits /\ words \in 0..MaxEdits /\ listens \in BOOLEAN
  /\ engine \in [present : BOOLEAN, settings : 0..MaxEdits, list : 0..MaxEdits,
                 prompt : [Tiers -> [step : {"unread", "read", "made"}, of : 0..MaxEdits]]]
  /\ doing \in [Clients -> {"nothing", "telling", "joining", "leaving", "scanning", "contact"}]
  /\ missed \subseteq Tiers \cup {"settings"}

\* Once every handler has finished there is a worker, and it runs with the settings that
\* were asked for last, however the handlers overlapped; unless the last change met LISTEN
\* off or could not be written.
SettingsApplied ==
  (\A c \in Clients : doing[c] = "nothing") =>
    engine.present /\ (engine.settings = wanted \/ "settings" \in missed)

\* With no contact on its way, each tier is biased towards the words of now, unless they
\* changed between its reading of the list and its storing of the prompt.
WordsApplied ==
  (engine.present /\ \A c \in Clients : doing[c] # "contact") =>
    /\ engine.list = words
    /\ \A t \in Tiers \ missed : engine.prompt[t].step = "made" => engine.prompt[t].of = words

SettingsHold == SettingsApplied /\ WordsApplied
=============================================================================
