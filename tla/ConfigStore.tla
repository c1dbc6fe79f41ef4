----------------------------- MODULE ConfigStore -----------------------------
(***************************************************************************)
(* The global configuration (internal/config, and `vc config set` and      *)
(* `vc setup --qemu-dir` in internal/cli): one JSON file that an           *)
(* invocation reads whole when it starts, changes one key of in memory,    *)
(* and saves whole, with no lock.                                          *)
(*                                                                         *)
(* A field at its zero value stands for "not set", in the file and in the  *)
(* struct alike, so Unset is a value that a text key may be given.         *)
(***************************************************************************)
CONSTANTS
  Setters,   \* invocations of vc
  Keys,      \* the keys of the configuration that are modelled
  TextKeys,  \* those that take any text: not the counts, and not the proxy mode
  Values,    \* values that any key takes
  BadValue,  \* one that only a text key takes
  DefaultOf, \* per key: what Defaults has for it
  Unset      \* the zero value

ASSUME ConfigAssumption ==
  /\ TextKeys \subseteq Keys
  /\ Unset \notin Values /\ BadValue \notin Values /\ BadValue # Unset
  /\ DefaultOf \in [Keys -> Values \union {Unset}]

VARIABLES
  config,  \* per key: the field in the file (a missing file has nothing set)
  setter   \* per invocation: the step it is at, its Cfg, and what it was asked

configVars == <<config, setter>>

Config == [Keys -> Values \union {BadValue, Unset}]
Resting == [at |-> "idle", cfg |-> DefaultOf, key |-> Unset, val |-> Unset,
            raced |-> {}]

\* raced, which no code has: the keys that others have saved since this one's read.
ConfigTypeOK ==
  /\ config \in Config
  /\ setter \in [Setters ->
       [at : {"idle", "apply", "save"}, cfg : Config, key : Keys \union {Unset},
        val : Values \union {BadValue, Unset}, raced : SUBSET Keys]]

ConfigInit ==
  /\ config = [k \in Keys |-> Unset]
  /\ setter = [p \in Setters |-> Resting]

\* merge(Defaults(), onDisk): a field that is set overrides its default.
Merge(onDisk) ==
  [k \in Keys |-> IF onDisk[k] = Unset THEN DefaultOf[k] ELSE onDisk[k]]

\* What applyConfig accepts for a key.
Accepts(key, val) == key \in TextKeys \/ val \in Values

\* Mutant of Load: the file is not read by a command that is about to write it.
LoadDefaults(p, key, val) ==
  /\ setter[p].at = "idle"
  /\ setter' = [setter EXCEPT ![p] =
       [at |-> "apply", cfg |-> DefaultOf, key |-> key, val |-> val, raced |-> {}]]
  /\ UNCHANGED config

\* app.New loads the configuration.
Load(p, key, val) ==
  /\ setter[p].at = "idle"
  /\ setter' = [setter EXCEPT ![p] =
       [at |-> "apply", cfg |-> Merge(config), key |-> key, val |-> val, raced |-> {}]]
  /\ UNCHANGED config

\* applyConfig; `vc setup` first looks for QEMU where it is told to, and may fail too.
Apply(p) ==
  /\ setter[p].at = "apply"
  /\ IF Accepts(setter[p].key, setter[p].val)
     THEN setter' = [setter EXCEPT ![p] =
            [setter[p] EXCEPT !.at = "save",
                              !.cfg = [setter[p].cfg EXCEPT ![setter[p].key] = setter[p].val]]]
     ELSE setter' = [setter EXCEPT ![p] = Resting]
  /\ UNCHANGED config

\* config.Save: the whole struct, atomically, which leaves a key out if it is at its
\* zero value or writes the zero.
SaveConfig(p) ==
  /\ setter[p].at = "save"
  /\ config' = setter[p].cfg
  /\ setter' = [q \in Setters |->
       IF q = p THEN Resting
       ELSE IF setter[q].at = "idle" THEN setter[q]
       ELSE [setter[q] EXCEPT !.raced = @ \union {setter[p].key} \union setter[p].raced]]

\* The invocation fails or dies.
GiveUp(p) ==
  /\ setter[p].at # "idle"
  /\ setter' = [setter EXCEPT ![p] = Resting]
  /\ UNCHANGED config

ConfigNext ==
  \E p \in Setters :
    \/ \E key \in Keys, val \in Values \union {BadValue, Unset} : Load(p, key, val)
    \/ Apply(p) \/ SaveConfig(p) \/ GiveUp(p)

ConfigSpec == ConfigInit /\ [][ConfigNext]_configVars

-----------------------------------------------------------------------------
\* A `config set` makes the key what it was asked to be (or its default, asked for
\* nothing), and changes no other key that nobody set while it was at work: of two at
\* once one may be lost, but never one that had returned before the other began.
SetsOneKey ==
  [][\A p \in Setters :
       (setter[p].at = "save" /\ setter'[p].at = "idle" /\ config' # config) =>
         LET key == setter[p].key
             val == setter[p].val
         IN  /\ Merge(config')[key] = IF val = Unset THEN DefaultOf[key] ELSE val
             /\ \A k \in Keys \ (setter[p].raced \union {key}) :
                  Merge(config')[k] = Merge(config)[k]]_configVars

=============================================================================
