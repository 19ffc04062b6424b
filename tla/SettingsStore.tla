---------------------------- MODULE SettingsStore ----------------------------
(***************************************************************************)
(* settings.json, spacerouter.env and the exported SR_* variables, with    *)
(* everything that writes them: the GUI's store                            *)
(* (gui/config_store.py, gui/api.py), the loader with its migrations       *)
(* (app/settings_loader.py, app/settings_v2.py), the daemon's sync with    *)
(* the coordination server (app/escrow_config_sync.py), and the CLI's      *)
(* wizard, flags and reset (app/main.py).                                  *)
(*                                                                         *)
(* Every writer reads the whole file, changes its field and writes the     *)
(* whole file back; none takes a lock.  A value is the number of the       *)
(* answer it comes from, 0 the default.                                    *)
(***************************************************************************)
EXTENDS Naturals

CONSTANTS
    Gui,            \* threads of the GUI: bridge calls, the hosted daemon
    Cli,            \* a process started from the command line
    NoFile, Torn,   \* a file that is absent, or cannot be parsed
    Open,           \* nothing is promised of a field
    MaxAnswers      \* bound: answers by the operator and the server

Threads == Gui \cup Cli

\* network: mode, host and port advertised; node: port, label, mTLS; claim:
\* auto-claim, which only settings.json knows; rate: what the sync stamps.
Fields == {"wallet", "network", "node", "claim", "rate"}
InEnv  == {"wallet", "network", "node"}   \* what both legacy sources carry
Doc    == [Fields -> 0..MaxAnswers]
Default == [f \in Fields |-> 0]

ASSUME SettingsAssumption ==
    /\ MaxAnswers \in Nat \ {0}
    /\ Gui \cap Cli = {}
    /\ NoFile # Torn /\ {NoFile, Torn} \cap Doc = {} /\ Open \notin 0..MaxAnswers

VARIABLES
    file,           \* settings.json
    env,            \* spacerouter.env
    environ,        \* SR_* of the GUI's process; NoFile when it does not run
    thread,         \* thread[t]: a writer between its load and its replace
    answers,        \* counter of the bound
    answered,       \* the last answer that was acknowledged, per field; Open
                    \* if a writer that had loaded before has overwritten it
    forfeit,        \* fields whose answer the code itself went back on: the
                    \* wizard reset them, or a reset left them in env
    tangled         \* have two saves met in the temporary file?

vars == <<file, env, environ, thread, answers, answered, forfeit, tangled>>
promises == <<answers, answered, forfeit, tangled>>

\* doc is what the writer will save, edit the fields that are new in it, drop
\* those it puts back to their defaults unasked, and stale those that others
\* have changed since it loaded; migrates says that doc is the env file's.
Writer == [pc    : {"idle", "edited", "saving", "retire", "wizard",
                    "removeEnv", "clearEnv"},
           doc   : Doc,
           edit  : SUBSET Fields,
           drop  : SUBSET {"node"},
           stale : SUBSET Fields,
           migrates : BOOLEAN]

Idle == [pc |-> "idle", doc |-> Default, edit |-> {}, drop |-> {},
         stale |-> {}, migrates |-> FALSE]

SettingsTypeOK ==
    /\ file \in Doc \cup {NoFile, Torn}
    /\ {env, environ} \subseteq Doc \cup {NoFile}
    /\ thread \in [Threads -> Writer]
    /\ answers \in 0..MaxAnswers
    /\ answered \in [Fields -> 0..MaxAnswers \cup {Open}]
    /\ forfeit \subseteq Fields
    /\ tangled \in BOOLEAN

\* A new installation, or one of version 1.4 with its env file.
Init ==
    /\ file = NoFile /\ environ = NoFile
    /\ thread = [t \in Threads |-> Idle]
    /\ \/ env = NoFile /\ answers = 0 /\ answered = Default
       \/ /\ env = [f \in Fields |-> IF f \in InEnv THEN 1 ELSE 0]
          /\ answers = 1 /\ answered = env
    /\ forfeit = {} /\ tangled = FALSE

Up(t) == t \in Cli \/ environ # NoFile
At(t, pc) == thread[t].pc = pc
Goto(t, pc) == thread' = [thread EXCEPT ![t].pc = pc]

\* t has read doc's origin and will save doc, in which edit is new.
Begin(t, doc, edit) ==
    thread' = [thread EXCEPT ![t] = [Idle EXCEPT !.pc = "edited", !.doc = doc,
                                                 !.edit = edit]]

-----------------------------------------------------------------------------
(* Loading.                                                                *)

\* Mutant: the environment is taken without a look whether it has anything.
SourceUnseen(t) == IF env # NoFile THEN env ELSE environ

\* Where the settings come from when settings.json does not exist.
Source(t) == IF env # NoFile THEN env
             ELSE IF t \in Gui /\ environ # NoFile THEN environ ELSE Default

\* load_provider_settings without settings.json: migrate the env file, or
\* seed from the environment, or write the defaults.  ConfigStore() migrates
\* before the GUI is up.
BringUp(t) ==
    /\ At(t, "idle") /\ file = NoFile
    /\ Up(t) \/ env # NoFile
    /\ thread' = [thread EXCEPT ![t].pc = "edited", ![t].doc = Source(t),
                                ![t].migrates = (env # NoFile)]
    /\ UNCHANGED <<file, env, environ, promises>>

\* The migrated env file becomes spacerouter.env.migrated.bak.
Retire(t) ==
    /\ At(t, "retire")
    /\ env' = NoFile
    /\ Goto(t, "idle")
    /\ UNCHANGED <<file, environ, promises>>

\* A load that finds the passphrase flag, the key path or the escrow section
\* out of date writes the file back.
Heal(t) ==
    /\ At(t, "idle") /\ file \in Doc
    /\ Begin(t, file, {})
    /\ UNCHANGED <<file, env, environ, promises>>

\* ConfigStore(): the env file has been migrated when the GUI comes up.
Launch ==
    /\ environ = NoFile
    /\ file # NoFile \/ env = NoFile
    /\ environ' = Default
    /\ UNCHANGED <<file, env, thread, promises>>

\* apply_to_env: only values that are set are exported.
ApplyToEnv ==
    /\ environ # NoFile /\ file \in Doc
    /\ environ' = [f \in Fields |-> IF f \in InEnv /\ file[f] # 0
                                    THEN file[f] ELSE environ[f]]
    /\ UNCHANGED <<file, env, thread, promises>>

-----------------------------------------------------------------------------
(* Changing.                                                               *)

Fresh == answers + 1
Ask == answers < MaxAnswers /\ answers' = Fresh
       /\ UNCHANGED <<answered, forfeit, tangled>>

\* A setter of the GUI's store, or the network flags of the command line.
Answer(t, f) ==
    /\ At(t, "idle")
    /\ IF t \in Gui THEN Up(t) /\ f # "rate" /\ file # Torn
                    ELSE f = "network" /\ file \in Doc
    /\ Begin(t, [(IF file = NoFile THEN Default ELSE file) EXCEPT ![f] = Fresh],
             {f})
    /\ Ask
    /\ UNCHANGED <<file, env, environ>>

\* sync_escrow_config_from_coord of a file without stamp and rate: the request
\* lies between the load and the save.
Sync(t) ==
    /\ At(t, "idle") /\ Up(t) /\ file \in Doc
    /\ file["rate"] = 0
    /\ Begin(t, [file EXCEPT !["rate"] = Fresh], {"rate"})
    /\ Ask
    /\ UNCHANGED <<file, env, environ>>

SyncFails(t) ==
    /\ At(t, "edited") /\ thread[t].edit = {"rate"}
    /\ thread' = [thread EXCEPT ![t] = Idle]
    /\ UNCHANGED <<file, env, environ, promises>>

\* _first_run_setup: the answers go to the env file first.  The wallet may be
\* left blank.
WizardWritesEnv(t) ==
    /\ At(t, "idle") /\ t \in Cli /\ file \in Doc
    /\ \E given \in {{"network"}, {"network", "wallet"}} :
        /\ env' = [f \in Fields |->
                     IF f \in given THEN Fresh
                     ELSE IF env = NoFile THEN 0 ELSE env[f]]
        /\ thread' = [thread EXCEPT ![t].pc = "wizard", ![t].edit = given,
                        ![t].doc = [f \in Fields |->
                                      IF f \in given THEN Fresh ELSE 0]]
    /\ Ask
    /\ UNCHANGED <<file, environ>>

\* Mutant: the section the wizard does not ask about is not carried over.
MergedWithoutClaim(doc, edit) ==
    [f \in Fields |-> IF f \in edit \cup {"node", "claim"} \/ file \notin Doc
                      THEN doc[f] ELSE file[f]]

\* _persist_wizard_results: what was answered and the rest of the file, but
\* for the node section, which nobody asked about and which is not kept.
Merged(doc, edit) ==
    [f \in Fields |-> IF f \in edit \cup {"node"} \/ file \notin Doc
                      THEN doc[f] ELSE file[f]]

WizardMerges(t) ==
    /\ At(t, "wizard")
    /\ LET w == thread[t] IN
       thread' = [thread EXCEPT ![t].pc = "edited", ![t].drop = {"node"},
                                ![t].doc = Merged(w.doc, w.edit)]
    /\ UNCHANGED <<file, env, environ, promises>>

-----------------------------------------------------------------------------
(* Settings.save.                                                          *)

\* Two savers meet in the temporary file, whose name is always the same: the
\* worst that comes of it is a file that cannot be parsed, and both replaces
\* are over.  The better outcomes are not followed.
Meeting(t) == \E u \in Threads \ {t} : At(u, "saving")

Tangle(t) ==
    /\ file' = Torn /\ tangled' = TRUE
    /\ thread' = [u \in Threads |-> IF u = t \/ At(u, "saving")
                                    THEN Idle ELSE thread[u]]
    /\ answered' = [f \in Fields |-> Open] /\ forfeit' = {}
    /\ UNCHANGED answers

\* Mutant: the file itself is opened for writing.
OpenInPlace(t) ==
    /\ At(t, "edited")
    /\ IF Meeting(t) THEN Tangle(t)
       ELSE Goto(t, "saving") /\ file' = Torn /\ UNCHANGED promises
    /\ UNCHANGED <<env, environ>>

\* The temporary file is created or emptied, and then written; nobody reads it.
OpenTmp(t) ==
    /\ At(t, "edited")
    /\ IF Meeting(t) THEN Tangle(t)
       ELSE Goto(t, "saving") /\ UNCHANGED <<file, promises>>
    /\ UNCHANGED <<env, environ>>

\* What the others do not know after a save.
Overtaken(w, edit) ==
    IF w.pc \in {"edited", "saving"} THEN [w EXCEPT !.stale = @ \cup (edit \ w.edit)] ELSE w

\* os.replace of the complete temporary file.
Replace(t) ==
    LET w == thread[t] IN
    /\ At(t, "saving")
    /\ file' = w.doc
    /\ thread' = [u \in Threads |->
          IF u # t THEN Overtaken(thread[u], w.edit)
          ELSE [Idle EXCEPT !.pc = IF w.migrates THEN "retire" ELSE "idle"]]
    /\ answered' = [f \in Fields |-> IF f \in w.edit THEN w.doc[f]
                                      ELSE IF f \in w.stale THEN Open
                                      ELSE answered[f]]
    /\ forfeit' = (forfeit \cup w.drop) \ w.edit
    /\ UNCHANGED <<env, environ, answers, tangled>>

-----------------------------------------------------------------------------
(* Resets and crashes.                                                     *)

\* settings.json is unlinked: nothing is promised until the reset is over.
Unlink ==
    /\ file' = NoFile /\ tangled' = FALSE
    /\ answered' = [f \in Fields |-> Open] /\ forfeit' = {}
    /\ UNCHANGED answers

\* A reset that nobody interfered with was to forget everything; left are the
\* fields it did not forget.
ResetOver(t, alone, left) ==
    /\ Goto(t, "idle")
    /\ IF alone /\ file = NoFile /\ \A u \in Threads \ {t} : At(u, "idle")
       THEN answered' = Default /\ forfeit' = left
       ELSE UNCHANGED <<answered, forfeit>>
    /\ UNCHANGED <<file, answers, tangled>>

\* _do_reset: the settings must be readable.
ResetCli(t) ==
    /\ At(t, "idle") /\ t \in Cli /\ file \in Doc
    /\ Unlink /\ Goto(t, "removeEnv")
    /\ UNCHANGED <<env, environ>>

RemoveEnv(t) ==
    /\ At(t, "removeEnv")
    /\ env' = NoFile
    /\ ResetOver(t, environ = NoFile, {})
    /\ UNCHANGED environ

\* fresh_restart: ConfigStore.reset, then the SR_* variables are cleared.
\* The env file stays, so a wizard's answers come back at the next start.
ResetGui(t) ==
    /\ At(t, "idle") /\ t \in Gui /\ Up(t)
    /\ Unlink /\ Goto(t, "clearEnv")
    /\ UNCHANGED <<env, environ>>

ClearEnv(t) ==
    /\ At(t, "clearEnv")
    /\ environ' = Default
    /\ ResetOver(t, TRUE, IF env = NoFile THEN {} ELSE {f \in Fields : env[f] # 0})
    /\ UNCHANGED env

Crash(process) ==
    /\ thread' = [t \in Threads |-> IF t \in process THEN Idle ELSE thread[t]]
    /\ environ' = IF process = Gui THEN NoFile ELSE environ
    /\ UNCHANGED <<file, env, promises>>

-----------------------------------------------------------------------------
Step(t) ==
    \/ BringUp(t) \/ Retire(t) \/ Heal(t)
    \/ \E f \in Fields : Answer(t, f)
    \/ Sync(t) \/ SyncFails(t)
    \/ WizardWritesEnv(t) \/ WizardMerges(t)
    \/ OpenTmp(t) \/ Replace(t)
    \/ ResetCli(t) \/ RemoveEnv(t) \/ ResetGui(t) \/ ClearEnv(t)

Next == \/ \E t \in Threads : Step(t)
        \/ Launch \/ ApplyToEnv \/ Crash(Gui) \/ Crash(Cli)

Spec == Init /\ [][Next]_vars

-----------------------------------------------------------------------------
(* Properties.                                                             *)

\* A crash never costs the file: settings.json can be read unless two saves
\* have met in the temporary file (Settings.save, for every writer).
TornNeedsTwoSavers == file = Torn => tangled

\* What the next start of the node would read.
Effective == IF file # NoFile THEN file ELSE IF env # NoFile THEN env ELSE Default

\* An acknowledged answer is what the next start reads, whichever writers,
\* migrations, resets and crashes came after it, with two kinds of loss: to a
\* writer that loaded before it and saved after it, and to the code's own
\* doing.  The latter are the answers of the node section once a wizard has run
\* again (_persist_wizard_results puts what it did not ask back to defaults),
\* and what fresh_restart leaves in the env file.  (Load and save of every
\* writer, the order of sources in load_provider_settings, the merge of the
\* wizard, the order of steps in migrate_from_env_file and _do_reset.)
AnswersKept ==
    file # Torn =>
        \A f \in Fields \ forfeit : answered[f] \in {Open, Effective[f]}
=============================================================================
