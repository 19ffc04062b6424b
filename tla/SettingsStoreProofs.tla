------------------------- MODULE SettingsStoreProofs -------------------------
(***************************************************************************)
(* Theorems about SettingsStore, for any number of threads and answers.    *)
(***************************************************************************)
EXTENDS SettingsStore, TLAPS

-----------------------------------------------------------------------------
(* What a step does to the rows of the threads.                            *)

LEMMA DefaultDoc == Default \in Doc /\ Idle \in Writer
BY SettingsAssumption DEF Default, Doc, Idle, Writer

LEMMA BeginRow ==
    ASSUME thread \in [Threads -> Writer], NEW t \in Threads, NEW doc \in Doc,
           NEW edit \in SUBSET Fields, Begin(t, doc, edit)
    PROVE  /\ thread' \in [Threads -> Writer]
           /\ thread'[t].pc = "edited" /\ thread'[t].doc = doc
           /\ thread'[t].edit = edit /\ thread'[t].stale = {}
           /\ thread'[t].drop = {}
           /\ \A u \in Threads \ {t} : thread'[u] = thread[u]
<1> DEFINE r == [Idle EXCEPT !.pc = "edited", !.doc = doc, !.edit = edit]
<1>1. /\ r \in Writer /\ r.pc = "edited" /\ r.doc = doc /\ r.edit = edit
      /\ r.stale = {} /\ r.drop = {}
  BY DefaultDoc DEF Idle, Writer
<1>2. thread' = [thread EXCEPT ![t] = r]
  BY DEF Begin
<1> HIDE DEF r
<1> QED BY <1>1, <1>2

LEMMA GotoRow ==
    ASSUME thread \in [Threads -> Writer], NEW t \in Threads,
           NEW pc \in {"idle", "edited", "saving", "retire", "wizard", "removeEnv",
                       "clearEnv"},
           Goto(t, pc)
    PROVE  /\ thread' \in [Threads -> Writer]
           /\ thread'[t].pc = pc /\ thread'[t].doc = thread[t].doc
           /\ thread'[t].edit = thread[t].edit /\ thread'[t].stale = thread[t].stale
           /\ thread'[t].drop = thread[t].drop
           /\ \A u \in Threads \ {t} : thread'[u] = thread[u]
<1> DEFINE r == [thread[t] EXCEPT !.pc = pc]
<1>1. /\ r \in Writer /\ r.pc = pc /\ r.doc = thread[t].doc
      /\ r.edit = thread[t].edit /\ r.stale = thread[t].stale
      /\ r.drop = thread[t].drop
  BY DEF Writer
<1>2. thread' = [thread EXCEPT ![t] = r]
  BY DEF Goto
<1> HIDE DEF r
<1> QED BY <1>1, <1>2

LEMMA SourceDoc ==
    ASSUME SettingsTypeOK, NEW t \in Threads
    PROVE  Source(t) \in Doc
BY DefaultDoc DEF SettingsTypeOK, Source

LEMMA MergedDoc ==
    ASSUME NEW doc \in Doc, NEW edit \in SUBSET Fields
    PROVE  Merged(doc, edit) \in Doc
BY DEF Merged, Doc

-----------------------------------------------------------------------------
(* Type correctness.                                                       *)

\* Everything but the threads.
Rest == /\ file \in Doc \cup {NoFile, Torn}
        /\ env \in Doc \cup {NoFile} /\ environ \in Doc \cup {NoFile}
        /\ answers \in 0..MaxAnswers
        /\ answered \in [Fields -> 0..MaxAnswers \cup {Open}]
        /\ forfeit \subseteq Fields /\ tangled \in BOOLEAN

LEMMA TypeParts == SettingsTypeOK <=> Rest /\ thread \in [Threads -> Writer]
BY DEF SettingsTypeOK, Rest

LEMMA TypePartsNext == SettingsTypeOK' <=> Rest' /\ thread' \in [Threads -> Writer]
BY DEF SettingsTypeOK, Rest

LEMMA AnsweredDoc == \A d \in Doc : d \in [Fields -> 0..MaxAnswers \cup {Open}]
BY DEF Doc

LEMMA InitTypes == Init => SettingsTypeOK
<1> SUFFICES ASSUME Init PROVE Rest /\ thread \in [Threads -> Writer]
  BY TypeParts
<1>1. 0 \in 0..MaxAnswers /\ 1 \in 0..MaxAnswers
  BY SettingsAssumption
<1>2. [f \in Fields |-> IF f \in InEnv THEN 1 ELSE 0] \in Doc
  BY <1>1 DEF Doc
<1> QED BY <1>1, <1>2, DefaultDoc, AnsweredDoc DEF Init, Rest

\* A reset and a meeting of two saves leave rows and promises of their type.
LEMMA TangleType ==
    ASSUME Rest, thread \in [Threads -> Writer], NEW t \in Threads, Tangle(t)
    PROVE  /\ thread' \in [Threads -> Writer] /\ file' = Torn /\ tangled' = TRUE
           /\ \A f \in Fields : answered'[f] = Open
           /\ \A u \in Threads : thread'[u] \in {thread[u], Idle}
           /\ answers' = answers /\ forfeit' = {}
           /\ answered' \in [Fields -> 0..MaxAnswers \cup {Open}]
BY DefaultDoc DEF Tangle

LEMMA FreshType == Rest /\ Ask => Fresh \in 0..MaxAnswers
BY SettingsAssumption DEF Rest, Ask, Fresh

LEMMA FreshDoc ==
    ASSUME Rest, Ask, NEW doc \in Doc, NEW f \in Fields
    PROVE  [doc EXCEPT ![f] = Fresh] \in Doc
BY FreshType DEF Doc

\* The step of a writer that has only loaded.
LEMMA BeginType ==
    ASSUME Rest, thread \in [Threads -> Writer], NEW t \in Threads, NEW doc \in Doc,
           NEW edit \in SUBSET Fields, Begin(t, doc, edit),
           UNCHANGED <<file, env, environ, answered, forfeit, tangled>>, answers' \in 0..MaxAnswers
    PROVE  Rest' /\ thread' \in [Threads -> Writer]
BY BeginRow DEF Rest

LEMMA TypeStep ==
    ASSUME SettingsTypeOK, [Next]_vars
    PROVE  SettingsTypeOK'
<1>. Rest /\ thread \in [Threads -> Writer]
  BY TypeParts
<1> SUFFICES Rest' /\ thread' \in [Threads -> Writer]
  BY TypePartsNext
<1> USE DEF promises
<1>1. ASSUME NEW t \in Threads, BringUp(t) PROVE Rest' /\ thread' \in [Threads -> Writer]
  <2>1. [thread[t] EXCEPT !.pc = "edited", !.doc = Source(t), !.migrates = (env # NoFile)]
          \in Writer
    BY SourceDoc DEF Writer
  <2>2. thread' = [thread EXCEPT ![t] =
          [thread[t] EXCEPT !.pc = "edited", !.doc = Source(t), !.migrates = (env # NoFile)]]
    BY <1>1 DEF BringUp
  <2> QED BY <1>1, <2>1, <2>2 DEF BringUp, Rest
<1>2. ASSUME NEW t \in Threads, Retire(t) PROVE Rest' /\ thread' \in [Threads -> Writer]
  BY <1>2, GotoRow DEF Retire, Rest
<1>3. ASSUME NEW t \in Threads, Heal(t) PROVE Rest' /\ thread' \in [Threads -> Writer]
  BY <1>3, BeginType DEF Heal, Rest
<1>4. ASSUME NEW t \in Threads, NEW f \in Fields, Answer(t, f)
      PROVE Rest' /\ thread' \in [Threads -> Writer]
  <2> DEFINE base == IF file = NoFile THEN Default ELSE file
  <2>1. base \in Doc
    BY <1>4, DefaultDoc DEF Answer, Rest
  <2>2. Begin(t, [base EXCEPT ![f] = Fresh], {f}) /\ Ask
        /\ UNCHANGED <<file, env, environ>>
    BY <1>4 DEF Answer
  <2> HIDE DEF base
  <2>3. [base EXCEPT ![f] = Fresh] \in Doc
    BY <2>1, <2>2, FreshDoc
  <2>4. answers' \in 0..MaxAnswers
    BY <2>2, FreshType DEF Ask
  <2> QED BY <2>2, <2>3, <2>4, BeginType DEF Ask
<1>5. ASSUME NEW t \in Threads, Sync(t) PROVE Rest' /\ thread' \in [Threads -> Writer]
  <2>1. /\ Begin(t, [file EXCEPT !["rate"] = Fresh], {"rate"}) /\ Ask /\ file \in Doc
        /\ UNCHANGED <<file, env, environ>>
    BY <1>5 DEF Sync
  <2>2. "rate" \in Fields
    BY DEF Fields
  <2>3. [file EXCEPT !["rate"] = Fresh] \in Doc
    BY <2>1, <2>2, FreshDoc
  <2>4. answers' \in 0..MaxAnswers
    BY <2>1, FreshType DEF Ask
  <2> QED BY <2>1, <2>2, <2>3, <2>4, BeginType DEF Ask
<1>6. ASSUME NEW t \in Threads, SyncFails(t) PROVE Rest' /\ thread' \in [Threads -> Writer]
  BY <1>6, DefaultDoc DEF SyncFails, Rest
<1>7. ASSUME NEW t \in Threads, WizardWritesEnv(t)
      PROVE Rest' /\ thread' \in [Threads -> Writer]
  <2>1. Ask /\ Fresh \in 0..MaxAnswers /\ 0 \in 0..MaxAnswers
    BY <1>7, FreshType, SettingsAssumption DEF WizardWritesEnv
  <2>2. PICK given \in {{"network"}, {"network", "wallet"}} :
          /\ env' = [f \in Fields |-> IF f \in given THEN Fresh
                                      ELSE IF env = NoFile THEN 0 ELSE env[f]]
          /\ thread' = [thread EXCEPT ![t].pc = "wizard", ![t].edit = given,
                          ![t].doc = [f \in Fields |-> IF f \in given THEN Fresh ELSE 0]]
    BY <1>7 DEF WizardWritesEnv
  <2>3. env' \in Doc
    BY <2>1, <2>2 DEF Doc, Rest
  <2> DEFINE d == [f \in Fields |-> IF f \in given THEN Fresh ELSE 0]
             r == [thread[t] EXCEPT !.pc = "wizard", !.edit = given, !.doc = d]
  <2>4. d \in Doc /\ given \in SUBSET Fields
    BY <2>1 DEF Doc, Fields
  <2>5. thread' = [thread EXCEPT ![t] = r]
    BY <2>2
  <2> HIDE DEF d
  <2>6. r \in Writer
    BY <2>4 DEF Writer
  <2> HIDE DEF r
  <2> QED BY <1>7, <2>1, <2>3, <2>5, <2>6 DEF WizardWritesEnv, Rest, Ask
<1>8. ASSUME NEW t \in Threads, WizardMerges(t)
      PROVE Rest' /\ thread' \in [Threads -> Writer]
  <2>1. thread[t].doc \in Doc /\ thread[t].edit \in SUBSET Fields
    BY DEF Writer
  <2>2. Merged(thread[t].doc, thread[t].edit) \in Doc
    BY <2>1, MergedDoc
  <2> DEFINE r == [thread[t] EXCEPT !.pc = "edited", !.drop = {"node"},
                                    !.doc = Merged(thread[t].doc, thread[t].edit)]
  <2>3. thread' = [thread EXCEPT ![t] = r] /\ UNCHANGED <<file, env, environ, promises>>
    BY <1>8 DEF WizardMerges
  <2>4. r \in Writer
    BY <2>2 DEF Writer
  <2> HIDE DEF r
  <2> QED BY <2>3, <2>4 DEF Rest
<1>9. ASSUME NEW t \in Threads, OpenTmp(t) PROVE Rest' /\ thread' \in [Threads -> Writer]
  BY <1>9, TangleType, GotoRow DEF OpenTmp, Rest
<1>10. ASSUME NEW t \in Threads, Replace(t) PROVE Rest' /\ thread' \in [Threads -> Writer]
  <2>1. thread[t].doc \in Doc
    BY DEF Writer
  <2>2. \A pc \in {"idle", "retire"} : [Idle EXCEPT !.pc = pc] \in Writer
    BY DefaultDoc DEF Writer
  <2>3. \A u \in Threads : Overtaken(thread[u], thread[t].edit) \in Writer
    BY DEF Overtaken, Writer
  <2>4. thread' \in [Threads -> Writer]
    BY <1>10, <2>2, <2>3 DEF Replace
  <2>5. answered' \in [Fields -> 0..MaxAnswers \cup {Open}]
    BY <1>10, <2>1 DEF Replace, Rest, Doc
  <2>6. forfeit' \subseteq Fields
    BY <1>10 DEF Replace, Rest, Writer, Fields
  <2> QED BY <1>10, <2>1, <2>4, <2>5, <2>6 DEF Replace, Rest
<1>11. ASSUME NEW t \in Threads, ResetCli(t) \/ ResetGui(t)
       PROVE Rest' /\ thread' \in [Threads -> Writer]
  <2>1. Unlink /\ UNCHANGED <<env, environ>> /\ (Goto(t, "removeEnv") \/ Goto(t, "clearEnv"))
    BY <1>11 DEF ResetCli, ResetGui
  <2> QED BY <2>1, GotoRow DEF Unlink, Rest
<1>12. ASSUME NEW t \in Threads, RemoveEnv(t) \/ ClearEnv(t)
       PROVE Rest' /\ thread' \in [Threads -> Writer]
  <2>1. /\ Goto(t, "idle") /\ answered' \in {answered, Default}
        /\ UNCHANGED <<file, answers, tangled>> /\ forfeit' \subseteq Fields
        /\ env' \in {env, NoFile} /\ environ' \in {environ, Default}
    BY <1>12 DEF RemoveEnv, ClearEnv, ResetOver, Rest
  <2> QED BY <2>1, GotoRow, DefaultDoc, AnsweredDoc DEF Rest
<1>13. ASSUME Launch PROVE Rest' /\ thread' \in [Threads -> Writer]
  BY <1>13, DefaultDoc DEF Launch, Rest
<1>14. ASSUME ApplyToEnv PROVE Rest' /\ thread' \in [Threads -> Writer]
  <2>1. environ' \in Doc
    BY <1>14 DEF ApplyToEnv, Rest, Doc
  <2> QED BY <1>14, <2>1 DEF ApplyToEnv, Rest
<1>15. ASSUME NEW process, Crash(process) PROVE Rest' /\ thread' \in [Threads -> Writer]
  BY <1>15, DefaultDoc DEF Crash, Rest
<1>16. CASE UNCHANGED vars
  BY <1>16 DEF vars, Rest
<1> QED
  BY <1>1, <1>2, <1>3, <1>4, <1>5, <1>6, <1>7, <1>8, <1>9, <1>10, <1>11, <1>12, <1>13,
     <1>14, <1>15, <1>16 DEF Next, Step

\* Every variable keeps its type, for every writer, migration and crash.
THEOREM SettingsTypes == Spec => []SettingsTypeOK
BY InitTypes, TypeStep, PTL DEF Spec

-----------------------------------------------------------------------------
(* The answers.                                                            *)

\* The promises a respects the values v, but for the forfeit fields g; or
\* promises nothing at all.
Respects(a, v, g) == \A f \in Fields \ g : a[f] \in {Open, v[f]}
AllOpen(a) == \A f \in Fields : a[f] = Open

EffectiveOf(fl, en) == IF fl # NoFile THEN fl ELSE IF en # NoFile THEN en ELSE Default

\* What a writer has loaded agrees with the promises, but for the fields that
\* it, or another one since, has changed, and those that were forfeit already.
WriterInv(w, a, g) ==
    w.pc \in {"edited", "saving"} =>
        \A f \in Fields \ (w.edit \cup w.stale \cup w.drop \cup g) :
            a[f] \in {Open, w.doc[f]}

\* A thread that will remove a source, or go back to its defaults.
Removes(w) == w.pc \in {"retire", "wizard", "removeEnv", "clearEnv"}

FileInv(fl, en, a, g, tn) ==
    /\ fl = Torn => tn /\ AllOpen(a)
    /\ fl # Torn => Respects(a, EffectiveOf(fl, en), g)
EnvironInv(fl, er, a, g) ==
    fl = NoFile /\ er # NoFile => Respects(a, Default, g) /\ Respects(a, er, g)
RemoveInv(fl, th, a) ==
    fl = NoFile /\ (\E t \in Threads : Removes(th[t])) => AllOpen(a)

AnswersInv ==
    /\ FileInv(file, env, answered, forfeit, tangled)
    /\ EnvironInv(file, environ, answered, forfeit)
    /\ RemoveInv(file, thread, answered)
    /\ \A t \in Threads : WriterInv(thread[t], answered, forfeit)

LEMMA OpenRespects ==
    ASSUME NEW a, AllOpen(a)
    PROVE  /\ \A v, g : Respects(a, v, g)
           /\ \A w, g : WriterInv(w, a, g)
BY DEF AllOpen, Respects, WriterInv

LEMMA Kinds == NoFile # Torn /\ NoFile \notin Doc /\ Torn \notin Doc
BY SettingsAssumption

LEMMA EffectiveIs == EffectiveOf(file, env) = Effective
BY DEF EffectiveOf, Effective

\* A step of one thread that changes no file.
LEMMA RowStep ==
    ASSUME AnswersInv, NEW t \in Threads, UNCHANGED <<file, env, environ, answered, forfeit, tangled>>,
           \A u \in Threads \ {t} : thread'[u] = thread[u],
           WriterInv(thread'[t], answered, forfeit),
           Removes(thread'[t]) => Removes(thread[t]) \/ file # NoFile
    PROVE  AnswersInv'
<1>1. \A u \in Threads : WriterInv(thread'[u], answered', forfeit')
  BY DEF AnswersInv
<1>2. RemoveInv(file', thread', answered')
  BY DEF AnswersInv, RemoveInv
<1> QED BY <1>1, <1>2 DEF AnswersInv

\* Whoever loads now has what is promised, and edits what he edits.
LEMMA LoadInv ==
    ASSUME NEW w, NEW doc \in Doc, Respects(answered, doc, forfeit),
           \A f \in Fields \ w.edit : w.doc[f] = doc[f]
    PROVE  WriterInv(w, answered, forfeit)
BY DEF WriterInv, Respects

LEMMA AnswersStep ==
    ASSUME SettingsTypeOK, AnswersInv, [Next]_vars
    PROVE  AnswersInv'
<1>. Rest /\ thread \in [Threads -> Writer]
  BY TypeParts
<1>. /\ FileInv(file, env, answered, forfeit, tangled) /\ EnvironInv(file, environ, answered, forfeit)
     /\ RemoveInv(file, thread, answered)
     /\ \A t \in Threads : WriterInv(thread[t], answered, forfeit)
  BY DEF AnswersInv
<1> USE DEF promises
<1>1. ASSUME NEW t \in Threads, BringUp(t) PROVE AnswersInv'
  <2> DEFINE r == [thread[t] EXCEPT !.pc = "edited", !.doc = Source(t),
                                    !.migrates = (env # NoFile)]
  <2>1. r.pc = "edited" /\ r.doc = Source(t) /\ r.edit = thread[t].edit
    BY DEF Writer
  <2>2. thread' = [thread EXCEPT ![t] = r]
        /\ UNCHANGED <<file, env, environ, answered, forfeit, tangled>> /\ file = NoFile
    BY <1>1 DEF BringUp
  <2> HIDE DEF r
  <2>3. Respects(answered, Source(t), forfeit)
    BY <2>2, Kinds DEF Source, FileInv, EffectiveOf, EnvironInv
  <2>4. WriterInv(r, answered, forfeit)
    BY <2>1, <2>3, SourceDoc, LoadInv
  <2>5. ~Removes(r)
    BY <2>1 DEF Removes
  <2> QED BY <2>2, <2>4, <2>5, RowStep
<1>2. ASSUME NEW t \in Threads, Retire(t) PROVE AnswersInv'
  <2>1. /\ Removes(thread[t]) /\ env' = NoFile
        /\ UNCHANGED <<file, environ, answered, forfeit, tangled>>
        /\ Goto(t, "idle")
    BY <1>2 DEF Retire, At, Removes
  <2>2. /\ thread'[t].pc = "idle"
        /\ \A u \in Threads \ {t} : thread'[u] = thread[u]
    BY <2>1, GotoRow
  <2>3. file = NoFile => AllOpen(answered)
    BY <2>1 DEF RemoveInv
  <2>4. FileInv(file', env', answered', forfeit', tangled')
    BY <2>1, <2>3, OpenRespects DEF FileInv, EffectiveOf
  <2>5. \A u \in Threads : WriterInv(thread'[u], answered', forfeit')
    BY <2>1, <2>2 DEF WriterInv
  <2>6. RemoveInv(file', thread', answered')
    BY <2>1, <2>3 DEF RemoveInv
  <2> QED BY <2>1, <2>4, <2>5, <2>6 DEF AnswersInv
<1>3. ASSUME NEW t \in Threads, Heal(t) PROVE AnswersInv'
  <2>1. file \in Doc /\ Begin(t, file, {}) /\ UNCHANGED <<file, env, environ, answered, forfeit, tangled>>
    BY <1>3 DEF Heal
  <2>2. /\ thread'[t].pc = "edited" /\ thread'[t].doc = file /\ thread'[t].edit = {}
        /\ \A u \in Threads \ {t} : thread'[u] = thread[u]
    BY <2>1, BeginRow
  <2>3. Respects(answered, file, forfeit)
    BY <2>1, Kinds DEF FileInv, EffectiveOf
  <2>4. WriterInv(thread'[t], answered, forfeit)
    BY <2>1, <2>2, <2>3, LoadInv
  <2> QED BY <2>1, <2>2, <2>4, RowStep DEF Removes
<1>4. ASSUME NEW t \in Threads, NEW f \in Fields, NEW base \in Doc,
             Respects(answered, base, forfeit), Begin(t, [base EXCEPT ![f] = Fresh], {f}), Ask,
             UNCHANGED <<file, env, environ>>
      PROVE  AnswersInv'
  <2> DEFINE d == [base EXCEPT ![f] = Fresh]
  <2>1. d \in Doc /\ \A g \in Fields \ {f} : d[g] = base[g]
    BY <1>4, FreshDoc DEF Doc
  <2>2. Begin(t, d, {f})
    BY <1>4
  <2> HIDE DEF d
  <2>3. /\ thread'[t].pc = "edited" /\ thread'[t].doc = d /\ thread'[t].edit = {f}
        /\ \A u \in Threads \ {t} : thread'[u] = thread[u]
    BY <2>1, <2>2, BeginRow
  <2>4. WriterInv(thread'[t], answered, forfeit)
    BY <1>4, <2>1, <2>3, LoadInv
  <2> QED BY <1>4, <2>3, <2>4, RowStep DEF Ask, Removes
<1>5. ASSUME NEW t \in Threads, NEW f \in Fields, Answer(t, f) PROVE AnswersInv'
  <2> DEFINE base == IF file = NoFile THEN Default ELSE file
  <2>1. base \in Doc
    BY <1>5, DefaultDoc DEF Answer, Rest
  <2>2. Begin(t, [base EXCEPT ![f] = Fresh], {f}) /\ Ask /\ UNCHANGED <<file, env, environ>>
    BY <1>5 DEF Answer
  <2>3. Respects(answered, base, forfeit)
    <3>1. CASE file = NoFile
      <4>1. environ # NoFile
        BY <1>5, <3>1, Kinds, SettingsAssumption DEF Answer, Up
      <4> QED BY <3>1, <4>1 DEF EnvironInv
    <3>2. CASE file # NoFile
      BY <2>1, <3>2, Kinds DEF FileInv, EffectiveOf
    <3> QED BY <3>1, <3>2
  <2> HIDE DEF base
  <2> QED BY <2>1, <2>2, <2>3, <1>4
<1>6. ASSUME NEW t \in Threads, Sync(t) PROVE AnswersInv'
  <2>1. /\ Begin(t, [file EXCEPT !["rate"] = Fresh], {"rate"}) /\ Ask /\ file \in Doc
        /\ UNCHANGED <<file, env, environ>>
    BY <1>6 DEF Sync
  <2>2. "rate" \in Fields
    BY DEF Fields
  <2>3. Respects(answered, file, forfeit)
    BY <2>1, Kinds DEF FileInv, EffectiveOf
  <2> QED BY <2>1, <2>2, <2>3, <1>4
<1>7. ASSUME NEW t \in Threads, SyncFails(t) PROVE AnswersInv'
  <2>1. thread'[t] = Idle /\ \A u \in Threads \ {t} : thread'[u] = thread[u]
    BY <1>7 DEF SyncFails
  <2>2. WriterInv(Idle, answered, forfeit) /\ ~Removes(Idle)
    BY DEF WriterInv, Removes, Idle
  <2> QED BY <1>7, <2>1, <2>2, RowStep DEF SyncFails
<1>8. ASSUME NEW t \in Threads, WizardWritesEnv(t) PROVE AnswersInv'
  <2>1. PICK given \in {{"network"}, {"network", "wallet"}} :
          thread' = [thread EXCEPT ![t].pc = "wizard", ![t].edit = given,
                          ![t].doc = [f \in Fields |-> IF f \in given THEN Fresh ELSE 0]]
    BY <1>8 DEF WizardWritesEnv
  <2> DEFINE d == [f \in Fields |-> IF f \in given THEN Fresh ELSE 0]
  <2>2. /\ thread'[t] = [thread[t] EXCEPT !.pc = "wizard", !.edit = given, !.doc = d]
        /\ \A u \in Threads \ {t} : thread'[u] = thread[u]
    BY <2>1
  <2> HIDE DEF d
  <2>3. thread'[t].pc = "wizard"
    BY <2>2 DEF Writer
  <2>4. file \in Doc /\ UNCHANGED <<file, environ, answered, forfeit, tangled>>
    BY <1>8 DEF WizardWritesEnv, Ask
  <2>5. FileInv(file', env', answered', forfeit', tangled')
    BY <2>4, Kinds DEF FileInv, EffectiveOf
  <2>6. RemoveInv(file', thread', answered')
    BY <2>4, Kinds DEF RemoveInv
  <2>7. \A u \in Threads : WriterInv(thread'[u], answered', forfeit')
    BY <2>2, <2>3, <2>4 DEF WriterInv
  <2> QED BY <2>4, <2>5, <2>6, <2>7 DEF AnswersInv
<1>9. ASSUME NEW t \in Threads, WizardMerges(t) PROVE AnswersInv'
  <2> DEFINE w == thread[t]
             doc == Merged(w.doc, w.edit)
             r == [w EXCEPT !.pc = "edited", !.drop = {"node"}, !.doc = doc]
  <2>1. w.doc \in Doc /\ w.edit \in SUBSET Fields /\ w.pc = "wizard"
    BY <1>9 DEF Writer, WizardMerges, At
  <2>2. r.pc = "edited" /\ r.doc = doc /\ r.edit = w.edit /\ r.drop = {"node"}
    BY DEF Writer
  <2>3. /\ thread' = [thread EXCEPT ![t] = r]
        /\ UNCHANGED <<file, env, environ, answered, forfeit, tangled>>
    BY <1>9 DEF WizardMerges
  <2>4. \A f \in Fields \ (w.edit \cup {"node"} \cup forfeit) : answered[f] \in {Open, doc[f]}
    <3>1. CASE file \in Doc
      BY <3>1, Kinds DEF FileInv, EffectiveOf, Respects, Merged
    <3>2. CASE file \notin Doc
      <4>1. AllOpen(answered)
        BY <2>1, <3>2 DEF Rest, FileInv, RemoveInv, Removes
      <4> QED BY <4>1 DEF AllOpen
    <3> QED BY <3>1, <3>2
  <2> HIDE DEF doc, r
  <2>5. thread'[t] = r /\ \A u \in Threads \ {t} : thread'[u] = thread[u]
    BY <2>3
  <2>6. WriterInv(r, answered, forfeit)
    BY <2>2, <2>4 DEF WriterInv
  <2>7. ~Removes(r)
    BY <2>2 DEF Removes
  <2> QED BY <2>3, <2>5, <2>6, <2>7, RowStep
<1>10. ASSUME NEW t \in Threads, OpenTmp(t) PROVE AnswersInv'
  <2>1. CASE Meeting(t)
    <3>1. Tangle(t) /\ UNCHANGED <<env, environ>>
      BY <1>10, <2>1 DEF OpenTmp
    <3>2. file' = Torn /\ tangled' = TRUE /\ AllOpen(answered')
      BY <3>1, TangleType DEF AllOpen
    <3> QED BY <3>2, OpenRespects, Kinds DEF AnswersInv, FileInv, EnvironInv, RemoveInv
  <2>2. CASE ~Meeting(t)
    <3>1. /\ At(t, "edited") /\ Goto(t, "saving")
          /\ UNCHANGED <<file, env, environ, answered, forfeit, tangled>>
      BY <1>10, <2>2 DEF OpenTmp
    <3>2. WriterInv(thread'[t], answered, forfeit) /\ ~Removes(thread'[t])
      BY <3>1, GotoRow DEF WriterInv, Removes, At
    <3> QED BY <3>1, <3>2, GotoRow, RowStep
  <2> QED BY <2>1, <2>2
<1>11. ASSUME NEW t \in Threads, Replace(t) PROVE AnswersInv'
  <2> DEFINE w == thread[t]
  <2>1. w.doc \in Doc /\ w.pc = "saving" /\ WriterInv(w, answered, forfeit)
    BY <1>11 DEF Writer, Replace, At
  <2>2. /\ file' = w.doc /\ UNCHANGED <<env, environ>>
        /\ \A f \in Fields : answered'[f] = IF f \in w.edit THEN w.doc[f]
                                            ELSE IF f \in w.stale THEN Open ELSE answered[f]
        /\ forfeit' = (forfeit \cup w.drop) \ w.edit
    BY <1>11 DEF Replace
  <2>3. Respects(answered', file', forfeit')
    BY <2>1, <2>2 DEF Respects, WriterInv
  <2>4. FileInv(file', env', answered', forfeit', tangled')
    BY <2>1, <2>2, <2>3, Kinds DEF FileInv, EffectiveOf
  <2>5. EnvironInv(file', environ', answered', forfeit') /\ RemoveInv(file', thread', answered')
    BY <2>1, <2>2, Kinds DEF EnvironInv, RemoveInv
  <2>6. WriterInv(thread'[t], answered', forfeit')
    <3>1. thread'[t].pc \in {"idle", "retire"}
      BY <1>11, DefaultDoc DEF Replace, Idle
    <3> QED BY <3>1 DEF WriterInv
  <2>7. ASSUME NEW u \in Threads \ {t} PROVE WriterInv(thread'[u], answered', forfeit')
    <3>1. thread'[u] = Overtaken(thread[u], w.edit) /\ WriterInv(thread[u], answered, forfeit)
      BY <1>11 DEF Replace
    <3>2. CASE thread[u].pc \notin {"edited", "saving"}
      BY <3>1, <3>2 DEF Overtaken, WriterInv
    <3>3. CASE thread[u].pc \in {"edited", "saving"}
      <4>1. /\ thread'[u].doc = thread[u].doc /\ thread'[u].edit = thread[u].edit
            /\ thread'[u].stale = thread[u].stale \cup (w.edit \ thread[u].edit)
            /\ thread'[u].drop = thread[u].drop /\ thread'[u].pc = thread[u].pc
        BY <3>1, <3>3 DEF Overtaken, Writer
      <4> QED BY <2>2, <3>1, <3>3, <4>1 DEF WriterInv
    <3> QED BY <3>2, <3>3
  <2> QED BY <2>4, <2>5, <2>6, <2>7 DEF AnswersInv
<1>12. ASSUME NEW t \in Threads, ResetCli(t) \/ ResetGui(t) PROVE AnswersInv'
  <2>1. file' = NoFile /\ AllOpen(answered')
    BY <1>12 DEF ResetCli, ResetGui, Unlink, AllOpen
  <2> QED BY <2>1, OpenRespects, Kinds DEF AnswersInv, FileInv, EnvironInv, RemoveInv
<1>13. ASSUME NEW t \in Threads, RemoveEnv(t) \/ ClearEnv(t) PROVE AnswersInv'
  <2>1. /\ Goto(t, "idle") /\ Removes(thread[t]) /\ UNCHANGED <<file, tangled>>
        /\ \/ /\ file = NoFile /\ \A u \in Threads \ {t} : At(u, "idle")
              /\ answered' = Default
              /\ environ' \in {NoFile, Default}
              /\ \/ env' = NoFile
                 \/ env' = env /\ forfeit' = {f \in Fields : env[f] # 0}
           \/ /\ answered' = answered /\ forfeit' = forfeit
              /\ \/ env' = NoFile /\ environ' = environ
                 \/ env' = env /\ environ' = Default
    <3>1. CASE RemoveEnv(t)
      BY <3>1 DEF RemoveEnv, ResetOver, At, Removes
    <3>2. CASE ClearEnv(t)
      BY <3>2 DEF ClearEnv, ResetOver, At, Removes
    <3> QED BY <1>13, <3>1, <3>2
  <2>2. /\ thread'[t].pc = "idle" /\ \A u \in Threads \ {t} : thread'[u] = thread[u]
    BY <2>1, GotoRow
  <2>3. CASE ~UNCHANGED <<answered, forfeit>>
    <3>1. \A u \in Threads : thread'[u].pc = "idle"
      BY <2>1, <2>2, <2>3 DEF At
    <3>2. \A u \in Threads : WriterInv(thread'[u], answered', forfeit') /\ ~Removes(thread'[u])
      BY <3>1 DEF WriterInv, Removes
    <3>3. /\ file' = NoFile /\ answered' = Default /\ environ' \in {NoFile, Default}
          /\ \/ env' = NoFile
             \/ env' = env /\ forfeit' = {f \in Fields : env[f] # 0}
      BY <2>1, <2>3
    <3>4. Respects(Default, Default, forfeit')
      BY DEF Respects
    <3>5. env' # NoFile => Respects(Default, env', forfeit')
      <4> SUFFICES ASSUME env' = env, forfeit' = {f \in Fields : env[f] # 0},
                          NEW f \in Fields \ forfeit'
                   PROVE  Default[f] = env[f]
        BY <3>3 DEF Respects
      <4> QED BY DEF Default
    <3> QED BY <3>2, <3>3, <3>4, <3>5, Kinds
            DEF AnswersInv, FileInv, EffectiveOf, EnvironInv, RemoveInv
  <2>4. CASE answered' = answered /\ forfeit' = forfeit
    <3>1. file = NoFile => AllOpen(answered)
      BY <2>1 DEF RemoveInv
    <3>2. \A u \in Threads : WriterInv(thread'[u], answered', forfeit')
      BY <2>2, <2>4 DEF WriterInv
    <3>3. FileInv(file', env', answered', forfeit', tangled')
      BY <2>1, <2>4, <3>1, OpenRespects DEF FileInv, EffectiveOf
    <3>4. EnvironInv(file', environ', answered', forfeit') /\ RemoveInv(file', thread', answered')
      BY <2>1, <2>4, <3>1, OpenRespects DEF EnvironInv, RemoveInv
    <3> QED BY <3>2, <3>3, <3>4 DEF AnswersInv
  <2> QED BY <2>3, <2>4
<1>14. ASSUME Launch PROVE AnswersInv'
  <2>1. /\ UNCHANGED <<file, env, thread, answered, forfeit, tangled>> /\ environ' = Default
        /\ file # NoFile \/ env = NoFile
    BY <1>14 DEF Launch
  <2>2. EnvironInv(file', environ', answered', forfeit')
    BY <2>1, Kinds DEF EnvironInv, FileInv, EffectiveOf
  <2> QED BY <2>1, <2>2 DEF AnswersInv
<1>15. ASSUME ApplyToEnv PROVE AnswersInv'
  <2>1. file \in Doc /\ UNCHANGED <<file, env, thread, answered, forfeit, tangled>>
    BY <1>15 DEF ApplyToEnv
  <2> QED BY <2>1, Kinds DEF AnswersInv, EnvironInv
<1>16. ASSUME NEW process, Crash(process) PROVE AnswersInv'
  <2>1. /\ UNCHANGED <<file, env, answered, forfeit, tangled>> /\ environ' \in {NoFile, environ}
        /\ \A u \in Threads : thread'[u] \in {thread[u], Idle}
    BY <1>16 DEF Crash
  <2>2. WriterInv(Idle, answered, forfeit) /\ ~Removes(Idle)
    BY DEF WriterInv, Removes, Idle
  <2>3. \A u \in Threads : WriterInv(thread'[u], answered', forfeit')
    BY <2>1, <2>2
  <2>4. RemoveInv(file', thread', answered') /\ EnvironInv(file', environ', answered', forfeit')
    BY <2>1, <2>2 DEF RemoveInv, EnvironInv
  <2> QED BY <2>1, <2>3, <2>4 DEF AnswersInv
<1>17. CASE UNCHANGED vars
  BY <1>17 DEF vars, AnswersInv
<1> QED
  BY <1>1, <1>2, <1>3, <1>5, <1>6, <1>7, <1>8, <1>9, <1>10, <1>11, <1>12, <1>13,
     <1>14, <1>15, <1>16, <1>17 DEF Next, Step

LEMMA InitAnswers == Init => AnswersInv
<1> SUFFICES ASSUME Init PROVE AnswersInv
  OBVIOUS
<1>1. answered = EffectiveOf(file, env) /\ file = NoFile /\ environ = NoFile
      /\ forfeit = {}
  <2>1. file = NoFile /\ environ = NoFile /\ forfeit = {}
    BY DEF Init
  <2>2. CASE env = NoFile /\ answered = Default
    BY <2>1, <2>2 DEF EffectiveOf
  <2>3. CASE env = [f \in Fields |-> IF f \in InEnv THEN 1 ELSE 0] /\ answered = env
    <3>1. env \in Doc
      BY <2>3, SettingsAssumption DEF Doc
    <3> QED BY <2>1, <2>3, <3>1, Kinds DEF EffectiveOf
  <2> QED BY <2>1, <2>2, <2>3 DEF Init
<1>2. \A t \in Threads : WriterInv(thread[t], answered, forfeit) /\ ~Removes(thread[t])
  BY DEF Init, WriterInv, Removes, Idle
<1> QED BY <1>1, <1>2, Kinds
        DEF AnswersInv, FileInv, EnvironInv, RemoveInv, Respects

LEMMA AnswersAlways == Spec => []AnswersInv
<1>1. Init => SettingsTypeOK /\ AnswersInv
  BY InitTypes, InitAnswers
<1>2. SettingsTypeOK /\ AnswersInv /\ [Next]_vars => SettingsTypeOK' /\ AnswersInv'
  BY TypeStep, AnswersStep
<1> QED BY <1>1, <1>2, PTL DEF Spec

\* A crash never costs settings.json: it can be read unless two saves have met
\* in the temporary file (Settings.save).
THEOREM TornByTwo == Spec => []TornNeedsTwoSavers
<1>1. AnswersInv => TornNeedsTwoSavers
  BY DEF AnswersInv, FileInv, TornNeedsTwoSavers
<1> QED BY <1>1, AnswersAlways, PTL

\* What was acknowledged is what the next start reads, but for an answer that a
\* writer overwrote which had loaded before it, for those of the node section
\* after a wizard, and for what fresh_restart leaves in the env file (load and
\* save of every writer, the migrations, the wizard, the resets).
THEOREM KeepsAnswers == Spec => []AnswersKept
<1>1. AnswersInv => AnswersKept
  BY EffectiveIs DEF AnswersInv, FileInv, Respects, AnswersKept
<1> QED BY <1>1, AnswersAlways, PTL
=============================================================================
