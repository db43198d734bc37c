---------------------------- MODULE SettingsSave ----------------------------
(***************************************************************************)
(* How the GUI saves its settings (AppConfig::saveSettingsWithResult) so   *)
(* that the public settings, in the registry, and the pairing code, in the *)
(* credential store, change together or not at all, whatever fails and     *)
(* whenever the program dies (AppConfigSettingsJournal.cpp).               *)
(*                                                                         *)
(* A save writes a capsule (both versions and the new code) to the         *)
(* credential store, a journal to the registry, the public settings, the   *)
(* code, a commit marker, and removes them again.  Recovery, run before    *)
(* settings are loaded and when a save fails, looks at what is there.  An  *)
(* import writes portable settings without a journal of this kind, and     *)
(* loading moves a pairing code that an older program kept in the registry *)
(* to the credential store.  All of it happens under one lock, so one job  *)
(* runs at a time; the program that runs it may die between any two writes.*)
(*                                                                         *)
(* The credential store exists on Windows only, where QSettings is the     *)
(* registry: every setValue is visible at once, a group is removed at      *)
(* once, and RegFlushKey, which sync calls, makes what is there survive a  *)
(* power failure.  A call of a store may fail; a write that failed may     *)
(* still have happened.  The keys stand for the public                     *)
(* ones, values for versions of them.  Capsule and marker are              *)
(* authenticated: a marker names the capsule it was made for, and nobody   *)
(* else writes either.                                                     *)
(***************************************************************************)
EXTENDS Naturals, FiniteSets

CONSTANTS
  Procs,       \* running programs that share the settings
  Keys,        \* the public settings (publicKeys)
  Portable,    \* the ones an import may change
  None,        \* no pairing code, no marker, no value
  MaxSaves,    \* bound on saves and imports
  MaxFaults,   \* bound on failing calls of the stores
  MaxCrashes   \* bound on deaths of programs and power failures

ASSUME KeysAssumption == Portable \subseteq Keys

\* The bounds are numbers, and nothing is not one.
ASSUME BoundsAssumption ==
  MaxSaves \in Nat /\ MaxFaults \in Nat /\ MaxCrashes \in Nat /\ None \notin Nat

Torn == [id |-> None, torn |-> TRUE]       \* a journal with some of its five keys
NoJournal == [id |-> None]
NoCapsule == [id |-> None]

VARIABLES
  reg,       \* the registry: pub, jrnl and legacy, a pairing code kept there
  durable,   \* what of it survives a power failure
  cred,      \* the credential store: pairing, capsule, marker and key
  app,       \* each program: at, m_LoadedPublicState, m_LoadedPairingSecret
             \*   and m_SettingsLoadFailed
  job,       \* what the holder of the lock is doing
  next,      \* the next version
  faults, crashes,
  versions,  \* history: the versions that may be found, see WholeVersion
  spoiled    \* history: a journal was torn, or written around

stores == <<reg, durable, cred>>
history == <<versions, spoiled>>
vars == <<stores, app, job, next, faults, crashes, history>>

Idle == [at |-> "idle", p |-> None, why |-> "none", plan |-> "save", rec |-> FALSE, late |-> FALSE,
         dest |-> None, orig |-> None, cand |-> None, secret |-> None]
Off == [at |-> "off", pub |-> None, secret |-> None, failed |-> FALSE]
Version(pub, secret) == <<pub, secret>>
Current == Version(reg.pub, cred.pairing)
Recovered == {"NotNeeded", "RecoveredOriginal", "RecoveredCandidate"}
Clean == reg.jrnl = NoJournal /\ cred.capsule = NoCapsule /\ cred.marker = None

\* There may be a code in either store, or two different ones.
Init ==
  /\ \E s \in {None, 1} : reg = [pub |-> [k \in Keys |-> 0], jrnl |-> NoJournal, legacy |-> s]
  /\ durable = reg
  /\ \E s \in {None, 0, reg.legacy} : cred = [pairing |-> s, capsule |-> NoCapsule, marker |-> None, key |-> FALSE]
  /\ app = [p \in Procs |-> Off]
  /\ job = Idle /\ next = 2 /\ faults = 0 /\ crashes = 0
  /\ versions = {Current} /\ spoiled = FALSE

-----------------------------------------------------------------------------
(* One call of a store, and where the job goes on.                         *)

Go(at) == job' = [job EXCEPT !.at = at, !.late = @ \/ job.at = "swap"]
Fault == faults < MaxFaults /\ faults' = faults + 1
Rest == UNCHANGED <<app, next, crashes, history>>

Set(r, at) == reg' = r /\ Go(at) /\ UNCHANGED <<durable, cred, faults>> /\ Rest

\* durableSync; it fails as well when a value before it could not be set.
FlushFails(bad) ==
  /\ Fault /\ Go(bad) /\ durable' \in {durable, reg}
  /\ UNCHANGED <<reg, cred>> /\ Rest

Flush(ok, bad) ==
  \/ durable' = reg /\ Go(ok) /\ UNCHANGED <<reg, cred, faults>> /\ Rest
  \/ FlushFails(bad)

\* QSettings::sync, whose own flush may fail without notice.
Sync(r) == \/ durable' = r /\ UNCHANGED faults
           \/ Fault /\ UNCHANGED durable

\* SecureCredentialStore: write, remove and compareAndSwap read back what they
\* did, and undo it if it is not what they meant; that may fail as well.
Put(f, v, ok, bad) ==
  /\ \/ cred' = [cred EXCEPT ![f] = v] /\ Go(ok) /\ UNCHANGED faults
     \/ Fault /\ cred' \in {cred, [cred EXCEPT ![f] = v]} /\ Go(bad)
  /\ UNCHANGED <<reg, durable>> /\ Rest

-----------------------------------------------------------------------------
(* AppConfigSettingsJournal::begin                                         *)

\* Mutant: the key is not made.
BeginKeyless ==
  /\ job.at = "begin"
  /\ Go(IF Clean THEN "capsule" ELSE "recover") /\ UNCHANGED <<stores, faults>> /\ Rest

\* Nothing may be left of another save; the key is made when it is missing.
Begin ==
  /\ job.at = "begin"
  /\ IF Clean THEN Put("key", TRUE, "capsule", "recover")
     ELSE Go("recover") /\ UNCHANGED <<stores, faults>> /\ Rest

WriteCapsule ==
  /\ job.at = "capsule"
  /\ Put("capsule", [id |-> next, orig |-> job.orig, cand |-> job.cand, had |-> cred.pairing # None,
                     trans |-> cred.pairing # job.secret, secret |-> job.secret],
         "journal", "dropCapsule")

\* The five keys of the journal are set one by one, and then flushed.
WriteJournal ==
  \/ job.at = "journal" /\ Set([reg EXCEPT !.jrnl = Torn], "journalFull")
  \/ /\ job.at = "journalFull"
     /\ Set([reg EXCEPT !.jrnl = [id |-> cred.capsule.id, orig |-> job.orig, cand |-> job.cand,
                                  applied |-> FALSE]], "journalFlush")
  \/ job.at = "journalFlush" /\ Flush("apply", "undoJournal")
  \/ job.at = "journalFull" /\ FlushFails("undoJournal")

\* What failed is taken back as far as possible, and what fails of that is
\* left to recover.
Undo ==
  \/ job.at = "undoJournal" /\ Set([reg EXCEPT !.jrnl = NoJournal], "undoFlush")
  \/ job.at = "undoFlush" /\ Flush("dropCapsule", "dropCapsule")
  \/ job.at = "dropCapsule" /\ Put("capsule", NoCapsule, "recover", "recover")

-----------------------------------------------------------------------------
(* apply, markPublicApplied, compareAndSwap, commit.                       *)

\* Where a save and a recovery go on when the public settings are there.
Applied == CASE job.plan = "save" -> "mark"
             [] job.plan = "candidate" -> "commit"
             [] job.plan = "original" -> "removeJournal"
ApplyFailed == IF job.rec THEN "Blocked" ELSE "recover"

\* The public keys are set one by one, and then flushed.
Apply ==
  /\ job.at = "apply"
  /\ \/ \E k \in Keys : /\ reg.pub[k] # job.dest[k]
                        /\ Set([reg EXCEPT !.pub[k] = job.dest[k]], "apply")
     \/ FlushFails(ApplyFailed)
     \/ reg.pub = job.dest /\ durable' = reg /\ Go(Applied) /\ UNCHANGED <<reg, cred, faults>> /\ Rest

MarkPublicApplied ==
  \/ job.at = "mark" /\ Set([reg EXCEPT !.jrnl.applied = TRUE], "markFlush")
  \/ job.at = "markFlush" /\ Flush("swap", "recover")

CompareAndSwap == job.at = "swap" /\ Put("pairing", job.secret, "commit", "recover")

\* commit, of a save or of a recovery: the marker first.
CommitFailed == IF job.rec THEN "Blocked" ELSE "commitFailed"
Commit ==
  /\ job.at = "commit"
  /\ Put("marker", cred.capsule.id, "removeJournal", CommitFailed)

\* The journal is removed and then the capsule: by commit, and by a recovery
\* that goes back.  That one leaves a journal alone that is not there.
RemoveJournal ==
  \/ /\ job.at = "removeJournal" /\ ~(job.plan = "original" /\ reg.jrnl = NoJournal)
     /\ Set([reg EXCEPT !.jrnl = NoJournal], "removeFlush")
  \/ /\ job.at = "removeJournal" /\ job.plan = "original" /\ reg.jrnl = NoJournal
     /\ Go("removeCapsule") /\ UNCHANGED <<stores, faults>> /\ Rest
  \/ job.at = "removeFlush" /\ Flush("removeCapsule", CommitFailed)

\* Mutant: the marker is forgotten.
RemoveCapsuleLast ==
  /\ job.at = "removeCapsule"
  /\ Put("capsule", NoCapsule, IF job.plan = "original" THEN "RecoveredOriginal"
                               ELSE IF job.rec THEN "RecoveredCandidate" ELSE "committed",
         CommitFailed)

RemoveCapsule ==
  /\ job.at = "removeCapsule"
  /\ Put("capsule", NoCapsule, IF job.plan = "original" THEN "RecoveredOriginal" ELSE "removeMarker",
         CommitFailed)

RemoveMarker ==
  /\ job.at = "removeMarker"
  /\ Put("marker", None, IF job.rec THEN "RecoveredCandidate" ELSE "committed", CommitFailed)

-----------------------------------------------------------------------------
(* recover                                                                 *)

\* Mutant: values of others are taken for the transaction's.
fieldsNotCompared(c) == TRUE

\* Mutant: the settings must be one version, whole.
fieldsOfOneVersion(c) == reg.pub \in {c.orig, c.cand}

fieldsBelongToTransaction(c) == \A k \in Keys : reg.pub[k] \in {c.orig[k], c.cand[k]}

\* Mutant: recovery always goes back.
candidateSecretIgnored(c) == FALSE

\* The new code has been stored; a removed one counts if there was one.
candidateSecretApplied(c) ==
  IF c.secret # None THEN cred.pairing = c.secret ELSE c.had /\ cred.pairing = None

\* What recovery does with what it finds.
Decision ==
  LET c == cred.capsule
      committed == cred.marker # None
      candidateApplied == IF committed THEN reg.pub = c.cand /\ cred.pairing = c.secret
                          ELSE c.trans /\ candidateSecretApplied(c)
  IN IF c = NoCapsule \/ reg.jrnl = Torn
     THEN CASE reg.jrnl # NoJournal -> "Blocked"
            [] reg.jrnl = NoJournal /\ committed -> "marker"
            [] reg.jrnl = NoJournal /\ ~committed -> "NotNeeded"
     ELSE IF \/ ~cred.key
             \/ committed /\ cred.marker # c.id
             \/ /\ reg.jrnl # NoJournal
                /\ <<reg.jrnl.id, reg.jrnl.orig, reg.jrnl.cand>> # <<c.id, c.orig, c.cand>>
             \/ ~fieldsBelongToTransaction(c)
             \/ committed /\ ~candidateApplied
          THEN "Blocked"
          ELSE IF candidateApplied THEN "candidate" ELSE "original"

Recover ==
  /\ job.at = "recover"
  /\ \/ /\ Decision \in {"candidate", "original"}
        /\ job' = [job EXCEPT !.at = "apply", !.rec = TRUE, !.plan = Decision,
                              !.dest = IF Decision = "candidate" THEN cred.capsule.cand ELSE cred.capsule.orig]
        /\ durable' = reg /\ UNCHANGED <<cred, faults>>
     \/ /\ Decision \in {"Blocked", "NotNeeded"}
        /\ Go(Decision)
        /\ durable' = reg /\ UNCHANGED <<cred, faults>>
     \/ /\ Decision = "marker"
        /\ cred' = [cred EXCEPT !.marker = None] /\ Go("NotNeeded")
        /\ durable' = reg /\ UNCHANGED faults
     \/ /\ Fault /\ Go("Blocked")
        /\ cred' \in {cred} \cup (IF Decision = "marker" THEN {[cred EXCEPT !.marker = None]} ELSE {})
        /\ durable' \in {durable, reg}
  /\ UNCHANGED reg /\ Rest

-----------------------------------------------------------------------------
(* AppConfig.                                                              *)

Run(p, why, at) == [Idle EXCEPT !.at = at, !.p = p, !.why = why]

\* At start-up an interrupted save is recovered before anything else, and
\* again when the settings are loaded.
Start(p) ==
  /\ job = Idle /\ app[p].at = "off"
  /\ job' = Run(p, "startup", "recover")
  /\ UNCHANGED <<stores, faults>> /\ Rest

\* A program that runs loads them again after an import of its own failed.
LoadSettings(p) ==
  /\ job = Idle /\ app[p].at \in {"started", "reload"}
  /\ job' = Run(p, "load", "recover")
  /\ UNCHANGED <<stores, faults>> /\ Rest

\* A save goes on only if nothing has changed since the settings were loaded.
\* Some of the settings change; the code may stay, change or be removed.
SaveSettings(p) ==
  \E changed \in SUBSET Keys, secret \in {app[p].secret, next, None} :
    LET cand == [k \in Keys |-> IF k \in changed THEN next ELSE reg.pub[k]] IN
    /\ job = Idle /\ app[p].at = "loaded" /\ ~app[p].failed /\ next <= MaxSaves + 1
    /\ reg.pub = app[p].pub /\ cred.pairing = app[p].secret
    /\ job' = [Run(p, "save", "begin") EXCEPT !.orig = reg.pub, !.cand = cand, !.dest = cand, !.secret = secret]
    /\ next' = next + 1
    /\ versions' = versions \cup {Version(cand, secret)}
    /\ Sync(reg)
    /\ UNCHANGED <<reg, cred, app, crashes, spoiled>>

\* savePortableSettingsIfUnchanged, for an imported configuration, looks at no
\* journal.  It is refused if another program changed the portable settings
\* since the import read them, or if they cannot be read.
SavePortableSettings(p) ==
  /\ job = Idle /\ app[p].at = "loaded"
  /\ \/ \E changed \in (SUBSET Portable) \ {{}} :
          LET new == [k \in Keys |-> IF k \in changed THEN next ELSE reg.pub[k]] IN
          /\ next <= MaxSaves + 1 /\ next' = next + 1
          /\ job' = [Run(p, "import", "import") EXCEPT !.orig = reg.pub, !.dest = new]
          /\ spoiled' = (spoiled \/ ~Clean)
          /\ UNCHANGED <<app, faults>>
     \/ /\ ((\E k \in Portable : reg.pub[k] # app[p].pub[k]) /\ UNCHANGED faults) \/ Fault
        /\ app' = [app EXCEPT ![p].at = "reload"]
        /\ UNCHANGED <<next, job, spoiled>>
  /\ UNCHANGED <<stores, crashes, versions>>

\* What an import that did not come to its end leaves; with a capsule there,
\* recovery has the last word.
Remains(r, d) ==
  IF job.why = "import" /\ cred.capsule = NoCapsule
  THEN {Version(r.pub, cred.pairing), Version(d.pub, cred.pairing)} ELSE {}

\* The keys are set one by one; when one could not be set, or sync fails, they
\* are set back, as far as that is possible, and the settings loaded again.
Import ==
  \/ /\ job.at = "import"
     /\ \E k \in Keys : /\ reg.pub[k] # job.dest[k]
                        /\ Set([reg EXCEPT !.pub[k] = job.dest[k]], "import")
  \/ job.at = "import" /\ FlushFails("restore")
  \/ /\ job.at = "import" /\ reg.pub = job.dest
     /\ Sync(reg) /\ job' = Idle
     /\ app' = [app EXCEPT ![job.p].pub = reg.pub]
     /\ versions' = versions \cup {Current}
     /\ UNCHANGED <<reg, cred, next, crashes, spoiled>>
  \/ /\ job.at = "restore"
     /\ \E k \in Keys : /\ reg.pub[k] # job.orig[k]
                        /\ Set([reg EXCEPT !.pub[k] = job.orig[k]], "restore")
  \/ /\ job.at = "restore"
     /\ durable' \in {durable, reg} /\ job' = Idle
     /\ app' = [app EXCEPT ![job.p].at = "reload"]
     /\ versions' = versions \cup Remains(reg, durable')
     /\ UNCHANGED <<reg, cred, next, faults, crashes, spoiled>>

\* SecureCredentialStore::migrate: a code in the registry goes to the
\* credential store unless there is another one, and is removed from the
\* registry.
Migrate ==
  /\ job.why = "load" /\ job.at \in Recovered /\ reg.legacy # None
  /\ \/ /\ cred.pairing \in {None, reg.legacy}
        /\ cred' = [cred EXCEPT !.pairing = reg.legacy]
        /\ job' = [Run(job.p, "load", "dropLegacy") EXCEPT
                     !.secret = IF cred.pairing = None THEN reg.legacy ELSE None]
        /\ UNCHANGED faults
     \/ /\ cred.pairing = None /\ Fault
        /\ cred' = [cred EXCEPT !.pairing = reg.legacy]
        /\ Go("loadFailed")
     \/ /\ cred.pairing \notin {None, reg.legacy}
        /\ Go("loadFailed") /\ UNCHANGED <<cred, faults>>
  /\ versions' = versions \cup {Version(reg.pub, cred'.pairing)}
  /\ UNCHANGED <<reg, durable, app, next, crashes, spoiled>>

\* If its removal fails it is put back, and the credential store too if the
\* code was not there before; that may fail as well.
DropLegacy ==
  \/ job.at = "dropLegacy" /\ Set([reg EXCEPT !.legacy = None], "legacyDropped")
  \/ job.at = "dropLegacy" /\ FlushFails("loadFailed")
  \/ job.at = "legacyDropped" /\ Sync(reg) /\ Go("migrated") /\ UNCHANGED <<reg, cred>> /\ Rest
  \/ job.at = "legacyDropped" /\ FlushFails("keepLegacy")
  \/ /\ job.at = "keepLegacy"
     /\ reg' \in {reg, [reg EXCEPT !.legacy = cred.pairing]} /\ durable' \in {durable, reg'}
     /\ (reg'.legacy # None /\ Go("rollBack")) \/ Go("loadFailed")
     /\ UNCHANGED <<cred, faults>> /\ Rest
  \/ /\ job.at = "rollBack"
     /\ cred' \in {cred} \cup (IF job.secret # None THEN {[cred EXCEPT !.pairing = None]} ELSE {})
     /\ Go("loadFailed")
     /\ UNCHANGED <<reg, durable, faults>> /\ Rest

\* The credential store cannot be read.
LoadFails ==
  /\ job.why = "load" /\ job.at \in Recovered \cup {"migrated"}
  /\ Fault /\ Go("loadFailed") /\ UNCHANGED stores /\ Rest

\* The end of each: what the program makes of the result.
FinishStart ==
  /\ job.why = "startup" /\ job.at \in Recovered \cup {"Blocked"}
  /\ app' = [app EXCEPT ![job.p].at = IF job.at = "Blocked" THEN "off" ELSE "started"]
  /\ job' = Idle
  /\ UNCHANGED <<stores, next, faults, crashes, history>>

\* A program that starts gives up when its settings cannot be loaded (main.cpp,
\* settingsLoadFailed); one that runs goes on and saves no more.
FinishLoad ==
  LET old == app[job.p] IN
  /\ job.why = "load"
  /\ \/ /\ (job.at \in Recovered /\ reg.legacy = None) \/ job.at = "migrated"
        /\ app' = [app EXCEPT ![job.p] = [at |-> "loaded", pub |-> reg.pub, secret |-> cred.pairing, failed |-> FALSE]]
     \/ /\ job.at \in {"Blocked", "loadFailed"} /\ old.at = "started"
        /\ app' = [app EXCEPT ![job.p] = Off]
     \/ /\ job.at = "Blocked" /\ old.at = "reload"
        /\ app' = [app EXCEPT ![job.p] = [old EXCEPT !.at = "loaded", !.failed = TRUE]]
     \/ /\ job.at = "loadFailed" /\ old.at = "reload"
        /\ app' = [app EXCEPT ![job.p] = [old EXCEPT !.at = "loaded", !.failed = TRUE, !.pub = reg.pub]]
  /\ job' = Idle
  /\ UNCHANGED <<stores, next, faults, crashes, history>>

Accepted == job.at = "committed" \/ (job.late /\ job.at = "RecoveredCandidate")
FinishSave ==
  /\ job.why = "save"
  /\ job.at \in {"committed", "commitFailed", "NotNeeded", "RecoveredOriginal", "RecoveredCandidate", "Blocked"}
  /\ IF Accepted
     THEN /\ app' = [app EXCEPT ![job.p].pub = job.cand, ![job.p].secret = job.secret]
          /\ versions' = {Version(job.cand, job.secret)}
     ELSE /\ app' = [app EXCEPT ![job.p].failed = @ \/ job.late \/ job.at = "Blocked"]
          /\ versions' = IF job.at \in {"commitFailed", "Blocked"} THEN versions
                         ELSE (versions \ {Version(job.cand, job.secret)})
                              \cup {Version(job.orig, app[job.p].secret)}
  /\ job' = Idle
  /\ UNCHANGED <<stores, next, faults, crashes, spoiled>>

\* A program ends; in the middle of its job, it dies.
Quit(p) ==
  /\ app[p].at # "off" /\ job = Idle
  /\ app' = [app EXCEPT ![p] = Off]
  /\ UNCHANGED <<stores, job, next, faults, crashes, history>>

Crash ==
  /\ job # Idle /\ crashes < MaxCrashes
  /\ crashes' = crashes + 1
  /\ app' = [app EXCEPT ![job.p] = Off] /\ job' = Idle
  /\ spoiled' = (spoiled \/ reg.jrnl = Torn)
  /\ versions' = versions \cup Remains(reg, durable)
  /\ UNCHANGED <<stores, next, faults>>

\* After a power failure the registry is as it was last flushed, or as the
\* system had flushed it since.
PowerFailure ==
  /\ crashes < MaxCrashes
  /\ crashes' = crashes + 1
  /\ app' = [p \in Procs |-> Off] /\ job' = Idle
  /\ reg' \in {durable, reg} /\ durable' = reg'
  /\ spoiled' = (spoiled \/ reg'.jrnl = Torn)
  /\ versions' = versions \cup Remains(reg', reg')
  /\ UNCHANGED <<cred, next, faults>>

-----------------------------------------------------------------------------
Step ==
  \/ Begin \/ WriteCapsule \/ WriteJournal \/ Undo
  \/ Apply \/ MarkPublicApplied \/ CompareAndSwap \/ Commit
  \/ RemoveJournal \/ RemoveCapsule \/ RemoveMarker \/ Recover
  \/ Import \/ Migrate \/ DropLegacy \/ LoadFails
  \/ FinishStart \/ FinishLoad \/ FinishSave

Next ==
  \/ Step
  \/ \E p \in Procs : Start(p) \/ LoadSettings(p) \/ SaveSettings(p) \/ SavePortableSettings(p) \/ Quit(p)
  \/ Crash \/ PowerFailure

Spec == Init /\ [][Next]_vars

-----------------------------------------------------------------------------
(* Properties.                                                             *)

\* Every part of the state has its shape.
TypeOK ==
  /\ \A r \in {reg, durable} : /\ r.pub \in [Keys -> 0 .. MaxSaves + 1]
                               /\ r.jrnl.id \in (1 .. MaxSaves + 2) \cup {None}
                               /\ r.legacy \in (0 .. MaxSaves + 1) \cup {None}
  /\ cred.pairing \in (0 .. MaxSaves + 1) \cup {None} /\ cred.marker \in (1 .. MaxSaves + 2) \cup {None}
  /\ cred.key \in BOOLEAN
  /\ cred.capsule # NoCapsule => cred.key
  /\ \A p \in Procs : app[p].at \in {"off", "started", "loaded", "reload"} /\ app[p].failed \in BOOLEAN
  /\ next \in 2 .. MaxSaves + 2

\* The public settings and the pairing code belong together: they are what
\* the last successful save put there, or what a later import, or a later save
\* that died or whose failure could not be undone, wanted to put there, or
\* what is left of a later import that died or could not be undone (it sets
\* its keys without a journal of this kind); and the code may have come from
\* the registry since.  A save that failed otherwise has left no trace.
\* Looked at when nobody is saving and nothing is left to recover.
WholeVersion == job = Idle /\ Clean => Current \in versions

\* If no call of a store has failed, no program died while a journal was
\* being written and nobody wrote around one, recovery is never at a loss:
\* wherever saves and recoveries died, with or without power.
RecoversUnlessHurt == job.at = "Blocked" => faults > 0 \/ spoiled

\* When recovery, or a save, reports success nothing of it is left, so that
\* the next save can begin.
DoneIsClean ==
  job.at \in {"NotNeeded", "RecoveredOriginal", "RecoveredCandidate", "committed"} => Clean

(* A save that is over left nothing behind, and one that was cut short can be
   recovered (see the parts).  About AppConfigSettingsJournal. *)
RecoveryInv == TypeOK /\ DoneIsClean /\ RecoversUnlessHurt

\* Recovery overwrites no value that neither version of its save put there.
OverwritesOwnOnly ==
  [][job.rec /\ job'.rec =>
       \A k \in Keys : reg'.pub[k] # reg.pub[k] =>
         reg.pub[k] \in {cred.capsule.orig[k], cred.capsule.cand[k]}]_vars
=============================================================================
