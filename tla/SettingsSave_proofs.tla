------------------------- MODULE SettingsSave_proofs -------------------------
(***************************************************************************)
(* Saves and recoveries keep the public settings and the pairing code      *)
(* together, for any number of programs, saves, failing calls and deaths.  *)
(***************************************************************************)
EXTENDS SettingsSave, Integers, TLAPS

Pubs == [Keys -> Nat]
Codes == Nat \cup {None}
Capsules == [id : Nat, orig : Pubs, cand : Pubs, had : BOOLEAN, trans : BOOLEAN, secret : Codes]
Journals == [id : Nat, orig : Pubs, cand : Pubs, applied : BOOLEAN]
Registries == [pub : Pubs, jrnl : Journals \cup {Torn, NoJournal}, legacy : Codes]
Credentials == [pairing : Codes, capsule : Capsules \cup {NoCapsule}, marker : Codes, key : BOOLEAN]
Apps == [at : {"off", "started", "loaded", "reload"}, pub : Pubs \cup {None}, secret : Codes, failed : BOOLEAN]

Preparing == {"journal", "journalFull", "journalFlush", "undoJournal", "undoFlush", "dropCapsule"}
Forward == {"mark", "markFlush", "swap"}
Closing == {"commit", "removeJournal", "removeFlush", "removeCapsule"}
Ended == {"NotNeeded", "RecoveredOriginal", "RecoveredCandidate", "committed"}
Failed == {"commitFailed", "Blocked"}
Importing == {"import", "restore"}
Migrating == {"dropLegacy", "legacyDropped", "keepLegacy", "rollBack"}
Stages == {"idle", "begin", "capsule", "recover", "apply", "removeMarker", "migrated", "loadFailed"}
            \cup Preparing \cup Forward \cup Closing \cup Ended \cup Failed \cup Importing \cup Migrating

Jobs == [at : Stages, p : Procs \cup {None}, why : {"startup", "load", "save", "import", "none"},
         plan : {"save", "candidate", "original"}, rec : BOOLEAN, late : BOOLEAN,
         dest : Pubs \cup {None}, orig : Pubs \cup {None}, cand : Pubs \cup {None}, secret : Codes]

Below(pub, n) == \A k \in Keys : pub[k] < n

(***************************************************************************)
(* The shape of the state, and that versions are numbered upwards.         *)
(***************************************************************************)
SoundReg(r, n) ==
    /\ r \in Registries /\ Below(r.pub, n)
    /\ r.legacy # None => r.legacy < n
    /\ r.jrnl.id # None => r.jrnl.id \in 1 .. n

SoundCred(c, n) ==
    /\ c \in Credentials
    /\ c.pairing # None => c.pairing < n
    /\ c.marker # None => c.marker \in 1 .. n
    /\ c.capsule # NoCapsule => /\ c.key /\ c.capsule.id \in 1 .. n
                                /\ Below(c.capsule.orig, n) /\ Below(c.capsule.cand, n)

Shape ==
    /\ SoundReg(reg, next) /\ SoundReg(durable, next) /\ SoundCred(cred, next)
    /\ app \in [Procs -> Apps] /\ job \in Jobs
    /\ job.at = "idle" => job = Idle
    /\ job.at # "idle" => job.p \in Procs /\ job.why # "none"
    /\ job.why = "import" =>
         job.dest \in Pubs /\ job.orig \in Pubs /\ Below(job.dest, next) /\ Below(job.orig, next)
    /\ next \in 2 .. MaxSaves + 2 /\ faults \in Nat /\ spoiled \in BOOLEAN

Whole(r) == r.jrnl = NoJournal => Version(r.pub, cred.pairing) \in versions

(***************************************************************************)
(* What the stores hold is a version, or leads to one: with a capsule, the *)
(* version it makes, or the version it goes back to; without one, what is  *)
(* in the registry and what will be there after a power failure.  Not so   *)
(* while an import sets its keys.                                          *)
(***************************************************************************)
Versions ==
    LET c == cred.capsule IN
    /\ c = NoCapsule => /\ job.at \notin {"import", "restore"} => Whole(reg)
                        /\ job.at # "restore" => Whole(durable)
    /\ c # NoCapsule =>
         /\ Version(c.cand, c.secret) \in versions
         /\ (c.trans /\ cred.pairing = c.secret) \/ Version(c.orig, cred.pairing) \in versions
         /\ c.trans /\ c.secret = None => c.had

(***************************************************************************)
(* The steps of a save and of a recovery, as far as they are the same.     *)
(***************************************************************************)
Stage ==
    LET c == cred.capsule IN
    /\ job.rec => /\ job.at \in Closing \cup {"apply", "removeMarker", "RecoveredOriginal",
                                              "RecoveredCandidate", "Blocked", "loadFailed"}
                  /\ job.plan # "save"
    /\ ~job.rec => job.plan = "save"
    /\ job.why # "save" =>
         /\ ~job.late
         /\ ~job.rec => job.at \in {"idle", "recover", "NotNeeded", "Blocked", "import", "restore", "dropLegacy",
                                    "legacyDropped", "keepLegacy", "rollBack", "migrated", "loadFailed"}
    /\ job.at \in {"import", "restore"} => job.why = "import"
    /\ job.at = "recover" => job.why # "import"
    /\ job.at \in {"dropLegacy", "legacyDropped", "keepLegacy", "rollBack", "migrated"} => job.why = "load"
    /\ job.at \in {"dropLegacy", "legacyDropped", "keepLegacy", "rollBack"} =>
         /\ c = NoCapsule /\ durable.pub = reg.pub /\ cred.pairing # None
         /\ job.secret # None => Version(reg.pub, None) \in versions
    /\ job.at \in {"apply"} \cup Closing =>
         /\ c # NoCapsule
         /\ job.dest = IF job.plan = "original" THEN c.orig ELSE c.cand
         /\ \A k \in Keys : reg.pub[k] \in {c.orig[k], c.cand[k]}
    /\ job.at \in {"apply"} \cup Closing /\ job.plan = "candidate" => cred.pairing = c.secret
    /\ job.at \in {"apply"} \cup Closing /\ job.plan = "original" =>
         cred.marker = None /\ Version(c.orig, cred.pairing) \in versions
    /\ job.at \in Closing => reg.pub = job.dest /\ durable.pub = job.dest
    /\ job.at \in {"commit", "removeMarker", "RecoveredCandidate", "committed"} => job.plan # "original"
    /\ job.at = "removeJournal" /\ job.plan = "original" => durable = reg
    /\ job.at = "removeFlush" => reg.jrnl = NoJournal
    /\ job.at \in {"removeCapsule", "removeMarker"} \cup Ended => reg.jrnl = NoJournal /\ durable = reg
    /\ job.at = "removeMarker" => c = NoCapsule
    /\ job.at \in Ended => Clean
    /\ job.at = "RecoveredOriginal" => job.plan = "original"

(***************************************************************************)
(* A save in progress.  What it finds may be of an earlier save; what it   *)
(* wrote is its own.                                                       *)
(***************************************************************************)
Known == app[job.p].secret

Stranger ==
    LET c == cred.capsule IN
    /\ ~job.late /\ cred.pairing = Known /\ Below(reg.pub, next - 1)
    /\ c # NoCapsule => c.id < next /\ Below(c.orig, next - 1) /\ Below(c.cand, next - 1)

Own == [id |-> next, orig |-> job.orig, cand |-> job.cand, had |-> Known # None,
        trans |-> Known # job.secret, secret |-> job.secret]

OwnJournal == reg.jrnl \in Journals /\ <<reg.jrnl.id, reg.jrnl.orig, reg.jrnl.cand>> = <<next, job.orig, job.cand>>

Mine ==
    /\ cred.capsule = Own
    /\ cred.pairing \in {Known, job.secret} /\ (cred.pairing # Known => job.late)

Saving ==
    job.why = "save" =>
    /\ job.orig \in Pubs /\ job.cand \in Pubs /\ Below(job.orig, next - 1)
    /\ \A k \in Keys : job.cand[k] \in {job.orig[k], next - 1}
    /\ job.secret # None => job.secret < next
    /\ job.at \in {"begin", "capsule"} =>
         Stranger /\ reg.pub = job.orig /\ Version(job.cand, job.secret) \in versions
    /\ job.at = "capsule" => Clean /\ cred.key
    /\ job.at \in {"begin", "capsule"} \cup Preparing => job.dest = job.cand
    /\ job.at \in Preparing =>
         /\ Mine \/ (job.at = "dropCapsule" /\ cred.capsule = NoCapsule)
         /\ cred.marker = None /\ cred.pairing = Known /\ ~job.late
         /\ reg.pub = job.orig /\ Whole(reg) /\ Whole(durable)
         /\ Version(job.orig, cred.pairing) \in versions
    /\ job.at \in {"journal", "undoFlush", "dropCapsule"} => reg.jrnl = NoJournal
    /\ job.at = "journalFull" => reg.jrnl = Torn
    /\ job.at = "journalFlush" => OwnJournal
    /\ job.at \in {"apply"} \cup Forward /\ ~job.rec =>
         /\ Mine /\ cred.marker = None /\ cred.pairing = Known /\ ~job.late
         /\ OwnJournal
    /\ job.at \in Forward => job.dest = job.cand /\ reg.pub = job.cand /\ durable.pub = job.cand
    /\ job.at \in Closing /\ ~job.rec => Mine /\ cred.pairing = job.secret /\ job.late
    /\ job.at = "recover" => (Mine /\ cred.marker = None) \/ (Stranger /\ reg.pub = job.orig)
    /\ job.at \in {"apply"} \cup Closing /\ job.rec =>
         (Mine /\ (job.plan = "candidate" <=> cred.pairing # Known)) \/ Stranger
    /\ job.at \in Ended \cup {"removeMarker"} =>
         IF job.late /\ job.at \in {"removeMarker", "RecoveredCandidate", "committed"}
         THEN reg.pub = job.cand /\ cred.pairing = job.secret
         ELSE cred.pairing = Known /\ Below(reg.pub, next - 1)
    /\ job.at \in {"committed", "removeMarker"} /\ ~job.rec => job.late

(***************************************************************************)
(* While no call failed and nobody wrote around a journal, recovery finds  *)
(* what it can make sense of, now and after a power failure.               *)
(***************************************************************************)
Sane(r) ==
    LET c == cred.capsule IN
    /\ c = NoCapsule => r.jrnl = NoJournal
    /\ c # NoCapsule =>
         /\ r.jrnl # NoJournal => <<r.jrnl.id, r.jrnl.orig, r.jrnl.cand>> = <<c.id, c.orig, c.cand>>
         /\ \A k \in Keys : r.pub[k] \in {c.orig[k], c.cand[k]}
         /\ cred.marker # None => cred.marker = c.id /\ r.pub = c.cand /\ cred.pairing = c.secret

Unhurt ==
    faults = 0 /\ ~spoiled =>
    /\ durable.jrnl # Torn /\ Sane(durable)
    /\ job.at # "journalFull" => reg.jrnl # Torn /\ Sane(reg)
    /\ job.at \in {"begin", "capsule", "journal", "journalFull", "journalFlush"} => durable.pub = reg.pub
    /\ job.at = "capsule" => durable.jrnl = NoJournal
    /\ job.at \in {"import", "restore"} => cred.capsule = NoCapsule
    /\ job.at \notin {"undoJournal", "undoFlush", "dropCapsule"} \cup Failed

SettingsInv == Shape /\ Versions /\ Stage /\ Saving /\ Unhurt

-----------------------------------------------------------------------------
(* What a call of a store does to the job and to the stores *)

Moved(at) ==
    /\ job' \in Jobs /\ job'.at = at /\ (job'.late <=> job.late \/ job.at = "swap")
    /\ job'.p = job.p /\ job'.why = job.why /\ job'.plan = job.plan /\ job'.rec = job.rec
    /\ job'.dest = job.dest /\ job'.orig = job.orig /\ job'.cand = job.cand
    /\ job'.secret = job.secret

LEMMA GoMoves ==
    ASSUME job \in Jobs, NEW at \in Stages, Go(at)
    PROVE  Moved(at)
  BY DEF Go, Moved, Jobs

\* A field of the credential store.
LEMMA PutPairing ==
    ASSUME cred \in Credentials, NEW v \in Codes, cred' = [cred EXCEPT !["pairing"] = v]
    PROVE  /\ cred' \in Credentials /\ cred'.pairing = v
           /\ cred'.capsule = cred.capsule /\ cred'.marker = cred.marker /\ cred'.key = cred.key
  BY DEF Credentials

LEMMA PutCapsule ==
    ASSUME cred \in Credentials, NEW v \in Capsules \cup {NoCapsule}, cred' = [cred EXCEPT !["capsule"] = v]
    PROVE  /\ cred' \in Credentials /\ cred'.capsule = v
           /\ cred'.pairing = cred.pairing /\ cred'.marker = cred.marker /\ cred'.key = cred.key
  BY DEF Credentials

LEMMA PutMarker ==
    ASSUME cred \in Credentials, NEW v \in Codes,
           cred' = [cred EXCEPT !["marker"] = v] \/ cred' = [cred EXCEPT !.marker = v]
    PROVE  /\ cred' \in Credentials /\ cred'.marker = v
           /\ cred'.pairing = cred.pairing /\ cred'.capsule = cred.capsule /\ cred'.key = cred.key
  BY DEF Credentials

LEMMA PutKey ==
    ASSUME cred \in Credentials, cred' = [cred EXCEPT !["key"] = TRUE]
    PROVE  /\ cred' \in Credentials /\ cred'.key = TRUE
           /\ cred'.pairing = cred.pairing /\ cred'.capsule = cred.capsule /\ cred'.marker = cred.marker
  BY DEF Credentials

\* The registry.
LEMMA SetJournal ==
    ASSUME reg \in Registries, NEW j \in Journals \cup {Torn, NoJournal}, NEW r, r = [reg EXCEPT !.jrnl = j]
    PROVE  r \in Registries /\ r.jrnl = j /\ r.pub = reg.pub /\ r.legacy = reg.legacy
  BY DEF Registries

LEMMA SetPub ==
    ASSUME reg \in Registries, NEW pub \in Pubs, NEW r, r = [reg EXCEPT !.pub = pub]
    PROVE  r \in Registries /\ r.pub = pub /\ r.jrnl = reg.jrnl /\ r.legacy = reg.legacy
  BY DEF Registries

\* The kinds of journals and capsules are different.
LEMMA Apart ==
    /\ NoCapsule \notin Capsules /\ NoCapsule.id = None
    /\ Torn \notin Journals /\ NoJournal \notin Journals /\ Torn # NoJournal
    /\ Torn.id = None /\ NoJournal.id = None
    /\ \A c \in Capsules : c.id \in Nat /\ c.id # None
    /\ \A j \in Journals : j.id \in Nat /\ j.id # None
  <1>1. None \notin Nat
    BY BoundsAssumption
  <1>2. DOMAIN Torn = {"id", "torn"} /\ DOMAIN NoJournal = {"id"}
    BY DEF Torn, NoJournal
  <1>3. Torn # NoJournal
    <2>1. "torn" \in {"id", "torn"} /\ "torn" \notin {"id"}
      OBVIOUS
    <2>2. QED
      BY <1>2, <2>1
  <1>4. NoCapsule.id = None /\ Torn.id = None /\ NoJournal.id = None
    BY DEF NoCapsule, Torn, NoJournal
  <1>5. \A c \in Capsules : c.id \in Nat
    BY DEF Capsules
  <1>6. \A j \in Journals : j.id \in Nat
    BY DEF Journals
  <1>7. QED
    BY <1>1, <1>3, <1>4, <1>5, <1>6

-----------------------------------------------------------------------------
LEMMA SettingsInitially == Init => SettingsInv
  <1> SUFFICES ASSUME Init PROVE SettingsInv
    OBVIOUS
  <1> USE BoundsAssumption
  <1>1. /\ reg.pub = [k \in Keys |-> 0] /\ reg.jrnl = NoJournal /\ reg.legacy \in {None, 1} /\ durable = reg
        /\ cred.pairing \in {None, 0, 1} /\ cred.capsule = NoCapsule /\ cred.marker = None
        /\ cred.key = FALSE
    BY DEF Init
  <1>2. reg \in Registries /\ cred \in Credentials
    BY DEF Init, Registries, Credentials, Pubs, Codes
  <1>3. Idle \in Jobs /\ Off \in Apps
    BY DEF Idle, Jobs, Off, Apps, Stages, Codes
  <1>4. job = Idle /\ job.at = "idle" /\ job.why = "none" /\ ~job.rec /\ job.plan = "save" /\ ~job.late
    BY DEF Init, Idle
  <1>5. Shape
    <2>1. Below(reg.pub, next) /\ next \in 2 .. MaxSaves + 2
      BY <1>1 DEF Init, Below
    <2>2. reg.jrnl.id = None
      BY <1>1, Apart
    <2>3. app \in [Procs -> Apps] /\ faults \in Nat /\ spoiled \in BOOLEAN /\ next = 2
      BY <1>3 DEF Init
    <2>4. QED
      BY <1>1, <1>2, <1>3, <1>4, <2>1, <2>2, <2>3 DEF Shape, SoundReg, SoundCred
  <1>6. Versions
    BY <1>1 DEF Init, Versions, Whole, Current
  <1>7. Stage
    BY <1>1, <1>4 DEF Stage, Closing, Ended
  <1>8. Saving
    BY <1>4 DEF Saving
  <1>9. Unhurt
    BY <1>1, <1>4, Apart DEF Unhurt, Sane, Failed
  <1>10. QED
    BY <1>5, <1>6, <1>7, <1>8, <1>9 DEF SettingsInv

\* A call that failed.
LEMMA Hurt ==
    ASSUME Shape, Fault
    PROVE  faults' \in Nat /\ Unhurt'
  BY DEF Shape, Fault, Unhurt

\* A job that has failed for good owes nothing but what the stores hold.
LEMMA GivesUp ==
    ASSUME SettingsInv, NEW at \in Failed, Moved(at), UNCHANGED <<app, next>>,
           at = "commitFailed" => job.why = "save" /\ ~job.rec,
           Shape', Versions', Unhurt', job.why # "save" => job.at # "swap"
    PROVE  SettingsInv'
  <1>1. Stage'
    BY DEF SettingsInv, Stage, Moved, Failed, Closing, Ended
  <1>2. Saving'
    BY DEF SettingsInv, Saving, Moved, Failed, Closing, Ended, Preparing, Forward
  <1>3. QED
    BY <1>1, <1>2 DEF SettingsInv

\* A save that has failed looks at what is there.
LEMMA BacksOut ==
    ASSUME SettingsInv, Moved("recover"), job.why = "save", ~job.rec, UNCHANGED <<app, next>>,
           Shape', Versions', Unhurt',
           (Mine' /\ cred'.marker = None) \/ (Stranger' /\ reg'.pub = job.orig)
    PROVE  SettingsInv'
  <1>1. Stage'
    BY DEF SettingsInv, Stage, Moved, Closing, Ended
  <1>2. Saving'
    BY DEF SettingsInv, Saving, Moved, Closing, Ended, Preparing, Forward
  <1>3. QED
    BY <1>1, <1>2 DEF SettingsInv

LEMMA ShapeMoved ==
    ASSUME Shape, NEW at, Moved(at), at # "idle", job.at # "idle", UNCHANGED <<app, next, spoiled>>,
           faults' \in Nat, SoundReg(reg', next), SoundReg(durable', next), SoundCred(cred', next)
    PROVE  Shape'
  <1>1. SoundReg(reg', next') /\ SoundReg(durable', next') /\ SoundCred(cred', next')
    OBVIOUS
  <1>2. QED
    BY <1>1 DEF Shape, Moved

\* Only a save gets to these steps, and before recovery.
LEMMA OnlySaves ==
    ASSUME SettingsInv, job.at \in {"begin", "capsule", "commitFailed"} \cup Preparing \cup Forward
    PROVE  job.why = "save" /\ ~job.rec /\ job.plan = "save" /\ job.at # "idle" /\ job.p \in Procs
  BY DEF SettingsInv, Shape, Stage, Preparing, Forward, Closing, Jobs

-----------------------------------------------------------------------------
(* The steps of a save *)

LEMMA BeginStep == SettingsInv /\ Begin => SettingsInv'
  <1> SUFFICES ASSUME SettingsInv, Begin PROVE SettingsInv'
    OBVIOUS
  <1>0. /\ Shape /\ job \in Jobs /\ job.at = "begin" /\ job.why = "save" /\ ~job.rec /\ job.plan = "save"
        /\ Stranger /\ reg.pub = job.orig /\ job.dest = job.cand /\ cred \in Credentials /\ faults \in Nat
        /\ SoundReg(reg, next) /\ SoundReg(durable, next) /\ SoundCred(cred, next)
    BY OnlySaves DEF SettingsInv, Begin, Saving, Shape, SoundCred
  <1>1. "recover" \in Stages /\ "capsule" \in Stages
    BY DEF Stages
  <1>2. CASE ~Clean
    <2>1. Moved("recover") /\ UNCHANGED <<stores, faults>> /\ Rest
      BY <1>0, <1>1, <1>2, GoMoves DEF Begin
    <2>2. UNCHANGED <<reg, durable, cred, app, next, versions, spoiled, faults>>
      BY <2>1 DEF stores, Rest, history
    <2>3. Shape'
      BY <1>0, <2>1, <2>2, ShapeMoved
    <2>4. Versions'
      BY <1>0, <2>2 DEF SettingsInv, Versions, Whole
    <2>5. Unhurt'
      BY <1>0, <2>1, <2>2 DEF SettingsInv, Unhurt, Sane, Moved, Failed
    <2>6. Stranger' /\ reg'.pub = job.orig
      BY <1>0, <2>1, <2>2 DEF Stranger, Moved, Known
    <2>7. QED
      BY <1>0, <2>1, <2>2, <2>3, <2>4, <2>5, <2>6, BacksOut
  <1>3. CASE Clean
    <2>0. Put("key", TRUE, "capsule", "recover")
      BY <1>0, <1>3 DEF Begin
    <2>1. /\ UNCHANGED <<reg, durable, app, next, versions, spoiled>>
          /\ \/ cred' = [cred EXCEPT !["key"] = TRUE] /\ Moved("capsule") /\ UNCHANGED faults
             \/ Fault /\ cred' \in {cred, [cred EXCEPT !["key"] = TRUE]} /\ Moved("recover")
      BY <1>0, <1>1, <2>0, GoMoves DEF Put, Rest, history
    <2>2. /\ cred' \in Credentials /\ cred'.pairing = cred.pairing /\ cred'.marker = None
          /\ cred'.capsule = NoCapsule /\ cred.capsule = NoCapsule /\ cred.marker = None
      BY <1>0, <1>3, <2>1, PutKey DEF Clean
    <2>3. SoundCred(cred', next)
      BY <1>0, <2>2 DEF SoundCred
    <2>4. Versions'
      BY <1>0, <2>1, <2>2 DEF SettingsInv, Versions, Whole
    <2>5. CASE cred' = [cred EXCEPT !["key"] = TRUE] /\ Moved("capsule") /\ UNCHANGED faults
      <3>1. Shape'
        BY <1>0, <2>1, <2>3, <2>5, ShapeMoved
      <3>2. Stage'
        BY <1>0, <2>5 DEF SettingsInv, Stage, Moved, Closing, Ended
      <3>3. cred'.key = TRUE
        BY <1>0, <2>5, PutKey
      <3>4. Saving'
        BY <1>0, <1>3, <2>1, <2>2, <2>5, <3>3
           DEF SettingsInv, Saving, Stranger, Moved, Known, Clean, Closing, Ended, Preparing, Forward
      <3>5. Unhurt'
        BY <1>0, <1>3, <2>1, <2>2, <2>5 DEF SettingsInv, Unhurt, Sane, Moved, Failed, Clean
      <3>6. QED
        BY <2>4, <3>1, <3>2, <3>4, <3>5 DEF SettingsInv
    <2>6. CASE Fault /\ Moved("recover")
      <3>1. faults' \in Nat /\ Unhurt'
        BY <1>0, <2>6, Hurt
      <3>2. Shape'
        BY <1>0, <2>1, <2>3, <2>6, <3>1, ShapeMoved
      <3>3. Stranger' /\ reg'.pub = job.orig
        BY <1>0, <2>1, <2>2, <2>6 DEF Stranger, Moved, Known
      <3>4. QED
        BY <1>0, <2>1, <2>4, <2>6, <3>1, <3>2, <3>3, BacksOut
    <2>7. QED
      BY <2>1, <2>5, <2>6
  <1>4. QED
    BY <1>2, <1>3

\* The capsule of a save has the shape of one.
LEMMA OwnType ==
    ASSUME SettingsInv, job.why = "save", job.at # "idle"
    PROVE  /\ Own \in Capsules /\ Own # NoCapsule /\ Own.id = next /\ Own.orig = job.orig /\ Own.cand = job.cand
           /\ Own.secret = job.secret /\ (Own.trans <=> Known # job.secret) /\ (Own.had <=> Known # None)
           /\ Below(job.orig, next) /\ Below(job.cand, next) /\ Known \in Codes /\ job.secret \in Codes
           /\ next \in 1 .. next /\ next \in Nat
  <1>1. /\ job.orig \in Pubs /\ job.cand \in Pubs /\ Below(job.orig, next - 1) /\ job.secret \in Codes
        /\ \A k \in Keys : job.cand[k] \in {job.orig[k], next - 1}
        /\ next \in Nat /\ next >= 1 /\ app[job.p] \in Apps /\ Known \in Codes
    BY BoundsAssumption DEF SettingsInv, Saving, Shape, Jobs, Apps, Known
  <1>2. Below(job.orig, next) /\ Below(job.cand, next)
    BY <1>1 DEF Below, Pubs
  <1>3. Own \in Capsules /\ Own.id = next /\ Own.orig = job.orig /\ Own.cand = job.cand
        /\ Own.secret = job.secret /\ (Own.trans <=> Known # job.secret) /\ (Own.had <=> Known # None)
    BY <1>1 DEF Own, Capsules
  <1>4. QED
    BY <1>1, <1>2, <1>3, Apart

LEMMA CapsuleStep == SettingsInv /\ WriteCapsule => SettingsInv'
  <1> SUFFICES ASSUME SettingsInv, WriteCapsule PROVE SettingsInv'
    OBVIOUS
  <1>0. /\ Shape /\ job \in Jobs /\ job.at = "capsule" /\ job.why = "save" /\ ~job.rec /\ job.plan = "save"
        /\ Stranger /\ reg.pub = job.orig /\ job.dest = job.cand /\ cred \in Credentials /\ faults \in Nat
        /\ SoundReg(reg, next) /\ SoundReg(durable, next) /\ SoundCred(cred, next)
        /\ Version(job.cand, job.secret) \in versions
        /\ reg.jrnl = NoJournal /\ cred.capsule = NoCapsule /\ cred.marker = None /\ cred.key
        /\ cred.pairing = Known /\ ~job.late
    BY OnlySaves DEF SettingsInv, WriteCapsule, Saving, Shape, SoundCred, Stranger, Clean
  <1>1. /\ "journal" \in Stages /\ "dropCapsule" \in Stages
    BY DEF Stages, Preparing
  <1>2. /\ Own \in Capsules /\ Own # NoCapsule /\ Own.id = next /\ Own.orig = job.orig /\ Own.cand = job.cand
        /\ Own.secret = job.secret /\ (Own.trans <=> Known # job.secret) /\ (Own.had <=> Known # None)
        /\ Below(job.orig, next) /\ Below(job.cand, next) /\ next \in 1 .. next
    BY <1>0, OwnType
  <1>3. Put("capsule", Own, "journal", "dropCapsule")
    BY <1>0 DEF WriteCapsule, Own
  <1>4. /\ UNCHANGED <<reg, durable, app, next, versions, spoiled>>
        /\ \/ cred' = [cred EXCEPT !["capsule"] = Own] /\ Moved("journal") /\ UNCHANGED faults
           \/ Fault /\ cred' \in {cred, [cred EXCEPT !["capsule"] = Own]} /\ Moved("dropCapsule")
    BY <1>0, <1>1, <1>3, GoMoves DEF Put, Rest, history
  <1>5. /\ cred' \in Credentials /\ cred'.pairing = cred.pairing /\ cred'.marker = None
        /\ cred'.key = cred.key /\ cred'.capsule \in {NoCapsule, Own}
    BY <1>0, <1>2, <1>4, PutCapsule
  <1>6. SoundCred(cred', next)
    BY <1>0, <1>2, <1>5 DEF SoundCred
  <1>7. Whole(reg) /\ Whole(durable) /\ Version(job.orig, cred.pairing) \in versions
    BY <1>0 DEF SettingsInv, Versions, Whole
  <1>8. Whole(reg)' /\ Whole(durable)' /\ Version(job.orig, cred.pairing)' \in versions'
    <2>1. Moved("journal") \/ Moved("dropCapsule")
      BY <1>4
    <2>2. job'.orig = job.orig
      BY <2>1 DEF Moved
    <2>3. QED
      BY <1>4, <1>5, <1>7, <2>2 DEF Whole, Version
  <1>9. Versions'
    BY <1>0, <1>2, <1>4, <1>5, <1>7, <1>8 DEF Versions
  <1>10. Known' = Known /\ Own' = Own
    <2>1. Moved("journal") \/ Moved("dropCapsule")
      BY <1>4
    <2>2. QED
      BY <1>4, <2>1 DEF Known, Own, Moved
  <1>11. CASE cred' = [cred EXCEPT !["capsule"] = Own] /\ Moved("journal") /\ UNCHANGED faults
    <2>1. Shape'
      BY <1>0, <1>4, <1>6, <1>11, ShapeMoved
    <2>2. Stage'
      BY <1>0, <1>11 DEF SettingsInv, Stage, Moved, Closing, Ended
    <2>3. cred'.capsule = Own
      BY <1>0, <1>2, <1>11, PutCapsule
    <2>4. Mine'
      BY <1>0, <1>5, <1>10, <1>11, <2>3 DEF Mine, Moved
    <2>5. Saving'
      BY <1>0, <1>4, <1>5, <1>8, <1>10, <1>11, <2>4
         DEF SettingsInv, Saving, Moved, Closing, Ended, Preparing, Forward
    <2>6. Unhurt'
      <3> SUFFICES ASSUME faults = 0, ~spoiled PROVE Unhurt'
        BY <1>4, <1>11 DEF Unhurt
      <3>1. durable.jrnl = NoJournal /\ durable.pub = reg.pub
        BY <1>0 DEF SettingsInv, Unhurt
      <3>2. QED
        BY <1>0, <1>2, <1>4, <1>5, <1>11, <2>3, <3>1, Apart DEF Unhurt, Sane, Moved, Failed
    <2>7. QED
      BY <1>9, <2>1, <2>2, <2>5, <2>6 DEF SettingsInv
  <1>12. CASE Fault /\ Moved("dropCapsule")
    <2>1. faults' \in Nat /\ Unhurt'
      BY <1>0, <1>12, Hurt
    <2>2. Shape'
      BY <1>0, <1>4, <1>6, <1>12, <2>1, ShapeMoved
    <2>3. Stage'
      BY <1>0, <1>12 DEF SettingsInv, Stage, Moved, Closing, Ended
    <2>4. cred'.capsule = Own => Mine'
      BY <1>0, <1>5, <1>10, <1>12 DEF Mine, Moved
    <2>5. Saving'
      BY <1>0, <1>4, <1>5, <1>8, <1>10, <1>12, <2>4
         DEF SettingsInv, Saving, Moved, Closing, Ended, Preparing, Forward
    <2>6. QED
      BY <1>9, <2>1, <2>2, <2>3, <2>5 DEF SettingsInv
  <1>13. QED
    BY <1>4, <1>11, <1>12

\* While the save prepares itself only the journal changes.
LEMMA PreparingFacts ==
    ASSUME SettingsInv, job.at \in Preparing, job.at # "dropCapsule"
    PROVE  /\ Shape /\ job \in Jobs /\ job.why = "save" /\ ~job.rec /\ job.plan = "save" /\ job.at # "idle"
           /\ Mine /\ cred.capsule = Own /\ cred.marker = None /\ cred.pairing = Known /\ ~job.late
           /\ reg.pub = job.orig /\ job.dest = job.cand
           /\ Whole(durable) /\ Version(job.orig, cred.pairing) \in versions
           /\ reg \in Registries /\ faults \in Nat
           /\ SoundReg(reg, next) /\ SoundReg(durable, next) /\ SoundCred(cred, next)
  BY OnlySaves DEF SettingsInv, Saving, Shape, Mine, SoundReg

LEMMA PreparingMoves ==
    ASSUME SettingsInv, job.at \in Preparing, job.at # "dropCapsule", NEW at \in Preparing, Moved(at),
           UNCHANGED <<cred, app, next, versions, spoiled>>, reg'.pub = reg.pub,
           durable' \in {durable, reg}, SoundReg(reg', next), faults' \in Nat, Unhurt',
           at \in {"journal", "undoFlush", "dropCapsule"} => reg'.jrnl = NoJournal,
           at = "journalFull" => reg'.jrnl = Torn,
           at = "journalFlush" => OwnJournal'
    PROVE  SettingsInv'
  <1>0. /\ Shape /\ job \in Jobs /\ job.why = "save" /\ ~job.rec /\ job.plan = "save" /\ job.at # "idle"
        /\ Mine /\ cred.capsule = Own /\ cred.marker = None /\ cred.pairing = Known /\ ~job.late
        /\ reg.pub = job.orig /\ job.dest = job.cand
        /\ Whole(durable) /\ Version(job.orig, cred.pairing) \in versions
        /\ SoundReg(reg, next) /\ SoundReg(durable, next) /\ SoundCred(cred, next)
    BY PreparingFacts
  <1>1. at # "idle"
    BY DEF Preparing
  <1>2. SoundReg(durable', next) /\ SoundCred(cred', next)
    BY <1>0
  <1>3. Shape'
    BY <1>0, <1>1, <1>2, ShapeMoved
  <1>4. job'.orig = job.orig /\ job'.late = job.late
    BY <1>0 DEF Moved, Preparing, Jobs
  <1>5. Whole(reg)' /\ Whole(durable)' /\ Version(job.orig, cred.pairing)' \in versions'
    BY <1>0, <1>4 DEF Whole, Version
  <1>6. Known' = Known /\ Own' = Own
    BY <1>0 DEF Known, Own, Moved
  <1>7. Mine'
    BY <1>0, <1>4, <1>6 DEF Mine, Moved
  <1>8. Versions'
    BY <1>5 DEF SettingsInv, Versions
  <1>9. Stage'
    BY <1>0 DEF SettingsInv, Stage, Moved, Closing, Ended, Preparing
  <1>10. Saving'
    BY <1>0, <1>4, <1>5, <1>6, <1>7
       DEF SettingsInv, Saving, Moved, Closing, Ended, Preparing, Forward
  <1>11. QED
    BY <1>3, <1>8, <1>9, <1>10 DEF SettingsInv

LEMMA JournalStep == SettingsInv /\ WriteJournal => SettingsInv'
  <1> SUFFICES ASSUME SettingsInv, WriteJournal PROVE SettingsInv'
    OBVIOUS
  <1>a. {"journal", "journalFull", "journalFlush", "undoJournal"} \subseteq Preparing
        /\ Preparing \subseteq Stages /\ "apply" \in Stages
    BY DEF Preparing, Stages
  <1>0. /\ job.at \in {"journal", "journalFull", "journalFlush"}
        /\ Shape /\ job \in Jobs /\ job.why = "save" /\ ~job.rec /\ job.plan = "save" /\ job.at # "idle"
        /\ Mine /\ cred.capsule = Own /\ cred.marker = None /\ cred.pairing = Known /\ ~job.late
        /\ reg.pub = job.orig /\ job.dest = job.cand /\ reg \in Registries /\ faults \in Nat
        /\ SoundReg(reg, next) /\ SoundReg(durable, next) /\ SoundCred(cred, next)
    <2>1. job.at \in {"journal", "journalFull", "journalFlush"}
      BY DEF WriteJournal
    <2>2. QED
      BY <1>a, <2>1, PreparingFacts
  <1>b. /\ Own \in Capsules /\ Own # NoCapsule /\ Own.id = next /\ Own.orig = job.orig /\ Own.cand = job.cand
        /\ next \in 1 .. next /\ next \in Nat
    BY <1>0, OwnType
  <1>1. CASE job.at = "journal" /\ Set([reg EXCEPT !.jrnl = Torn], "journalFull")
    <2>1. /\ Moved("journalFull") /\ UNCHANGED <<durable, cred, faults, app, next, versions, spoiled>>
          /\ reg' = [reg EXCEPT !.jrnl = Torn]
      BY <1>0, <1>1, <1>a, GoMoves DEF Set, Rest, history
    <2>2. reg' \in Registries /\ reg'.pub = reg.pub /\ reg'.jrnl = Torn /\ reg'.legacy = reg.legacy
      BY <1>0, <2>1, SetJournal
    <2>3. SoundReg(reg', next)
      BY <1>0, <2>2, Apart DEF SoundReg
    <2>4. Unhurt'
      BY <1>1, <2>1, <2>2 DEF SettingsInv, Unhurt, Sane, Moved, Failed
    <2>5. QED
      BY <1>0, <1>1, <1>a, <2>1, <2>2, <2>3, <2>4, PreparingMoves
  <1>2. CASE /\ job.at = "journalFull"
             /\ Set([reg EXCEPT !.jrnl = [id |-> cred.capsule.id, orig |-> job.orig, cand |-> job.cand,
                                          applied |-> FALSE]], "journalFlush")
    <2> DEFINE j == [id |-> cred.capsule.id, orig |-> job.orig, cand |-> job.cand, applied |-> FALSE]
    <2>1. /\ Moved("journalFlush") /\ UNCHANGED <<durable, cred, faults, app, next, versions, spoiled>>
          /\ reg' = [reg EXCEPT !.jrnl = j]
      BY <1>0, <1>2, <1>a, GoMoves DEF Set, Rest, history
    <2>2. j \in Journals /\ j.id = next /\ j.orig = job.orig /\ j.cand = job.cand
      BY <1>0, <1>b DEF Journals, Capsules
    <2> HIDE DEF j
    <2>3. reg' \in Registries /\ reg'.pub = reg.pub /\ reg'.jrnl = j /\ reg'.legacy = reg.legacy
      BY <1>0, <2>1, <2>2, SetJournal
    <2>4. SoundReg(reg', next)
      BY <1>0, <1>b, <2>2, <2>3 DEF SoundReg
    <2>5. OwnJournal'
      BY <2>1, <2>2, <2>3 DEF OwnJournal, Moved
    <2>6. Unhurt'
      <3> SUFFICES ASSUME faults = 0, ~spoiled PROVE Unhurt'
        BY <2>1 DEF Unhurt
      <3>1. durable.jrnl # Torn /\ Sane(durable) /\ durable.pub = reg.pub
        BY <1>2 DEF SettingsInv, Unhurt
      <3>2. reg'.jrnl # Torn
        BY <2>2, <2>3, Apart
      <3>3. Sane(reg)'
        BY <1>0, <1>b, <2>1, <2>2, <2>3 DEF Sane
      <3>4. Sane(durable)'
        BY <2>1, <3>1 DEF Sane
      <3>5. QED
        BY <2>1, <2>3, <3>1, <3>2, <3>3, <3>4 DEF Unhurt, Moved, Failed
    <2>7. QED
      BY <1>0, <1>2, <1>a, <2>1, <2>3, <2>4, <2>5, <2>6, PreparingMoves
  <1>3. CASE FlushFails("undoJournal") /\ job.at \in {"journalFlush", "journalFull"}
    <2>1. /\ Moved("undoJournal") /\ UNCHANGED <<reg, cred, app, next, versions, spoiled>> /\ Fault
          /\ durable' \in {durable, reg}
      BY <1>0, <1>3, <1>a, GoMoves DEF FlushFails, Rest, history
    <2>2. faults' \in Nat /\ Unhurt'
      BY <1>0, <2>1, Hurt
    <2>3. SoundReg(reg', next) /\ reg'.pub = reg.pub
      BY <1>0, <2>1
    <2>4. QED
      BY <1>3, <1>a, <2>1, <2>2, <2>3, PreparingMoves
  <1>4. CASE /\ job.at = "journalFlush" /\ durable' = reg /\ Go("apply")
             /\ UNCHANGED <<reg, cred, faults>> /\ Rest
    <2>1. Moved("apply") /\ UNCHANGED <<reg, cred, app, next, versions, spoiled, faults>> /\ durable' = reg
      BY <1>0, <1>4, <1>a, GoMoves DEF Rest, history
    <2>2. Shape'
      BY <1>0, <2>1, ShapeMoved
    <2>3. Known' = Known /\ Own' = Own /\ OwnJournal' /\ job'.late = job.late
      BY <1>0, <1>4, <2>1 DEF Known, Own, OwnJournal, Moved, SettingsInv, Saving, Jobs
    <2>4. Mine'
      BY <1>0, <2>1, <2>3 DEF Mine, Moved
    <2>5. Versions'
      BY <1>0, <1>b, <2>1 DEF SettingsInv, Versions, Whole
    <2>6. Stage'
      BY <1>0, <1>b, <2>1 DEF SettingsInv, Stage, Moved, Closing, Ended
    <2>7. Saving'
      BY <1>0, <2>1, <2>3, <2>4
         DEF SettingsInv, Saving, Moved, Closing, Ended, Preparing, Forward
    <2>8. Unhurt'
      BY <1>4, <2>1 DEF SettingsInv, Unhurt, Sane, Moved, Failed
    <2>9. QED
      BY <2>2, <2>5, <2>6, <2>7, <2>8 DEF SettingsInv
  <1>5. QED
    BY <1>1, <1>2, <1>3, <1>4 DEF WriteJournal, Flush

LEMMA UndoStep == SettingsInv /\ Undo => SettingsInv'
  <1> SUFFICES ASSUME SettingsInv, Undo PROVE SettingsInv'
    OBVIOUS
  <1>a. {"undoJournal", "undoFlush", "dropCapsule"} \subseteq Preparing
        /\ Preparing \subseteq Stages /\ "recover" \in Stages
    BY DEF Preparing, Stages
  <1>1. CASE job.at = "undoJournal" /\ Set([reg EXCEPT !.jrnl = NoJournal], "undoFlush")
    <2>0. job \in Jobs /\ reg \in Registries /\ SoundReg(reg, next) /\ Shape /\ faults \in Nat
      BY <1>1, <1>a, PreparingFacts
    <2>1. /\ Moved("undoFlush") /\ UNCHANGED <<durable, cred, faults, app, next, versions, spoiled>>
          /\ reg' = [reg EXCEPT !.jrnl = NoJournal]
      BY <2>0, <1>1, <1>a, GoMoves DEF Set, Rest, history
    <2>2. reg' \in Registries /\ reg'.pub = reg.pub /\ reg'.jrnl = NoJournal /\ reg'.legacy = reg.legacy
      BY <2>0, <2>1, SetJournal
    <2>3. SoundReg(reg', next)
      BY <2>0, <2>2, Apart DEF SoundReg
    <2>4. Unhurt'
      BY <1>1, <2>1 DEF SettingsInv, Unhurt
    <2>5. QED
      BY <1>1, <1>a, <2>0, <2>1, <2>2, <2>3, <2>4, PreparingMoves
  <1>2. CASE job.at = "undoFlush" /\ Flush("dropCapsule", "dropCapsule")
    <2>0. /\ job \in Jobs /\ reg \in Registries /\ SoundReg(reg, next) /\ Shape /\ faults \in Nat
          /\ reg.jrnl = NoJournal
      BY <1>2, <1>a, PreparingFacts DEF SettingsInv, Saving
    <2>1. /\ Moved("dropCapsule") /\ UNCHANGED <<reg, cred, app, next, versions, spoiled>>
          /\ durable' \in {durable, reg} /\ (Fault \/ faults' = faults)
      BY <2>0, <1>2, <1>a, GoMoves DEF Flush, FlushFails, Rest, history
    <2>2. faults' \in Nat /\ Unhurt'
      <3>1. CASE Fault
        BY <2>0, <3>1, Hurt
      <3>2. CASE faults' = faults
        BY <2>0, <2>1, <3>2, <1>2 DEF SettingsInv, Unhurt
      <3>3. QED
        BY <2>1, <3>1, <3>2
    <2>3. SoundReg(reg', next) /\ reg'.pub = reg.pub /\ reg'.jrnl = NoJournal
      BY <2>0, <2>1
    <2>4. QED
      BY <1>2, <1>a, <2>1, <2>2, <2>3, PreparingMoves
  <1>3. CASE job.at = "dropCapsule" /\ Put("capsule", NoCapsule, "recover", "recover")
    <2>0. /\ Shape /\ job \in Jobs /\ job.why = "save" /\ ~job.rec /\ job.plan = "save" /\ job.at # "idle"
          /\ Mine \/ cred.capsule = NoCapsule
          /\ cred.marker = None /\ cred.pairing = Known /\ ~job.late
          /\ reg.pub = job.orig /\ Whole(reg) /\ Whole(durable) /\ cred \in Credentials /\ faults \in Nat
          /\ SoundReg(reg, next) /\ SoundReg(durable, next) /\ SoundCred(cred, next)
          /\ Below(job.orig, next - 1)
      BY <1>3, <1>a, OnlySaves DEF SettingsInv, Saving, Shape, SoundCred
    <2>1. /\ Moved("recover") /\ UNCHANGED <<reg, durable, app, next, versions, spoiled>>
          /\ cred' \in {cred, [cred EXCEPT !["capsule"] = NoCapsule]} /\ (Fault \/ faults' = faults)
      BY <2>0, <1>3, <1>a, GoMoves DEF Put, Rest, history
    <2>2. /\ cred' \in Credentials /\ cred'.pairing = cred.pairing /\ cred'.marker = cred.marker
          /\ cred'.key = cred.key /\ cred'.capsule \in {cred.capsule, NoCapsule}
      BY <2>0, <2>1, PutCapsule
    <2>3. SoundCred(cred', next)
      BY <2>0, <2>2 DEF SoundCred
    <2>4. faults' \in Nat /\ Unhurt'
      <3>1. CASE Fault
        BY <2>0, <3>1, Hurt
      <3>2. CASE faults' = faults
        BY <2>0, <2>1, <3>2, <1>3 DEF SettingsInv, Unhurt
      <3>3. QED
        BY <2>1, <3>1, <3>2
    <2>5. Shape'
      BY <2>0, <2>1, <2>3, <2>4, ShapeMoved
    <2>6. Versions'
      BY <2>0, <2>1, <2>2 DEF SettingsInv, Versions, Whole
    <2>7. Known' = Known /\ Own' = Own /\ job'.late = job.late
      BY <1>3, <2>0, <2>1 DEF Known, Own, Moved, Jobs
    <2>8. (Mine' /\ cred'.marker = None) \/ (Stranger' /\ reg'.pub = job.orig)
      <3>1. CASE cred'.capsule = NoCapsule
        BY <2>0, <2>1, <2>2, <2>7, <3>1 DEF Stranger
      <3>2. CASE cred'.capsule = cred.capsule /\ Mine
        BY <2>0, <2>1, <2>2, <2>7, <3>2 DEF Mine, Moved
      <3>3. QED
        BY <2>0, <2>2, <3>1, <3>2
    <2>9. QED
      BY <2>0, <2>1, <2>4, <2>5, <2>6, <2>8, BacksOut
  <1>4. QED
    BY <1>1, <1>2, <1>3 DEF Undo

-----------------------------------------------------------------------------
(* The steps of a save and of a recovery *)

\* While there is a capsule the registry may hold anything.
LEMMA CapsuleKept ==
    ASSUME Versions, UNCHANGED <<cred, versions>>, cred.capsule # NoCapsule
    PROVE  Versions'
  BY DEF Versions

\* A job that applies settings.
LEMMA ApplyingFacts ==
    ASSUME SettingsInv, job.at = "apply"
    PROVE  /\ Shape /\ job \in Jobs /\ faults \in Nat /\ reg \in Registries /\ job.p \in Procs
           /\ SoundReg(reg, next) /\ SoundReg(durable, next) /\ SoundCred(cred, next)
           /\ cred.capsule # NoCapsule /\ cred.capsule \in Capsules
           /\ job.dest = IF job.plan = "original" THEN cred.capsule.orig ELSE cred.capsule.cand
           /\ job.dest \in Pubs /\ Below(job.dest, next)
           /\ (job.rec => job.plan # "save") /\ (~job.rec => job.plan = "save" /\ job.why = "save")
           /\ ~job.rec => Mine /\ cred.marker = None /\ cred.pairing = Known /\ ~job.late /\ OwnJournal
                          /\ job.dest = job.cand
           /\ job.plan = "original" => cred.marker = None /\ Version(cred.capsule.orig, cred.pairing) \in versions
           /\ job.plan = "candidate" => cred.pairing = cred.capsule.secret
           /\ job.why = "save" /\ job.rec =>
                (Mine /\ (job.plan = "candidate" <=> cred.pairing # Known)) \/ Stranger
  <1>1. /\ Shape /\ job \in Jobs /\ faults \in Nat /\ reg \in Registries /\ job.p \in Procs
        /\ SoundReg(reg, next) /\ SoundReg(durable, next) /\ SoundCred(cred, next)
        /\ cred \in Credentials
    BY DEF SettingsInv, Shape, SoundReg, SoundCred
  <1>2. /\ cred.capsule # NoCapsule
        /\ job.dest = IF job.plan = "original" THEN cred.capsule.orig ELSE cred.capsule.cand
        /\ (job.rec => job.plan # "save") /\ (~job.rec => job.plan = "save" /\ job.why = "save")
        /\ job.plan = "original" => cred.marker = None /\ Version(cred.capsule.orig, cred.pairing) \in versions
        /\ job.plan = "candidate" => cred.pairing = cred.capsule.secret
    BY DEF SettingsInv, Stage
  <1>3. cred.capsule \in Capsules
    BY <1>1, <1>2 DEF Credentials
  <1>4. cred.capsule.orig \in Pubs /\ cred.capsule.cand \in Pubs
    BY <1>3 DEF Capsules
  <1>5. job.dest \in Pubs /\ Below(job.dest, next)
    BY <1>1, <1>2, <1>4 DEF SoundCred
  <1>6. /\ ~job.rec => Mine /\ cred.marker = None /\ cred.pairing = Known /\ ~job.late /\ OwnJournal
        /\ job.why = "save" /\ job.rec =>
                (Mine /\ (job.plan = "candidate" <=> cred.pairing # Known)) \/ Stranger
    BY <1>2 DEF SettingsInv, Saving
  <1>7. ~job.rec => job.dest = job.cand
    BY <1>2, <1>6 DEF Mine, Own
  <1>8. QED
    BY <1>1, <1>2, <1>3, <1>5, <1>6, <1>7

LEMMA ApplyStep == SettingsInv /\ Apply => SettingsInv'
  <1> SUFFICES ASSUME SettingsInv, Apply PROVE SettingsInv'
    OBVIOUS
  <1>a. /\ "apply" \in Stages /\ "mark" \in Stages /\ "commit" \in Stages /\ "removeJournal" \in Stages
        /\ "Blocked" \in Stages /\ "recover" \in Stages /\ "Blocked" \in Failed
    BY DEF Stages, Forward, Closing, Failed
  <1>0. /\ job.at = "apply" /\ Shape /\ job \in Jobs /\ faults \in Nat /\ reg \in Registries /\ job.p \in Procs
        /\ SoundReg(reg, next) /\ SoundReg(durable, next) /\ SoundCred(cred, next)
        /\ cred.capsule # NoCapsule /\ cred.capsule \in Capsules
        /\ job.dest = IF job.plan = "original" THEN cred.capsule.orig ELSE cred.capsule.cand
        /\ job.dest \in Pubs /\ Below(job.dest, next)
        /\ (job.rec => job.plan # "save") /\ (~job.rec => job.plan = "save" /\ job.why = "save")
        /\ ~job.rec => Mine /\ cred.marker = None /\ cred.pairing = Known /\ ~job.late /\ OwnJournal
                       /\ job.dest = job.cand
        /\ job.plan = "original" => cred.marker = None /\ Version(cred.capsule.orig, cred.pairing) \in versions
        /\ job.plan = "candidate" => cred.pairing = cred.capsule.secret
        /\ job.why = "save" /\ job.rec =>
             (Mine /\ (job.plan = "candidate" <=> cred.pairing # Known)) \/ Stranger
    <2>1. job.at = "apply"
      BY DEF Apply
    <2>2. QED
      BY <2>1, ApplyingFacts
  <1>1. ASSUME NEW k \in Keys, reg.pub[k] # job.dest[k], Set([reg EXCEPT !.pub[k] = job.dest[k]], "apply")
        PROVE  SettingsInv'
    <2>1. /\ Moved("apply") /\ UNCHANGED <<durable, cred, faults, app, next, versions, spoiled>>
          /\ reg' = [reg EXCEPT !.pub[k] = job.dest[k]]
      BY <1>0, <1>1, <1>a, GoMoves DEF Set, Rest, history
    <2>2. /\ reg' \in Registries /\ reg'.jrnl = reg.jrnl /\ reg'.pub[k] = job.dest[k] /\ reg'.pub \in Pubs
          /\ reg'.legacy = reg.legacy /\ \A l \in Keys : l # k => reg'.pub[l] = reg.pub[l]
      BY <1>0, <2>1 DEF Registries, Pubs
    <2>3. SoundReg(reg', next)
      BY <1>0, <2>2 DEF SoundReg, Below
    <2>4. Shape'
      BY <1>0, <2>1, <2>3, ShapeMoved
    <2>5. Versions'
      BY <1>0, <2>1, CapsuleKept DEF SettingsInv
    <2>6. \A l \in Keys : reg'.pub[l] \in {cred.capsule.orig[l], cred.capsule.cand[l]}
      BY <1>0, <2>2 DEF SettingsInv, Stage
    <2>7. job'.late = job.late /\ Known' = Known /\ Own' = Own /\ OwnJournal' = OwnJournal
      BY <1>0, <2>1, <2>2 DEF Moved, Known, Own, OwnJournal, Jobs
    <2>8. Mine' = Mine
      BY <2>1, <2>7 DEF Mine, Moved
    <2>9. Stranger => Stranger'
      <3> SUFFICES ASSUME Stranger PROVE Stranger'
        OBVIOUS
      <3>1. Below(job.dest, next - 1) /\ Below(reg.pub, next - 1)
        BY <1>0 DEF Stranger
      <3>2. Below(reg'.pub, next - 1)
        BY <2>2, <3>1 DEF Below
      <3>3. QED
        BY <2>1, <2>7, <3>2 DEF Stranger
    <2>10. Stage'
      <3>1. \A l \in Keys : reg'.pub[l] \in {cred'.capsule.orig[l], cred'.capsule.cand[l]}
        BY <2>1, <2>6
      <3>2. QED
        BY <1>0, <2>1, <3>1 DEF SettingsInv, Stage, Moved, Closing, Ended
    <2>11. Saving'
      BY <1>0, <2>1, <2>7, <2>8, <2>9
         DEF SettingsInv, Saving, Moved, Closing, Ended, Preparing, Forward
    <2>12. Unhurt'
      <3> SUFFICES ASSUME faults = 0, ~spoiled PROVE Unhurt'
        BY <2>1 DEF Unhurt
      <3>1. durable.jrnl # Torn /\ Sane(durable) /\ reg.jrnl # Torn /\ Sane(reg)
        BY <1>0 DEF SettingsInv, Unhurt
      <3>2. Sane(durable)'
        BY <2>1, <3>1 DEF Sane
      <3>3. cred.marker = None
        <4>1. SUFFICES ASSUME cred.marker # None PROVE FALSE
          OBVIOUS
        <4>2. job.dest = cred.capsule.cand
          BY <1>0, <4>1
        <4>3. reg.pub = cred.capsule.cand
          BY <1>0, <3>1, <4>1 DEF Sane
        <4>4. QED
          BY <1>1, <4>2, <4>3
      <3>4. Sane(reg)'
        BY <1>0, <2>1, <2>2, <2>6, <3>1, <3>3 DEF Sane
      <3>5. QED
        BY <2>1, <2>2, <3>1, <3>2, <3>4 DEF Unhurt, Moved, Failed
    <2>13. QED
      BY <2>4, <2>5, <2>10, <2>11, <2>12 DEF SettingsInv
  <1>2. CASE FlushFails(ApplyFailed)
    <2>1. ApplyFailed \in Stages /\ ApplyFailed = IF job.rec THEN "Blocked" ELSE "recover"
      BY <1>a DEF ApplyFailed
    <2>2. /\ Moved(ApplyFailed) /\ UNCHANGED <<reg, cred, app, next, versions, spoiled>> /\ Fault
          /\ durable' \in {durable, reg}
      BY <1>0, <1>2, <2>1, GoMoves DEF FlushFails, Rest, history
    <2>3. faults' \in Nat /\ Unhurt'
      BY <1>0, <2>2, Hurt
    <2>4. SoundReg(reg', next) /\ SoundReg(durable', next) /\ SoundCred(cred', next)
      BY <1>0, <2>2
    <2>5. Shape'
      BY <1>0, <2>1, <2>2, <2>3, <2>4, ShapeMoved
    <2>6. Versions'
      BY <1>0, <2>2, CapsuleKept DEF SettingsInv
    <2>7. CASE job.rec
      <3>1. Moved("Blocked")
        BY <2>1, <2>2, <2>7
      <3>2. QED
        BY <1>0, <1>a, <2>2, <2>3, <2>5, <2>6, <3>1, GivesUp
    <2>8. CASE ~job.rec
      <3>1. Moved("recover")
        BY <2>1, <2>2, <2>8
      <3>2. Known' = Known /\ Own' = Own /\ job'.late = job.late
        BY <1>0, <2>2, <3>1 DEF Moved, Known, Own, Jobs
      <3>3. Mine' /\ cred'.marker = None
        BY <1>0, <2>2, <2>8, <3>1, <3>2 DEF Mine, Moved
      <3>4. QED
        BY <1>0, <2>2, <2>3, <2>5, <2>6, <2>8, <3>1, <3>3, BacksOut
    <2>9. QED
      BY <2>7, <2>8
  <1>3. CASE reg.pub = job.dest /\ durable' = reg /\ Go(Applied) /\ UNCHANGED <<reg, cred, faults>> /\ Rest
    <2>1. /\ Applied \in {"mark", "commit", "removeJournal"}
          /\ (job.plan = "save" => Applied = "mark") /\ (job.plan = "candidate" => Applied = "commit")
          /\ (job.plan = "original" => Applied = "removeJournal")
      BY <1>0 DEF Applied, Jobs
    <2>2. Moved(Applied) /\ UNCHANGED <<reg, cred, app, next, versions, spoiled, faults>> /\ durable' = reg
      BY <1>0, <1>3, <1>a, <2>1, GoMoves DEF Rest, history
    <2> HIDE DEF Applied
    <2>3. SoundReg(reg', next) /\ SoundReg(durable', next) /\ SoundCred(cred', next)
      BY <1>0, <2>2
    <2>4. Shape'
      BY <1>0, <2>1, <2>2, <2>3, ShapeMoved
    <2>5. Versions'
      BY <1>0, <2>2, CapsuleKept DEF SettingsInv
    <2>6. job'.late = job.late /\ Known' = Known /\ Own' = Own /\ OwnJournal' = OwnJournal
      BY <1>0, <2>2 DEF Moved, Known, Own, OwnJournal, Jobs
    <2>7. Mine' = Mine
      BY <2>2, <2>6 DEF Mine, Moved
    <2>8. Stranger => Stranger'
      BY <2>2, <2>6 DEF Stranger
    <2>9. Stage'
      <3>1. reg'.pub = job'.dest /\ durable'.pub = job'.dest
        BY <1>3, <2>2 DEF Moved
      <3>2. CASE job.plan = "save"
        <4>1. Moved("mark")
          BY <2>1, <2>2, <3>2
        <4>2. QED
          BY <1>0, <2>2, <3>1, <3>2, <4>1 DEF SettingsInv, Stage, Moved, Closing, Ended
      <3>3. CASE job.plan = "candidate"
        <4>1. Moved("commit")
          BY <2>1, <2>2, <3>3
        <4>2. QED
          BY <1>0, <2>2, <3>1, <3>3, <4>1 DEF SettingsInv, Stage, Moved, Closing, Ended
      <3>4. CASE job.plan = "original"
        <4>1. Moved("removeJournal")
          BY <2>1, <2>2, <3>4
        <4>2. QED
          BY <1>0, <2>2, <3>1, <3>4, <4>1 DEF SettingsInv, Stage, Moved, Closing, Ended
      <3>5. QED
        BY <1>0, <3>2, <3>3, <3>4 DEF Jobs
    <2>10. Saving'
      <3>1. CASE job.rec
        <4>1. Moved("commit") \/ Moved("removeJournal")
          BY <1>0, <2>1, <2>2, <3>1 DEF Jobs
        <4>2. QED
          BY <1>0, <1>3, <2>2, <2>6, <2>7, <2>8, <3>1, <4>1
             DEF SettingsInv, Saving, Moved, Closing, Ended, Preparing, Forward
      <3>2. CASE ~job.rec
        <4>1. Moved("mark")
          BY <1>0, <2>1, <2>2, <3>2
        <4>2. QED
          BY <1>0, <1>3, <2>2, <2>6, <2>7, <3>2, <4>1
             DEF SettingsInv, Saving, Moved, Closing, Ended, Preparing, Forward
      <3>3. QED
        BY <3>1, <3>2
    <2>11. Unhurt'
      BY <1>0, <2>1, <2>2 DEF SettingsInv, Unhurt, Sane, Moved, Failed
    <2>12. QED
      BY <2>4, <2>5, <2>9, <2>10, <2>11 DEF SettingsInv
  <1>4. QED
    BY <1>1, <1>2, <1>3 DEF Apply

\* A save that has applied its settings, and not yet its code.
LEMMA ForwardFacts ==
    ASSUME SettingsInv, job.at \in Forward
    PROVE  /\ Shape /\ job \in Jobs /\ faults \in Nat /\ reg \in Registries /\ cred \in Credentials
           /\ SoundReg(reg, next) /\ SoundReg(durable, next) /\ SoundCred(cred, next)
           /\ job.why = "save" /\ ~job.rec /\ job.plan = "save" /\ job.at # "idle"
           /\ Mine /\ cred.capsule = Own /\ cred.capsule # NoCapsule /\ cred.marker = None
           /\ cred.pairing = Known /\ ~job.late /\ OwnJournal
           /\ reg.pub = job.cand /\ durable.pub = job.cand
  <1>1. job.why = "save" /\ ~job.rec /\ job.plan = "save" /\ job.at # "idle"
    BY OnlySaves
  <1>2. Own # NoCapsule
    BY <1>1, OwnType
  <1>3. QED
    BY <1>1, <1>2 DEF SettingsInv, Saving, Shape, SoundReg, SoundCred, Mine

LEMMA MarkStep == SettingsInv /\ MarkPublicApplied => SettingsInv'
  <1> SUFFICES ASSUME SettingsInv, MarkPublicApplied PROVE SettingsInv'
    OBVIOUS
  <1>a. {"mark", "markFlush", "swap"} = Forward /\ Forward \subseteq Stages /\ "recover" \in Stages
    BY DEF Stages, Forward
  <1>0. /\ job.at \in {"mark", "markFlush"}
        /\ Shape /\ job \in Jobs /\ faults \in Nat /\ reg \in Registries
        /\ SoundReg(reg, next) /\ SoundReg(durable, next) /\ SoundCred(cred, next)
        /\ job.why = "save" /\ ~job.rec /\ job.plan = "save" /\ job.at # "idle"
        /\ Mine /\ cred.capsule # NoCapsule /\ cred.marker = None /\ cred.pairing = Known /\ ~job.late
        /\ OwnJournal /\ reg.pub = job.cand /\ durable.pub = job.cand
    <2>1. job.at \in {"mark", "markFlush"}
      BY DEF MarkPublicApplied
    <2>2. QED
      BY <1>a, <2>1, ForwardFacts
  <1>1. ASSUME NEW at \in {"markFlush", "swap"}, Moved(at), UNCHANGED <<cred, app, next, versions, spoiled, faults>>,
               reg'.pub = reg.pub, durable' \in {durable, reg}, SoundReg(reg', next), OwnJournal',
               Unhurt'
        PROVE  SettingsInv'
    <2>1. SoundReg(durable', next) /\ SoundCred(cred', next) /\ faults' \in Nat /\ durable'.pub = job.cand
      BY <1>0, <1>1
    <2>2. Shape'
      BY <1>0, <1>1, <2>1, ShapeMoved
    <2>3. Versions'
      BY <1>0, <1>1, CapsuleKept DEF SettingsInv
    <2>4. Known' = Known /\ Own' = Own /\ job'.late = job.late
      BY <1>0, <1>1 DEF Moved, Known, Own, Jobs
    <2>5. Mine'
      BY <1>0, <1>1, <2>4 DEF Mine, Moved
    <2>6. Stage'
      BY <1>0, <1>1 DEF SettingsInv, Stage, Moved, Closing, Ended
    <2>7. Saving'
      BY <1>0, <1>1, <2>1, <2>4, <2>5
         DEF SettingsInv, Saving, Moved, Closing, Ended, Preparing, Forward
    <2>8. QED
      BY <1>1, <2>2, <2>3, <2>6, <2>7 DEF SettingsInv
  <1>2. CASE job.at = "mark" /\ Set([reg EXCEPT !.jrnl.applied = TRUE], "markFlush")
    <2>1. /\ Moved("markFlush") /\ UNCHANGED <<durable, cred, faults, app, next, versions, spoiled>>
          /\ reg' = [reg EXCEPT !.jrnl.applied = TRUE]
      BY <1>0, <1>2, <1>a, GoMoves DEF Set, Rest, history
    <2>2. reg.jrnl \in Journals
      BY <1>0 DEF OwnJournal
    <2>3. /\ reg' \in Registries /\ reg'.pub = reg.pub /\ reg'.legacy = reg.legacy
          /\ reg'.jrnl = [reg.jrnl EXCEPT !.applied = TRUE]
      BY <1>0, <2>1, <2>2 DEF Registries, Journals
    <2>4. reg'.jrnl \in Journals /\ reg'.jrnl.id = reg.jrnl.id /\ reg'.jrnl.orig = reg.jrnl.orig
          /\ reg'.jrnl.cand = reg.jrnl.cand
      BY <2>2, <2>3 DEF Journals
    <2>5. SoundReg(reg', next)
      BY <1>0, <2>3, <2>4 DEF SoundReg
    <2>6. OwnJournal'
      BY <1>0, <2>1, <2>4 DEF OwnJournal, Moved
    <2>7. Unhurt'
      BY <1>0, <1>2, <2>1, <2>2, <2>3, <2>4, Apart DEF SettingsInv, Unhurt, Sane, Moved, Failed
    <2>8. QED
      BY <1>1, <2>1, <2>3, <2>5, <2>6, <2>7
  <1>3. CASE job.at = "markFlush" /\ Flush("swap", "recover")
    <2>1. /\ UNCHANGED <<reg, cred, app, next, versions, spoiled>> /\ durable' \in {durable, reg}
          /\ \/ Moved("swap") /\ UNCHANGED faults /\ durable' = reg
             \/ Moved("recover") /\ Fault
      BY <1>0, <1>3, <1>a, GoMoves DEF Flush, FlushFails, Rest, history
    <2>2. CASE Moved("swap") /\ UNCHANGED faults /\ durable' = reg
      <3>1. OwnJournal' /\ SoundReg(reg', next)
        BY <1>0, <2>1, <2>2 DEF OwnJournal, Moved
      <3>2. Unhurt'
        BY <1>3, <2>1, <2>2 DEF SettingsInv, Unhurt, Sane, Moved, Failed
      <3>3. QED
        BY <1>1, <2>1, <2>2, <3>1, <3>2
    <2>3. CASE Moved("recover") /\ Fault
      <3>1. faults' \in Nat /\ Unhurt'
        BY <1>0, <2>3, Hurt
      <3>2. SoundReg(reg', next) /\ SoundReg(durable', next) /\ SoundCred(cred', next)
        BY <1>0, <2>1
      <3>3. Shape'
        BY <1>0, <2>1, <2>3, <3>1, <3>2, ShapeMoved
      <3>4. Versions'
        BY <1>0, <2>1, CapsuleKept DEF SettingsInv
      <3>5. Known' = Known /\ Own' = Own /\ job'.late = job.late
        BY <1>0, <1>3, <2>1, <2>3 DEF Moved, Known, Own, Jobs
      <3>6. Mine' /\ cred'.marker = None
        BY <1>0, <2>1, <2>3, <3>5 DEF Mine, Moved
      <3>7. QED
        BY <1>0, <2>1, <2>3, <3>1, <3>3, <3>4, <3>6, BacksOut
    <2>4. QED
      BY <2>1, <2>2, <2>3
  <1>4. QED
    BY <1>2, <1>3 DEF MarkPublicApplied

\* With the new code there is the new version, or nothing to go forward to.
LEMMA SwapStep == SettingsInv /\ CompareAndSwap => SettingsInv'
  <1> SUFFICES ASSUME SettingsInv, CompareAndSwap PROVE SettingsInv'
    OBVIOUS
  <1>a. "swap" \in Forward /\ "commit" \in Stages /\ "recover" \in Stages
    BY DEF Stages, Forward, Closing
  <1>0. /\ job.at = "swap" /\ Shape /\ job \in Jobs /\ faults \in Nat /\ cred \in Credentials
        /\ SoundReg(reg, next) /\ SoundReg(durable, next) /\ SoundCred(cred, next)
        /\ job.why = "save" /\ ~job.rec /\ job.plan = "save" /\ job.at # "idle"
        /\ Mine /\ cred.capsule = Own /\ cred.capsule # NoCapsule /\ cred.marker = None
        /\ cred.pairing = Known /\ ~job.late
        /\ OwnJournal /\ reg.pub = job.cand /\ durable.pub = job.cand
        /\ (job.secret # None => job.secret < next)
    <2>1. job.at = "swap"
      BY DEF CompareAndSwap
    <2>2. QED
      BY <1>a, <2>1, ForwardFacts DEF SettingsInv, Saving
  <1>b. /\ Own.cand = job.cand /\ Own.orig = job.orig /\ Own.secret = job.secret
        /\ (Own.trans <=> Known # job.secret) /\ job.secret \in Codes
    BY <1>0, OwnType
  <1>1. /\ UNCHANGED <<reg, durable, app, next, versions, spoiled>>
        /\ cred' \in {cred, [cred EXCEPT !["pairing"] = job.secret]}
        /\ \/ Moved("commit") /\ UNCHANGED faults /\ cred' = [cred EXCEPT !["pairing"] = job.secret]
           \/ Moved("recover") /\ Fault
    BY <1>0, <1>a, GoMoves DEF CompareAndSwap, Put, Rest, history
  <1>2. /\ cred' \in Credentials /\ cred'.pairing \in {Known, job.secret}
        /\ cred'.capsule = cred.capsule /\ cred'.marker = None /\ cred'.key = cred.key
        /\ (cred' = [cred EXCEPT !["pairing"] = job.secret] => cred'.pairing = job.secret)
    BY <1>0, <1>1, <1>b, PutPairing
  <1>3. SoundCred(cred', next) /\ SoundReg(reg', next) /\ SoundReg(durable', next)
    BY <1>0, <1>1, <1>2 DEF SoundCred
  <1>4. Versions'
    BY <1>0, <1>b, <1>1, <1>2 DEF SettingsInv, Versions
  <1>5. Known' = Known /\ Own' = Own /\ job'.late
    <2>1. Moved("commit") \/ Moved("recover")
      BY <1>1
    <2>2. QED
      BY <1>0, <1>1, <2>1 DEF Moved, Known, Own
  <1>6. Mine'
    <2>1. Moved("commit") \/ Moved("recover")
      BY <1>1
    <2>2. job'.secret = job.secret
      BY <2>1 DEF Moved
    <2>3. QED
      BY <1>0, <1>2, <1>5, <2>2 DEF Mine
  <1>7. CASE Moved("commit") /\ UNCHANGED faults /\ cred' = [cred EXCEPT !["pairing"] = job.secret]
    <2>1. cred'.pairing = job.secret
      BY <1>2, <1>7
    <2>2. Shape'
      BY <1>0, <1>1, <1>3, <1>7, ShapeMoved
    <2>3. job.dest = job.cand
      BY <1>0, <1>b DEF SettingsInv, Stage, Saving, Forward
    <2>4. Stage'
      BY <1>0, <1>b, <1>1, <1>2, <1>7, <2>1, <2>3 DEF SettingsInv, Stage, Moved, Closing, Ended
    <2>5. Saving'
      BY <1>0, <1>1, <1>2, <1>5, <1>6, <1>7, <2>1
         DEF SettingsInv, Saving, Moved, Closing, Ended, Preparing, Forward
    <2>6. Unhurt'
      BY <1>0, <1>1, <1>2, <1>7 DEF SettingsInv, Unhurt, Sane, Moved, Failed
    <2>7. QED
      BY <1>4, <2>2, <2>4, <2>5, <2>6 DEF SettingsInv
  <1>8. CASE Moved("recover") /\ Fault
    <2>1. faults' \in Nat /\ Unhurt'
      BY <1>0, <1>8, Hurt
    <2>2. Shape'
      BY <1>0, <1>1, <1>3, <1>8, <2>1, ShapeMoved
    <2>3. QED
      BY <1>0, <1>1, <1>2, <1>4, <1>6, <1>8, <2>1, <2>2, BacksOut
  <1>9. QED
    BY <1>1, <1>7, <1>8

\* A job that removes what it has left, or is about to.
LEMMA ClosingFacts ==
    ASSUME SettingsInv, job.at \in Closing
    PROVE  /\ Shape /\ job \in Jobs /\ faults \in Nat /\ reg \in Registries /\ job.at # "idle"
           /\ SoundReg(reg, next) /\ SoundReg(durable, next) /\ SoundCred(cred, next) /\ cred \in Credentials
           /\ cred.capsule # NoCapsule /\ cred.capsule \in Capsules
           /\ job.dest = IF job.plan = "original" THEN cred.capsule.orig ELSE cred.capsule.cand
           /\ reg.pub = job.dest /\ durable.pub = job.dest /\ job.at # "swap"
           /\ (job.rec => job.plan # "save")
           /\ (~job.rec => job.plan = "save" /\ job.why = "save" /\ Mine /\ cred.pairing = job.secret /\ job.late)
           /\ job.plan = "original" => cred.marker = None /\ Version(cred.capsule.orig, cred.pairing) \in versions
           /\ job.plan # "original" => cred.pairing = cred.capsule.secret
           /\ job.why = "save" /\ job.rec =>
                (Mine /\ (job.plan = "candidate" <=> cred.pairing # Known)) \/ Stranger
  <1>1. /\ Shape /\ job \in Jobs /\ faults \in Nat /\ reg \in Registries /\ job.at # "idle" /\ job.at # "swap"
        /\ SoundReg(reg, next) /\ SoundReg(durable, next) /\ SoundCred(cred, next) /\ cred \in Credentials
    BY DEF SettingsInv, Shape, SoundReg, SoundCred, Closing
  <1>2. /\ cred.capsule # NoCapsule
        /\ job.dest = IF job.plan = "original" THEN cred.capsule.orig ELSE cred.capsule.cand
        /\ reg.pub = job.dest /\ durable.pub = job.dest
        /\ (job.rec => job.plan # "save") /\ (~job.rec => job.plan = "save" /\ job.why = "save")
        /\ job.plan = "original" => cred.marker = None /\ Version(cred.capsule.orig, cred.pairing) \in versions
        /\ job.plan = "candidate" => cred.pairing = cred.capsule.secret
    BY DEF SettingsInv, Stage, Closing
  <1>3. cred.capsule \in Capsules
    BY <1>1, <1>2 DEF Credentials
  <1>4. /\ ~job.rec => Mine /\ cred.pairing = job.secret /\ job.late
        /\ job.why = "save" /\ job.rec =>
                (Mine /\ (job.plan = "candidate" <=> cred.pairing # Known)) \/ Stranger
    BY <1>2 DEF SettingsInv, Saving
  <1>5. job.plan = "save" => cred.pairing = cred.capsule.secret
    BY <1>2, <1>4 DEF Mine, Own
  <1>6. QED
    BY <1>1, <1>2, <1>3, <1>4, <1>5 DEF Jobs

LEMMA ClosingMoves ==
    ASSUME SettingsInv, job.at \in Closing, NEW at \in Closing \ {"commit"}, Moved(at),
           UNCHANGED <<app, next, versions, spoiled>>, Shape', Unhurt',
           cred'.pairing = cred.pairing, cred'.capsule = cred.capsule,
           reg'.pub = reg.pub, durable'.pub = durable.pub,
           job.plan = "original" => cred'.marker = None,
           at = "removeJournal" => job.plan # "original",
           at \in {"removeFlush", "removeCapsule"} => reg'.jrnl = NoJournal,
           at = "removeCapsule" => durable' = reg'
    PROVE  SettingsInv'
  <1>0. /\ job \in Jobs /\ job.at # "idle" /\ job.at # "swap"
        /\ cred.capsule # NoCapsule
        /\ job.dest = IF job.plan = "original" THEN cred.capsule.orig ELSE cred.capsule.cand
        /\ reg.pub = job.dest /\ durable.pub = job.dest
        /\ (job.rec => job.plan # "save")
        /\ (~job.rec => job.plan = "save" /\ job.why = "save" /\ Mine /\ cred.pairing = job.secret /\ job.late)
        /\ job.plan = "original" => Version(cred.capsule.orig, cred.pairing) \in versions
        /\ job.plan # "original" => cred.pairing = cred.capsule.secret
        /\ job.why = "save" /\ job.rec =>
             (Mine /\ (job.plan = "candidate" <=> cred.pairing # Known)) \/ Stranger
    BY ClosingFacts
  <1>1. job'.late = job.late /\ Known' = Known /\ Own' = Own
    BY <1>0 DEF Moved, Known, Own, Jobs
  <1>2. Mine' = Mine
    BY <1>1 DEF Mine, Moved
  <1>3. Stranger => Stranger'
    BY <1>1 DEF Stranger
  <1>4. Versions'
    BY <1>0 DEF SettingsInv, Versions
  <1>5. Stage'
    <2>1. \A k \in Keys : reg'.pub[k] \in {cred'.capsule.orig[k], cred'.capsule.cand[k]}
      BY DEF SettingsInv, Stage
    <2>2. Version(cred'.capsule.orig, cred'.pairing) = Version(cred.capsule.orig, cred.pairing)
      OBVIOUS
    <2>3. QED
      BY <1>0, <1>1, <2>1, <2>2 DEF SettingsInv, Stage, Moved, Closing, Ended
  <1>6. Saving'
    BY <1>0, <1>1, <1>2, <1>3
       DEF SettingsInv, Saving, Moved, Closing, Ended, Preparing, Forward
  <1>7. QED
    BY <1>4, <1>5, <1>6 DEF SettingsInv

\* A commit, or a recovery, that fails is over.
LEMMA CommitFails ==
    ASSUME SettingsInv, job.at \in Closing \cup {"removeMarker"}, Moved(CommitFailed),
           UNCHANGED <<app, next>>, Shape', Versions', Unhurt'
    PROVE  SettingsInv'
  <1>1. CommitFailed \in Failed /\ (CommitFailed = "commitFailed" => ~job.rec)
    BY DEF CommitFailed, Failed
  <1>2. ~job.rec => job.why = "save"
    BY DEF SettingsInv, Stage, Closing
  <1>3. job.at # "swap"
    BY DEF Closing
  <1>4. QED
    BY <1>1, <1>2, <1>3, GivesUp

LEMMA CommitStep == SettingsInv /\ Commit => SettingsInv'
  <1> SUFFICES ASSUME SettingsInv, Commit PROVE SettingsInv'
    OBVIOUS
  <1>a. /\ "commit" \in Closing /\ "removeJournal" \in Closing \ {"commit"} /\ "removeJournal" \in Stages
        /\ CommitFailed \in Stages /\ CommitFailed # "idle"
    BY DEF Stages, Closing, Failed, CommitFailed
  <1>0. /\ job.at = "commit" /\ Shape /\ job \in Jobs /\ faults \in Nat /\ job.at # "idle"
        /\ SoundReg(reg, next) /\ SoundReg(durable, next) /\ SoundCred(cred, next) /\ cred \in Credentials
        /\ cred.capsule # NoCapsule /\ cred.capsule \in Capsules
        /\ job.dest = IF job.plan = "original" THEN cred.capsule.orig ELSE cred.capsule.cand
        /\ reg.pub = job.dest /\ durable.pub = job.dest
        /\ job.plan # "original" => cred.pairing = cred.capsule.secret
    <2>1. job.at = "commit"
      BY DEF Commit
    <2>2. QED
      BY <1>a, <2>1, ClosingFacts
  <1>1. job.plan # "original"
    BY <1>0 DEF SettingsInv, Stage
  <1>2. cred.capsule.id \in Codes /\ cred.capsule.id # None
    BY <1>0, Apart DEF Codes
  <1>3. /\ UNCHANGED <<reg, durable, app, next, versions, spoiled>>
        /\ cred' \in {cred, [cred EXCEPT !["marker"] = cred.capsule.id]}
        /\ \/ /\ Moved("removeJournal") /\ UNCHANGED faults
              /\ cred' = [cred EXCEPT !["marker"] = cred.capsule.id]
           \/ Moved(CommitFailed) /\ Fault
    BY <1>0, <1>a, GoMoves DEF Commit, Put, Rest, history
  <1>4. /\ cred' \in Credentials /\ cred'.marker \in {cred.marker, cred.capsule.id}
        /\ cred'.capsule = cred.capsule /\ cred'.pairing = cred.pairing /\ cred'.key = cred.key
        /\ (cred' = [cred EXCEPT !["marker"] = cred.capsule.id] => cred'.marker = cred.capsule.id)
    BY <1>0, <1>2, <1>3, PutMarker
  <1>5. SoundCred(cred', next) /\ SoundReg(reg', next) /\ SoundReg(durable', next)
    BY <1>0, <1>3, <1>4 DEF SoundCred
  <1>6. Versions'
    BY <1>0, <1>3, <1>4 DEF SettingsInv, Versions
  <1>7. CASE Moved("removeJournal") /\ UNCHANGED faults /\ cred' = [cred EXCEPT !["marker"] = cred.capsule.id]
    <2>1. Shape'
      BY <1>0, <1>3, <1>5, <1>7, ShapeMoved
    <2>2. Unhurt'
      <3> SUFFICES ASSUME faults = 0, ~spoiled PROVE Unhurt'
        BY <1>3, <1>7 DEF Unhurt
      <3>1. durable.jrnl # Torn /\ Sane(durable) /\ reg.jrnl # Torn /\ Sane(reg)
        BY <1>0 DEF SettingsInv, Unhurt
      <3>2. Sane(durable)' /\ Sane(reg)'
        BY <1>0, <1>1, <1>3, <1>4, <1>7, <3>1 DEF Sane
      <3>3. QED
        BY <1>3, <1>7, <3>1, <3>2 DEF Unhurt, Moved, Failed
    <2>3. QED
      BY <1>0, <1>1, <1>3, <1>4, <1>7, <1>a, <2>1, <2>2, ClosingMoves
  <1>8. CASE Moved(CommitFailed) /\ Fault
    <2>1. faults' \in Nat /\ Unhurt'
      BY <1>0, <1>8, Hurt
    <2>2. Shape'
      BY <1>0, <1>3, <1>5, <1>8, <1>a, <2>1, ShapeMoved
    <2>3. QED
      BY <1>0, <1>3, <1>6, <1>8, <1>a, <2>1, <2>2, CommitFails
  <1>9. QED
    BY <1>3, <1>7, <1>8

LEMMA RemoveJournalStep == SettingsInv /\ RemoveJournal => SettingsInv'
  <1> SUFFICES ASSUME SettingsInv, RemoveJournal PROVE SettingsInv'
    OBVIOUS
  <1>a. /\ {"removeJournal", "removeFlush", "removeCapsule"} \subseteq Closing \ {"commit"}
        /\ Closing \subseteq Stages /\ CommitFailed \in Stages /\ CommitFailed # "idle"
    BY DEF Stages, Closing, Failed, CommitFailed
  <1>0. /\ job.at \in {"removeJournal", "removeFlush"} /\ job.at \in Closing
        /\ Shape /\ job \in Jobs /\ faults \in Nat /\ job.at # "idle" /\ reg \in Registries
        /\ SoundReg(reg, next) /\ SoundReg(durable, next) /\ SoundCred(cred, next)
        /\ cred.capsule # NoCapsule /\ reg.pub = durable.pub
        /\ (job.plan = "original" => cred.marker = None)
    <2>1. job.at \in {"removeJournal", "removeFlush"}
      BY DEF RemoveJournal
    <2>2. QED
      BY <1>a, <2>1, ClosingFacts
  <1>1. CASE job.at = "removeJournal" /\ Set([reg EXCEPT !.jrnl = NoJournal], "removeFlush")
    <2>1. /\ Moved("removeFlush") /\ UNCHANGED <<durable, cred, faults, app, next, versions, spoiled>>
          /\ reg' = [reg EXCEPT !.jrnl = NoJournal]
      BY <1>0, <1>1, <1>a, GoMoves DEF Set, Rest, history
    <2>2. reg' \in Registries /\ reg'.pub = reg.pub /\ reg'.jrnl = NoJournal /\ reg'.legacy = reg.legacy
      BY <1>0, <2>1, SetJournal
    <2>3. SoundReg(reg', next)
      BY <1>0, <2>2, Apart DEF SoundReg
    <2>4. Shape'
      BY <1>0, <2>1, <2>3, ShapeMoved
    <2>5. Unhurt'
      BY <1>0, <1>1, <2>1, <2>2, Apart DEF SettingsInv, Unhurt, Sane, Moved, Failed
    <2>6. QED
      BY <1>0, <1>a, <2>1, <2>2, <2>4, <2>5, ClosingMoves
  <1>2. CASE /\ job.at = "removeJournal" /\ job.plan = "original" /\ reg.jrnl = NoJournal
             /\ Go("removeCapsule") /\ UNCHANGED <<stores, faults>> /\ Rest
    <2>1. /\ Moved("removeCapsule") /\ UNCHANGED <<reg, durable, cred, faults, app, next, versions, spoiled>>
      BY <1>0, <1>2, <1>a, GoMoves DEF Rest, history, stores
    <2>2. Shape'
      BY <1>0, <2>1, ShapeMoved
    <2>3. Unhurt'
      BY <1>0, <1>2, <2>1 DEF SettingsInv, Unhurt, Sane, Moved, Failed
    <2>4. durable = reg
      BY <1>2 DEF SettingsInv, Stage
    <2>5. QED
      BY <1>0, <1>2, <1>a, <2>1, <2>2, <2>3, <2>4, ClosingMoves
  <1>3. CASE job.at = "removeFlush" /\ Flush("removeCapsule", CommitFailed)
    <2>1. /\ UNCHANGED <<reg, cred, app, next, versions, spoiled>> /\ durable' \in {durable, reg}
          /\ \/ Moved("removeCapsule") /\ UNCHANGED faults /\ durable' = reg
             \/ Moved(CommitFailed) /\ Fault
      BY <1>0, <1>3, <1>a, GoMoves DEF Flush, FlushFails, Rest, history
    <2>2. SoundReg(reg', next) /\ SoundReg(durable', next) /\ SoundCred(cred', next)
      BY <1>0, <2>1
    <2>3. CASE Moved("removeCapsule") /\ UNCHANGED faults /\ durable' = reg
      <3>1. Shape'
        BY <1>0, <2>1, <2>2, <2>3, ShapeMoved
      <3>2. Unhurt'
        BY <1>0, <1>3, <2>1, <2>3 DEF SettingsInv, Unhurt, Sane, Moved, Failed
      <3>3. reg.jrnl = NoJournal
        BY <1>3 DEF SettingsInv, Stage
      <3>4. QED
        BY <1>0, <1>3, <1>a, <2>1, <2>3, <3>1, <3>2, <3>3, ClosingMoves
    <2>4. CASE Moved(CommitFailed) /\ Fault
      <3>1. faults' \in Nat /\ Unhurt'
        BY <1>0, <2>4, Hurt
      <3>2. Shape'
        BY <1>0, <1>a, <2>1, <2>2, <2>4, <3>1, ShapeMoved
      <3>3. Versions'
        BY <1>0, <2>1, CapsuleKept DEF SettingsInv
      <3>4. QED
        BY <1>0, <2>1, <2>4, <3>1, <3>2, <3>3, CommitFails
    <2>5. QED
      BY <2>1, <2>3, <2>4
  <1>4. QED
    BY <1>1, <1>2, <1>3 DEF RemoveJournal

\* Without the capsule what is there must be a version.
LEMMA RemoveCapsuleStep == SettingsInv /\ RemoveCapsule => SettingsInv'
  <1> SUFFICES ASSUME SettingsInv, RemoveCapsule PROVE SettingsInv'
    OBVIOUS
  <1> DEFINE ok == IF job.plan = "original" THEN "RecoveredOriginal" ELSE "removeMarker"
  <1>a. /\ "removeCapsule" \in Closing /\ ok \in Stages /\ ok # "idle"
        /\ CommitFailed \in Stages /\ CommitFailed # "idle"
    BY DEF Stages, Closing, Failed, CommitFailed, Ended
  <1>0. /\ job.at = "removeCapsule" /\ job.at \in Closing
        /\ Shape /\ job \in Jobs /\ faults \in Nat /\ job.at # "idle"
        /\ SoundReg(reg, next) /\ SoundReg(durable, next) /\ SoundCred(cred, next) /\ cred \in Credentials
        /\ cred.capsule # NoCapsule /\ cred.capsule \in Capsules
        /\ job.dest = IF job.plan = "original" THEN cred.capsule.orig ELSE cred.capsule.cand
        /\ reg.pub = job.dest
        /\ (job.rec => job.plan # "save")
        /\ (~job.rec => job.plan = "save" /\ job.why = "save" /\ Mine /\ cred.pairing = job.secret /\ job.late)
        /\ job.plan = "original" => cred.marker = None /\ Version(cred.capsule.orig, cred.pairing) \in versions
        /\ job.plan # "original" => cred.pairing = cred.capsule.secret
        /\ job.why = "save" /\ job.rec =>
             (Mine /\ (job.plan = "candidate" <=> cred.pairing # Known)) \/ Stranger
    <2>1. job.at = "removeCapsule"
      BY DEF RemoveCapsule
    <2>2. QED
      BY <1>a, <2>1, ClosingFacts
  <1>1. reg.jrnl = NoJournal /\ durable = reg
    BY <1>0 DEF SettingsInv, Stage
  <1>2. Version(reg.pub, cred.pairing) \in versions
    BY <1>0 DEF SettingsInv, Versions
  <1>3. /\ UNCHANGED <<reg, durable, app, next, versions, spoiled>>
        /\ cred' \in {cred, [cred EXCEPT !["capsule"] = NoCapsule]}
        /\ \/ Moved(ok) /\ UNCHANGED faults /\ cred' = [cred EXCEPT !["capsule"] = NoCapsule]
           \/ Moved(CommitFailed) /\ Fault
    BY <1>0, <1>a, GoMoves DEF RemoveCapsule, Put, Rest, history
  <1>4. /\ cred' \in Credentials /\ cred'.capsule \in {cred.capsule, NoCapsule}
        /\ cred'.marker = cred.marker /\ cred'.pairing = cred.pairing /\ cred'.key = cred.key
        /\ (cred' = [cred EXCEPT !["capsule"] = NoCapsule] => cred'.capsule = NoCapsule)
    BY <1>0, <1>3, PutCapsule
  <1>5. SoundCred(cred', next) /\ SoundReg(reg', next) /\ SoundReg(durable', next)
    BY <1>0, <1>3, <1>4 DEF SoundCred
  <1>6. Versions'
    <2>1. CASE cred'.capsule = NoCapsule
      BY <1>1, <1>2, <1>3, <1>4, <2>1 DEF Versions, Whole
    <2>2. CASE cred'.capsule = cred.capsule
      BY <1>0, <1>3, <1>4, <2>2 DEF SettingsInv, Versions
    <2>3. QED
      BY <1>4, <2>1, <2>2
  <1>7. CASE Moved(ok) /\ UNCHANGED faults /\ cred' = [cred EXCEPT !["capsule"] = NoCapsule]
    <2>0. cred'.capsule = NoCapsule
      BY <1>4, <1>7
    <2>1. Shape'
      BY <1>0, <1>3, <1>5, <1>7, <1>a, ShapeMoved
    <2>2. job'.late = job.late /\ Known' = Known /\ job'.cand = job.cand /\ job'.secret = job.secret
      BY <1>0, <1>3, <1>7 DEF Moved, Known, Jobs
    <2>3. CASE job.plan = "original"
      <3>1. Moved("RecoveredOriginal") /\ job.rec
        BY <1>0, <1>7, <2>3
      <3>2. Stage'
        BY <1>0, <1>1, <1>3, <1>4, <2>0, <2>3, <3>1 DEF SettingsInv, Stage, Moved, Closing, Ended, Clean
      <3>3. job.why = "save" => cred.pairing = Known /\ Below(reg.pub, next - 1)
        BY <1>0, <2>3, <3>1 DEF SettingsInv, Saving, Mine, Own, Stranger
      <3>5. Saving'
        BY <1>0, <1>3, <1>4, <2>2, <2>3, <3>1, <3>3
           DEF SettingsInv, Saving, Moved, Closing, Ended, Preparing, Forward
      <3>6. Unhurt'
        BY <1>0, <1>1, <1>3, <2>0, <3>1, Apart DEF SettingsInv, Unhurt, Sane, Moved, Failed
      <3>7. QED
        BY <1>6, <2>1, <3>2, <3>5, <3>6 DEF SettingsInv
    <2>4. CASE job.plan # "original"
      <3>1. Moved("removeMarker")
        BY <1>7, <2>4
      <3>2. Stage'
        BY <1>0, <1>1, <1>3, <1>4, <2>0, <2>4, <3>1 DEF SettingsInv, Stage, Moved, Closing, Ended, Clean
      <3>3. job.why = "save" => IF job.late THEN reg.pub = job.cand /\ cred.pairing = job.secret
                                ELSE cred.pairing = Known /\ Below(reg.pub, next - 1)
        BY <1>0, <2>4 DEF SettingsInv, Saving, Mine, Own, Stranger, Jobs
      <3>4. Saving'
        BY <1>0, <1>3, <1>4, <2>2, <2>4, <3>1, <3>3
           DEF SettingsInv, Saving, Moved, Closing, Ended, Preparing, Forward
      <3>5. Unhurt'
        BY <1>0, <1>1, <1>3, <2>0, <3>1, Apart DEF SettingsInv, Unhurt, Sane, Moved, Failed
      <3>6. QED
        BY <1>6, <2>1, <3>2, <3>4, <3>5 DEF SettingsInv
    <2>5. QED
      BY <2>3, <2>4
  <1>8. CASE Moved(CommitFailed) /\ Fault
    <2>1. faults' \in Nat /\ Unhurt'
      BY <1>0, <1>8, Hurt
    <2>2. Shape'
      BY <1>0, <1>3, <1>5, <1>8, <1>a, <2>1, ShapeMoved
    <2>3. QED
      BY <1>0, <1>3, <1>6, <1>8, <2>1, <2>2, CommitFails
  <1>9. QED
    BY <1>3, <1>7, <1>8

LEMMA RemoveMarkerStep == SettingsInv /\ RemoveMarker => SettingsInv'
  <1> SUFFICES ASSUME SettingsInv, RemoveMarker PROVE SettingsInv'
    OBVIOUS
  <1> DEFINE ok == IF job.rec THEN "RecoveredCandidate" ELSE "committed"
  <1>a. /\ ok \in Stages /\ ok # "idle" /\ CommitFailed \in Stages /\ CommitFailed # "idle" /\ None \in Codes
    BY DEF Stages, Failed, CommitFailed, Ended, Codes
  <1>0. /\ job.at = "removeMarker" /\ Shape /\ job \in Jobs /\ faults \in Nat /\ job.at # "idle"
        /\ SoundReg(reg, next) /\ SoundReg(durable, next) /\ SoundCred(cred, next) /\ cred \in Credentials
        /\ cred.capsule = NoCapsule /\ reg.jrnl = NoJournal /\ durable = reg /\ job.plan # "original"
        /\ (~job.rec => job.why = "save")
    BY DEF RemoveMarker, SettingsInv, Shape, SoundCred, Stage
  <1>1. job.why = "save" => /\ IF job.late THEN reg.pub = job.cand /\ cred.pairing = job.secret
                                ELSE cred.pairing = Known /\ Below(reg.pub, next - 1)
                            /\ ~job.rec => job.late
    BY <1>0 DEF SettingsInv, Saving
  <1>3. /\ UNCHANGED <<reg, durable, app, next, versions, spoiled>>
        /\ cred' \in {cred, [cred EXCEPT !["marker"] = None]}
        /\ \/ Moved(ok) /\ UNCHANGED faults /\ cred' = [cred EXCEPT !["marker"] = None]
           \/ Moved(CommitFailed) /\ Fault
    BY <1>0, <1>a, GoMoves DEF RemoveMarker, Put, Rest, history
  <1>4. /\ cred' \in Credentials /\ cred'.capsule = NoCapsule
        /\ cred'.marker \in {cred.marker, None} /\ cred'.pairing = cred.pairing /\ cred'.key = cred.key
        /\ (cred' = [cred EXCEPT !["marker"] = None] => cred'.marker = None)
    BY <1>0, <1>a, <1>3, PutMarker
  <1>5. SoundCred(cred', next) /\ SoundReg(reg', next) /\ SoundReg(durable', next)
    BY <1>0, <1>3, <1>4 DEF SoundCred
  <1>6. Versions'
    BY <1>0, <1>3, <1>4 DEF SettingsInv, Versions, Whole
  <1>7. CASE Moved(ok) /\ UNCHANGED faults /\ cred' = [cred EXCEPT !["marker"] = None]
    <2>0. cred'.marker = None
      BY <1>4, <1>7
    <2>1. Shape'
      BY <1>0, <1>3, <1>5, <1>7, <1>a, ShapeMoved
    <2>2. job'.late = job.late /\ Known' = Known
      BY <1>0, <1>3, <1>7 DEF Moved, Known, Jobs
    <2>3. (job.rec /\ Moved("RecoveredCandidate")) \/ (~job.rec /\ Moved("committed"))
      BY <1>7
    <2>4. Stage'
      BY <1>0, <1>3, <1>4, <2>0, <2>3 DEF SettingsInv, Stage, Moved, Closing, Ended, Clean
    <2>5. Saving'
      BY <1>0, <1>1, <1>3, <1>4, <2>2, <2>3
         DEF SettingsInv, Saving, Moved, Closing, Ended, Preparing, Forward
    <2>6. Unhurt'
      BY <1>0, <1>3, <1>4, <1>7, <2>3, Apart DEF SettingsInv, Unhurt, Sane, Moved, Failed
    <2>7. QED
      BY <1>6, <2>1, <2>4, <2>5, <2>6 DEF SettingsInv
  <1>8. CASE Moved(CommitFailed) /\ Fault
    <2>1. faults' \in Nat /\ Unhurt'
      BY <1>0, <1>8, Hurt
    <2>2. Shape'
      BY <1>0, <1>3, <1>5, <1>8, <1>a, <2>1, ShapeMoved
    <2>3. QED
      BY <1>0, <1>3, <1>6, <1>8, <2>1, <2>2, CommitFails
  <1>9. QED
    BY <1>3, <1>7, <1>8

-----------------------------------------------------------------------------
(* Recovery *)

\* What recovery may conclude from what it decides, and that it is not at a
\* loss with what an undisturbed save has left.
LEMMA DecisionFacts ==
    ASSUME Shape, Versions
    PROVE  LET c == cred.capsule IN
           /\ Decision \in {"Blocked", "marker", "NotNeeded", "candidate", "original"}
           /\ Decision \in {"NotNeeded", "marker"} => c = NoCapsule /\ reg.jrnl = NoJournal
           /\ Decision = "NotNeeded" => cred.marker = None
           /\ Decision \in {"candidate", "original"} =>
                c # NoCapsule /\ \A k \in Keys : reg.pub[k] \in {c.orig[k], c.cand[k]}
           /\ Decision = "candidate" => cred.pairing = c.secret /\ (cred.marker = None => c.trans)
           /\ Decision = "original" =>
                /\ cred.marker = None /\ Version(c.orig, cred.pairing) \in versions
                /\ ~(c.trans /\ cred.pairing = c.secret)
           /\ reg.jrnl # Torn /\ Sane(reg) => Decision # "Blocked"
  <1> DEFINE c == cred.capsule
             committed == cred.marker # None
             stored == c.trans /\ candidateSecretApplied(c)
             candidateApplied == IF committed THEN reg.pub = c.cand /\ cred.pairing = c.secret ELSE stored
             blocked == \/ ~cred.key
                        \/ committed /\ cred.marker # c.id
                        \/ /\ reg.jrnl # NoJournal
                           /\ <<reg.jrnl.id, reg.jrnl.orig, reg.jrnl.cand>> # <<c.id, c.orig, c.cand>>
                        \/ ~fieldsBelongToTransaction(c)
                        \/ committed /\ ~candidateApplied
             found == IF blocked THEN "Blocked" ELSE IF candidateApplied THEN "candidate" ELSE "original"
  <1>1. stored <=> c.trans /\ cred.pairing = c.secret /\ (c.secret = None => c.had)
    BY DEF candidateSecretApplied
  <1>2. c # NoCapsule => (stored <=> c.trans /\ cred.pairing = c.secret)
    BY <1>1 DEF Versions
  <1>3. Torn # NoJournal
    BY Apart
  <1>4. reg.jrnl = Torn => Decision = "Blocked"
    BY <1>3 DEF Decision
  <1>5. reg.jrnl # Torn /\ c = NoCapsule =>
          Decision = IF reg.jrnl # NoJournal THEN "Blocked" ELSE IF committed THEN "marker" ELSE "NotNeeded"
    BY DEF Decision
  <1>6. reg.jrnl # Torn /\ c # NoCapsule => Decision = found
    BY DEF Decision
  <1>7. c # NoCapsule => cred.key
    BY DEF Shape, SoundCred
  <1>8. QED
    BY <1>2, <1>4, <1>5, <1>6, <1>7 DEF Versions, Sane, fieldsBelongToTransaction

LEMMA RecoverStep == SettingsInv /\ Recover => SettingsInv'
  <1> SUFFICES ASSUME SettingsInv, Recover PROVE SettingsInv'
    OBVIOUS
  <1>a. /\ "NotNeeded" \in Stages /\ "Blocked" \in Stages /\ "apply" \in Stages
        /\ "Blocked" \in Failed /\ None \in Codes
    BY DEF Stages, Ended, Failed, Codes
  <1>0. /\ job.at = "recover" /\ Shape /\ Versions /\ job \in Jobs /\ faults \in Nat /\ job.at # "idle"
        /\ job.p \in Procs /\ job.why \notin {"none", "import"}
        /\ SoundReg(reg, next) /\ SoundReg(durable, next) /\ SoundCred(cred, next) /\ cred \in Credentials
        /\ ~job.rec /\ job.plan = "save" /\ (job.why # "save" => ~job.late)
        /\ UNCHANGED <<reg, app, next, versions, spoiled>>
    BY DEF Recover, SettingsInv, Shape, SoundCred, Stage, Closing, Rest, history
  <1>b. job.why = "save" => (Mine /\ cred.marker = None) \/ (Stranger /\ reg.pub = job.orig)
    BY <1>0 DEF SettingsInv, Saving
  <1>c. job.why = "save" => Own # NoCapsule
    BY <1>0, OwnType
  <1>d. faults = 0 /\ ~spoiled => reg.jrnl # Torn /\ Sane(reg) /\ durable.jrnl # Torn /\ Sane(durable)
    BY <1>0 DEF SettingsInv, Unhurt
  <1> DEFINE d == Decision
  <1>e. /\ d \in {"Blocked", "marker", "NotNeeded", "candidate", "original"}
        /\ d \in {"NotNeeded", "marker"} => cred.capsule = NoCapsule /\ reg.jrnl = NoJournal
        /\ d = "NotNeeded" => cred.marker = None
        /\ d \in {"candidate", "original"} =>
             /\ cred.capsule # NoCapsule
             /\ \A k \in Keys : reg.pub[k] \in {cred.capsule.orig[k], cred.capsule.cand[k]}
        /\ d = "candidate" => cred.pairing = cred.capsule.secret /\ (cred.marker = None => cred.capsule.trans)
        /\ d = "original" =>
             /\ cred.marker = None /\ Version(cred.capsule.orig, cred.pairing) \in versions
             /\ ~(cred.capsule.trans /\ cred.pairing = cred.capsule.secret)
        /\ reg.jrnl # Torn /\ Sane(reg) => d # "Blocked"
    BY <1>0, DecisionFacts
  <1>f. \/ /\ d \in {"candidate", "original"} /\ durable' = reg /\ UNCHANGED <<cred, faults>>
           /\ job' = [job EXCEPT !.at = "apply", !.rec = TRUE, !.plan = d,
                                 !.dest = IF d = "candidate" THEN cred.capsule.cand ELSE cred.capsule.orig]
        \/ d = "Blocked" /\ Go("Blocked") /\ durable' = reg /\ UNCHANGED <<cred, faults>>
        \/ d = "NotNeeded" /\ Go("NotNeeded") /\ durable' = reg /\ UNCHANGED <<cred, faults>>
        \/ /\ d = "marker" /\ Go("NotNeeded") /\ durable' = reg /\ UNCHANGED faults
           /\ cred' = [cred EXCEPT !.marker = None]
        \/ /\ Fault /\ Go("Blocked") /\ durable' \in {durable, reg}
           /\ cred' \in {cred, [cred EXCEPT !.marker = None]}
    BY DEF Recover
  <1> HIDE DEF d
  <1>1. CASE /\ d \in {"candidate", "original"} /\ durable' = reg /\ UNCHANGED <<cred, faults>>
             /\ job' = [job EXCEPT !.at = "apply", !.rec = TRUE, !.plan = d,
                                   !.dest = IF d = "candidate" THEN cred.capsule.cand ELSE cred.capsule.orig]
    <2>0. cred.capsule \in Capsules
      BY <1>0, <1>1, <1>e DEF Credentials
    <2>1. cred.capsule.orig \in Pubs /\ cred.capsule.cand \in Pubs
      BY <2>0 DEF Capsules
    <2>2. /\ job' \in Jobs /\ job'.at = "apply" /\ job'.rec = TRUE /\ job'.plan = d /\ job'.late = job.late
          /\ job'.dest = (IF d = "candidate" THEN cred.capsule.cand ELSE cred.capsule.orig)
          /\ job'.p = job.p /\ job'.why = job.why /\ job'.orig = job.orig /\ job'.cand = job.cand
          /\ job'.secret = job.secret
      BY <1>0, <1>1, <1>a, <2>1 DEF Jobs
    <2>3. Shape'
      BY <1>0, <1>1, <2>2 DEF Shape
    <2>4. Versions'
      BY <1>0, <1>1, <1>e, CapsuleKept
    <2>5. Stage'
      BY <1>0, <1>1, <1>e, <2>2 DEF SettingsInv, Stage, Closing, Ended
    <2>6. Known' = Known /\ Own' = Own
      BY <1>0, <2>2 DEF Known, Own
    <2>7. Mine' = Mine /\ Stranger' = Stranger
      BY <1>0, <1>1, <2>2, <2>6 DEF Mine, Stranger
    <2>8. job.why = "save" => (Mine /\ (d = "candidate" <=> cred.pairing # Known)) \/ Stranger
      <3> SUFFICES ASSUME job.why = "save", Mine, cred.marker = None
                   PROVE  d = "candidate" <=> cred.pairing # Known
        BY <1>b
      <3>1. (Own.trans <=> Known # job.secret) /\ Own.secret = job.secret
        BY <1>0, OwnType
      <3>2. QED
        BY <1>1, <1>e, <3>1 DEF Mine
    <2>9. Saving'
      BY <1>0, <1>1, <2>2, <2>6, <2>7, <2>8
         DEF SettingsInv, Saving, Closing, Ended, Preparing, Forward
    <2>10. Unhurt'
      BY <1>0, <1>1, <1>d, <2>2 DEF Unhurt, Sane, Failed
    <2>11. QED
      BY <2>3, <2>4, <2>5, <2>9, <2>10 DEF SettingsInv
  <1>2. CASE /\ d \in {"NotNeeded", "marker"} /\ Go("NotNeeded") /\ durable' = reg /\ UNCHANGED faults
             /\ cred' = IF d = "marker" THEN [cred EXCEPT !.marker = None] ELSE cred
    <2>1. Moved("NotNeeded")
      BY <1>0, <1>2, <1>a, GoMoves
    <2>2. /\ cred' \in Credentials /\ cred'.marker = None /\ cred'.capsule = NoCapsule
          /\ cred'.pairing = cred.pairing /\ cred'.key = cred.key /\ cred.capsule = NoCapsule
          /\ reg.jrnl = NoJournal
      BY <1>0, <1>2, <1>a, <1>e, PutMarker
    <2>3. SoundCred(cred', next) /\ SoundReg(reg', next) /\ SoundReg(durable', next)
      BY <1>0, <1>2, <2>2 DEF SoundCred
    <2>4. Shape'
      BY <1>0, <1>2, <2>1, <2>3, ShapeMoved
    <2>5. Versions'
      BY <1>0, <1>2, <2>2 DEF Versions, Whole
    <2>6. Known' = Known /\ job'.late = job.late
      BY <1>0, <2>1 DEF Known, Moved, Jobs
    <2>7. Stage'
      BY <1>0, <1>2, <2>1, <2>2, <2>6 DEF SettingsInv, Stage, Moved, Closing, Ended, Clean
    <2>8. job.why = "save" => Stranger
      BY <1>b, <1>c, <2>2 DEF Mine
    <2>9. Saving'
      BY <1>0, <2>1, <2>2, <2>6, <2>8
         DEF SettingsInv, Saving, Stranger, Moved, Closing, Ended, Preparing, Forward
    <2>10. Unhurt'
      BY <1>0, <1>2, <1>d, <2>1, <2>2 DEF Unhurt, Sane, Moved, Failed
    <2>11. QED
      BY <2>4, <2>5, <2>7, <2>9, <2>10 DEF SettingsInv
  <1>3. CASE /\ Go("Blocked") /\ durable' \in {durable, reg} /\ cred' \in {cred, [cred EXCEPT !.marker = None]}
             /\ Fault \/ (d = "Blocked" /\ UNCHANGED faults)
    <2>1. Moved("Blocked")
      BY <1>0, <1>3, <1>a, GoMoves
    <2>2. /\ cred' \in Credentials /\ cred'.marker \in {None, cred.marker} /\ cred'.capsule = cred.capsule
          /\ cred'.pairing = cred.pairing /\ cred'.key = cred.key
      BY <1>0, <1>3, <1>a, PutMarker
    <2>3. SoundCred(cred', next) /\ SoundReg(reg', next) /\ SoundReg(durable', next)
      BY <1>0, <1>3, <2>2 DEF SoundCred
    <2>4. faults' \in Nat /\ Unhurt'
      <3>1. CASE Fault
        BY <1>0, <3>1, Hurt
      <3>2. CASE d = "Blocked" /\ UNCHANGED faults
        <4>1. ~(faults = 0 /\ ~spoiled)
          BY <1>d, <1>e, <3>2
        <4>2. QED
          BY <1>0, <3>2, <4>1 DEF Unhurt
      <3>3. QED
        BY <1>3, <3>1, <3>2
    <2>5. Shape'
      BY <1>0, <2>1, <2>3, <2>4, ShapeMoved
    <2>6. Versions'
      <3>1. Whole(reg) => Whole(reg)'
        BY <1>0, <2>2 DEF Whole
      <3>2. Whole(reg) /\ Whole(durable) => Whole(durable)'
        BY <1>0, <1>3, <2>2 DEF Whole
      <3>3. QED
        BY <1>0, <2>2, <3>1, <3>2 DEF Versions
    <2>7. QED
      BY <1>0, <1>a, <2>1, <2>4, <2>5, <2>6, GivesUp
  <1>4. QED
    BY <1>f, <1>1, <1>2, <1>3

-----------------------------------------------------------------------------
(* The programs *)

LEMMA IdleType == Idle \in Jobs /\ Idle.at = "idle" /\ Idle.why = "none" /\ Off \in Apps
  BY DEF Idle, Jobs, Stages, Codes, Off, Apps

\* Once no job runs only the stores matter.
LEMMA Rests ==
    ASSUME Shape', Versions', Unhurt', job' = Idle
    PROVE  SettingsInv'
  <1>1. /\ job'.at = "idle" /\ job'.why = "none" /\ ~job'.rec /\ ~job'.late /\ job'.plan = "save"
    BY DEF Idle
  <1>2. Stage'
    BY <1>1 DEF Stage, Closing, Ended
  <1>3. Saving'
    BY <1>1 DEF Saving
  <1>4. QED
    BY <1>2, <1>3 DEF SettingsInv

LEMMA ShapeRests ==
    ASSUME Shape, job' = Idle, app' \in [Procs -> Apps], UNCHANGED <<next, faults>>, spoiled' \in BOOLEAN,
           SoundReg(reg', next), SoundReg(durable', next), SoundCred(cred', next)
    PROVE  Shape'
  <1>1. SoundReg(reg', next') /\ SoundReg(durable', next') /\ SoundCred(cred', next')
    OBVIOUS
  <1>2. QED
    BY <1>1, IdleType DEF Shape

\* A program starts, or loads the settings.
LEMMA LookStep ==
    ASSUME SettingsInv, NEW p \in Procs, NEW why \in {"startup", "load"}, job = Idle,
           job' = Run(p, why, "recover"), UNCHANGED <<stores, faults>>, Rest
    PROVE  SettingsInv'
  <1>0. "recover" \in Stages /\ Shape
    BY DEF Stages, SettingsInv
  <1>1. /\ job' \in Jobs /\ job'.at = "recover" /\ job'.p = p /\ job'.why = why /\ job'.plan = "save"
        /\ ~job'.rec /\ ~job'.late
    BY <1>0, IdleType DEF Run, Idle, Jobs
  <1>2. UNCHANGED <<reg, durable, cred, app, next, faults, versions, spoiled>> /\ job.at = "idle"
    BY IdleType DEF stores, Rest, history
  <1>3. Shape'
    BY <1>0, <1>1, <1>2 DEF Shape
  <1>4. Versions'
    BY <1>2 DEF SettingsInv, Versions, Whole
  <1>5. Stage'
    BY <1>1 DEF Stage, Closing, Ended
  <1>6. Saving'
    BY <1>1 DEF Saving
  <1>7. Unhurt'
    BY <1>1, <1>2 DEF SettingsInv, Unhurt, Sane, Failed
  <1>8. QED
    BY <1>3, <1>4, <1>5, <1>6, <1>7 DEF SettingsInv

\* What is below a number is below the next.
LEMMA LaterVersions ==
    ASSUME NEW n \in Nat
    PROVE  /\ \A r : SoundReg(r, n) => SoundReg(r, n + 1)
           /\ \A c : SoundCred(c, n) => SoundCred(c, n + 1)
  <1>1. \A f \in Pubs : Below(f, n) => Below(f, n + 1)
    BY DEF Pubs, Below
  <1>2. ASSUME NEW r, SoundReg(r, n) PROVE SoundReg(r, n + 1)
    <2>1. r.pub \in Pubs /\ (r.legacy # None => r.legacy < n + 1)
      BY <1>2 DEF SoundReg, Registries, Codes
    <2>2. QED
      BY <1>1, <1>2, <2>1 DEF SoundReg
  <1>3. ASSUME NEW c, SoundCred(c, n) PROVE SoundCred(c, n + 1)
    <2>1. c \in Credentials
      BY <1>3 DEF SoundCred
    <2>2. c.pairing # None => c.pairing < n + 1
      BY <1>3, <2>1 DEF SoundCred, Credentials, Codes
    <2>3. c.marker # None => c.marker \in 1 .. (n + 1)
      BY <1>3 DEF SoundCred
    <2>4. ASSUME c.capsule # NoCapsule
          PROVE  /\ c.key /\ c.capsule.id \in 1 .. (n + 1)
                 /\ Below(c.capsule.orig, n + 1) /\ Below(c.capsule.cand, n + 1)
      <3>1. c.capsule \in Capsules
        BY <2>1, <2>4 DEF Credentials
      <3>2. c.capsule.orig \in Pubs /\ c.capsule.cand \in Pubs
        BY <3>1 DEF Capsules
      <3>3. QED
        BY <1>1, <1>3, <2>4, <3>2 DEF SoundCred
    <2>5. QED
      BY <2>1, <2>2, <2>3, <2>4 DEF SoundCred
  <1>4. QED
    BY <1>2, <1>3

LEMMA SaveStep == ASSUME SettingsInv, NEW p \in Procs, SaveSettings(p) PROVE SettingsInv'
  <1>1. PICK changed \in SUBSET Keys, secret \in {app[p].secret, next, None} :
          LET cand == [k \in Keys |-> IF k \in changed THEN next ELSE reg.pub[k]] IN
          /\ job = Idle /\ app[p].at = "loaded" /\ ~app[p].failed /\ next <= MaxSaves + 1
          /\ reg.pub = app[p].pub /\ cred.pairing = app[p].secret
          /\ job' = [Run(p, "save", "begin") EXCEPT !.orig = reg.pub, !.cand = cand, !.dest = cand,
                                                    !.secret = secret]
          /\ next' = next + 1
          /\ versions' = versions \cup {Version(cand, secret)}
          /\ Sync(reg)
          /\ UNCHANGED <<reg, cred, app, crashes, spoiled>>
    BY DEF SaveSettings
  <1> DEFINE cand == [k \in Keys |-> IF k \in changed THEN next ELSE reg.pub[k]]
  <1>0. /\ Shape /\ Versions /\ next \in Nat /\ next >= 1 /\ app[p] \in Apps /\ reg \in Registries
        /\ SoundReg(reg, next) /\ SoundReg(durable, next) /\ SoundCred(cred, next) /\ cred \in Credentials
        /\ faults \in Nat /\ MaxSaves \in Nat
    BY BoundsAssumption DEF SettingsInv, Shape, SoundReg, SoundCred
  <1>a. reg.pub \in Pubs /\ cred.pairing \in Codes /\ Below(reg.pub, next)
    BY <1>0 DEF Registries, Credentials, SoundReg
  <1>b. cand \in Pubs /\ \A k \in Keys : cand[k] \in {reg.pub[k], next}
    BY <1>0, <1>a DEF Pubs
  <1>c. secret \in Codes /\ (secret # None => secret < next + 1)
    BY <1>0, <1>1, <1>a DEF Codes, SoundCred
  <1>2. /\ job = Idle /\ cred.pairing = app[p].secret
        /\ next' = next + 1 /\ versions' = versions \cup {Version(cand, secret)}
        /\ UNCHANGED <<reg, cred, app, spoiled>>
        /\ (durable' = reg /\ faults' = faults) \/ (Fault /\ durable' = durable)
        /\ job' = [Run(p, "save", "begin") EXCEPT !.orig = reg.pub, !.cand = cand, !.dest = cand,
                                                    !.secret = secret]
    BY <1>1 DEF Sync
  <1> HIDE DEF cand
  <1>3. /\ job' \in Jobs /\ job'.at = "begin" /\ job'.p = p /\ job'.why = "save" /\ job'.plan = "save"
        /\ ~job'.rec /\ ~job'.late /\ job'.orig = reg.pub /\ job'.cand = cand /\ job'.dest = cand
        /\ job'.secret = secret
    <2>1. "begin" \in Stages
      BY DEF Stages
    <2>2. QED
      BY <1>2, <1>a, <1>b, <1>c, <2>1, IdleType DEF Run, Idle, Jobs
  <1>4. faults' \in Nat
    BY <1>0, <1>2 DEF Fault
  <1>5. Shape'
    <2>1. SoundReg(reg', next') /\ SoundReg(durable', next') /\ SoundCred(cred', next')
      BY <1>0, <1>2, LaterVersions
    <2>2. next' \in 2 .. MaxSaves + 2
      BY <1>0, <1>1
    <2>3. QED
      BY <1>0, <1>2, <1>3, <1>4, <2>1, <2>2 DEF Shape
  <1>6. Versions'
    BY <1>0, <1>2, IdleType DEF Versions, Whole
  <1>7. Stage'
    BY <1>3 DEF Stage, Closing, Ended
  <1>8. Stranger'
    <2>1. Known' = app[p].secret
      BY <1>2, <1>3 DEF Known
    <2>2. next' - 1 = next
      BY <1>0, <1>2
    <2>3. cred.capsule # NoCapsule => cred.capsule.id < next + 1
      BY <1>0 DEF SoundCred
    <2>4. cred.capsule # NoCapsule => Below(cred.capsule.orig, next) /\ Below(cred.capsule.cand, next)
      BY <1>0 DEF SoundCred
    <2>5. QED
      BY <1>2, <1>3, <1>a, <2>1, <2>2, <2>3, <2>4 DEF Stranger
  <1>9. Saving'
    <2>1. next' - 1 = next
      BY <1>0, <1>2
    <2>2. \A k \in Keys : job'.cand[k] \in {job'.orig[k], next' - 1}
      BY <1>3, <1>b, <2>1
    <2>3. Below(job'.orig, next' - 1) /\ (job'.secret # None => job'.secret < next')
      BY <1>2, <1>3, <1>a, <1>c, <2>1
    <2>4. Version(job'.cand, job'.secret) \in versions'
      BY <1>2, <1>3
    <2>5. QED
      BY <1>2, <1>3, <1>8, <1>a, <1>b, <2>2, <2>3, <2>4 DEF Saving, Closing, Ended, Preparing, Forward
  <1>10. Unhurt'
    <2>1. CASE Fault
      BY <1>0, <2>1, Hurt
    <2>2. CASE durable' = reg /\ faults' = faults
      BY <1>2, <1>3, <2>2, IdleType DEF SettingsInv, Unhurt, Sane, Failed
    <2>3. QED
      BY <1>2, <2>1, <2>2
  <1>11. QED
    BY <1>5, <1>6, <1>7, <1>9, <1>10 DEF SettingsInv

\* A job ends, and the program may have other settings, or be off.
LEMMA EndStep ==
    ASSUME SettingsInv, job' = Idle, app' \in [Procs -> Apps], UNCHANGED <<stores, next, faults>>,
           versions \cup Remains(reg, durable) \subseteq versions',
           spoiled' = spoiled \/ spoiled' = (spoiled \/ reg.jrnl = Torn), job.at = "journalFull" => spoiled'
    PROVE  SettingsInv'
  <1>0. /\ Shape /\ Versions /\ SoundReg(reg, next) /\ SoundReg(durable, next) /\ SoundCred(cred, next)
        /\ spoiled \in BOOLEAN /\ UNCHANGED <<reg, durable, cred>>
    BY DEF SettingsInv, Shape, stores
  <1>1. Shape'
    BY <1>0, ShapeRests
  <1>2. Versions'
    <2>1. CASE cred.capsule # NoCapsule
      BY <1>0, <2>1 DEF Versions
    <2>2. CASE cred.capsule = NoCapsule /\ job.why = "import"
      <3>1. {Version(reg.pub, cred.pairing), Version(durable.pub, cred.pairing)} \subseteq versions'
        BY <2>2 DEF Remains
      <3>2. QED
        BY <1>0, <2>2, <3>1 DEF Versions, Whole
    <2>3. CASE cred.capsule = NoCapsule /\ job.why # "import"
      <3>1. job.at \notin {"import", "restore"}
        BY <2>3 DEF SettingsInv, Stage
      <3>2. QED
        BY <1>0, <2>3, <3>1 DEF Versions, Whole
    <2>4. QED
      BY <2>1, <2>2, <2>3
  <1>3. Unhurt'
    BY <1>0, IdleType DEF SettingsInv, Unhurt, Sane, Failed
  <1>4. QED
    BY <1>1, <1>2, <1>3, Rests

-----------------------------------------------------------------------------
(* Imports and loading *)

\* An import sets keys, or the settings back.
LEMMA ImportingFacts ==
    ASSUME SettingsInv, job.at \in Importing
    PROVE  /\ Shape /\ Versions /\ job \in Jobs /\ job.why = "import" /\ ~job.rec /\ job.plan = "save" /\ ~job.late
           /\ job.p \in Procs /\ app \in [Procs -> Apps] /\ faults \in Nat /\ reg \in Registries
           /\ SoundReg(reg, next) /\ SoundReg(durable, next) /\ SoundCred(cred, next) /\ spoiled \in BOOLEAN
           /\ job.dest \in Pubs /\ job.orig \in Pubs /\ Below(job.dest, next) /\ Below(job.orig, next)
  <1>1. job.why = "import" /\ ~job.rec /\ job.plan = "save" /\ ~job.late
    BY DEF SettingsInv, Stage, Importing, Closing
  <1>2. QED
    BY <1>1 DEF SettingsInv, Shape, SoundReg, Importing

\* What is left to an import while it goes on.
LEMMA ImportGoes ==
    ASSUME SettingsInv, job.at \in Importing, NEW at \in Importing, Moved(at), Shape', Unhurt',
           UNCHANGED <<cred, versions>>, at # "restore" => UNCHANGED durable /\ job.at # "restore"
    PROVE  SettingsInv'
  <1>0. /\ job.why = "import" /\ ~job.rec /\ job.plan = "save" /\ ~job.late /\ Versions /\ job \in Jobs
    BY ImportingFacts
  <1>1. /\ job'.at = at /\ job'.why = "import" /\ ~job'.rec /\ job'.plan = "save" /\ ~job'.late
    BY <1>0 DEF Moved, Importing
  <1>2. Versions'
    BY <1>0, <1>1 DEF Versions, Whole, Importing
  <1>3. Stage'
    BY <1>1 DEF Stage, Importing, Closing, Ended
  <1>4. Saving'
    BY <1>1 DEF Saving
  <1>5. QED
    BY <1>2, <1>3, <1>4 DEF SettingsInv

LEMMA KeySet ==
    ASSUME SettingsInv, job.at \in Importing, NEW k \in Keys, NEW to \in {job.dest, job.orig},
           Set([reg EXCEPT !.pub[k] = to[k]], job.at)
    PROVE  SettingsInv'
  <1>0. /\ Shape /\ job \in Jobs /\ job.at # "idle" /\ faults \in Nat /\ reg \in Registries /\ job.at \in Stages
        /\ SoundReg(reg, next) /\ SoundReg(durable, next) /\ SoundCred(cred, next)
        /\ to \in Pubs /\ Below(to, next)
    BY ImportingFacts DEF Importing, Stages
  <1>1. /\ Moved(job.at) /\ UNCHANGED <<durable, cred, faults, app, next, versions, spoiled>>
        /\ reg' = [reg EXCEPT !.pub[k] = to[k]]
    BY <1>0, GoMoves DEF Set, Rest, history
  <1>2. /\ reg' \in Registries /\ reg'.jrnl = reg.jrnl /\ reg'.legacy = reg.legacy
        /\ reg'.pub \in Pubs /\ reg'.pub[k] = to[k] /\ \A l \in Keys : l # k => reg'.pub[l] = reg.pub[l]
    BY <1>0, <1>1 DEF Registries, Pubs
  <1>3. SoundReg(reg', next)
    BY <1>0, <1>2 DEF SoundReg, Below
  <1>4. Shape'
    BY <1>0, <1>1, <1>3, ShapeMoved
  <1>5. Unhurt'
    <2> SUFFICES ASSUME faults = 0, ~spoiled PROVE Unhurt'
      BY <1>1 DEF Unhurt
    <2>1. /\ durable.jrnl # Torn /\ Sane(durable) /\ reg.jrnl # Torn /\ Sane(reg) /\ cred.capsule = NoCapsule
      BY DEF SettingsInv, Unhurt, Importing
    <2>2. Sane(durable)' /\ Sane(reg)'
      BY <1>1, <1>2, <2>1 DEF Sane
    <2>3. QED
      BY <1>1, <1>2, <2>1, <2>2 DEF Unhurt, Moved, Importing, Failed
  <1>6. QED
    BY <1>1, <1>4, <1>5, ImportGoes

LEMMA ImportStep == SettingsInv /\ Import => SettingsInv'
  <1> SUFFICES ASSUME SettingsInv, Import PROVE SettingsInv'
    OBVIOUS
  <1>0. /\ job.at \in Importing /\ "restore" \in Importing /\ "restore" \in Stages /\ job.at # "idle"
    BY DEF Import, Importing, Stages
  <1>1. /\ Shape /\ Versions /\ job \in Jobs /\ job.why = "import" /\ job.p \in Procs /\ app \in [Procs -> Apps]
        /\ faults \in Nat /\ reg \in Registries /\ spoiled \in BOOLEAN
        /\ SoundReg(reg, next) /\ SoundReg(durable, next) /\ SoundCred(cred, next)
    BY <1>0, ImportingFacts
  <1>2. ASSUME NEW k \in Keys, NEW to \in {job.dest, job.orig}, Set([reg EXCEPT !.pub[k] = to[k]], job.at)
        PROVE  SettingsInv'
    BY <1>0, <1>2, KeySet
  <1>3. CASE FlushFails("restore")
    <2>1. /\ Fault /\ Moved("restore") /\ durable' \in {durable, reg}
          /\ UNCHANGED <<reg, cred, app, next, versions, spoiled>>
      BY <1>0, <1>1, <1>3, GoMoves DEF FlushFails, Rest, history
    <2>2. faults' \in Nat /\ Unhurt'
      BY <1>1, <2>1, Hurt
    <2>3. SoundReg(reg', next) /\ SoundReg(durable', next) /\ SoundCred(cred', next)
      BY <1>1, <2>1
    <2>4. Shape'
      BY <1>0, <1>1, <2>1, <2>2, <2>3, ShapeMoved
    <2>5. QED
      BY <1>0, <2>1, <2>2, <2>4, ImportGoes
  <1>4. CASE /\ job.at = "import" /\ Sync(reg) /\ job' = Idle
             /\ app' = [app EXCEPT ![job.p].pub = reg.pub] /\ versions' = versions \cup {Current}
             /\ UNCHANGED <<reg, cred, next, crashes, spoiled>>
    <2>1. /\ (durable' = reg /\ UNCHANGED faults) \/ (Fault /\ UNCHANGED durable)
          /\ UNCHANGED <<reg, cred, next, spoiled>> /\ reg.pub \in Pubs
      BY <1>1, <1>4 DEF Sync, Registries
    <2>2. app' \in [Procs -> Apps]
      BY <1>1, <1>4, <2>1 DEF Apps
    <2>3. faults' \in Nat
      BY <1>1, <2>1 DEF Fault
    <2>4. Shape'
      BY <1>1, <1>4, <2>1, <2>2, <2>3, IdleType DEF Shape
    <2>5. Versions'
      <3>1. CASE cred.capsule # NoCapsule
        BY <1>1, <1>4, <3>1 DEF Versions
      <3>2. CASE cred.capsule = NoCapsule
        <4>1. Whole(durable)
          BY <1>1, <1>4, <3>2 DEF Versions
        <4>2. Whole(reg)'
          BY <1>4 DEF Whole, Current
        <4>3. Whole(durable)'
          BY <1>4, <2>1, <4>1, <4>2 DEF Whole
        <4>4. QED
          BY <1>4, <3>2, <4>2, <4>3 DEF Versions
      <3>3. QED
        BY <3>1, <3>2
    <2>6. Unhurt'
      <3>1. CASE Fault
        BY <1>1, <3>1, Hurt
      <3>2. CASE durable' = reg /\ UNCHANGED faults
        BY <1>4, <3>2, IdleType DEF SettingsInv, Unhurt, Sane, Failed
      <3>3. QED
        BY <2>1, <3>1, <3>2
    <2>7. QED
      BY <1>4, <2>4, <2>5, <2>6, Rests
  <1>5. CASE /\ job.at = "restore" /\ durable' \in {durable, reg} /\ job' = Idle
             /\ app' = [app EXCEPT ![job.p].at = "reload"] /\ versions' = versions \cup Remains(reg, durable')
             /\ UNCHANGED <<reg, cred, next, faults, crashes, spoiled>>
    <2>1. app' \in [Procs -> Apps]
      BY <1>1, <1>5 DEF Apps
    <2>2. SoundReg(reg', next) /\ SoundReg(durable', next) /\ SoundCred(cred', next)
      BY <1>1, <1>5
    <2>3. Shape'
      BY <1>1, <1>5, <2>1, <2>2, ShapeRests
    <2>4. Versions'
      <3>1. CASE cred.capsule # NoCapsule
        BY <1>1, <1>5, <3>1 DEF Versions
      <3>2. CASE cred.capsule = NoCapsule
        <4>1. Version(reg.pub, cred.pairing) \in versions' /\ Version(durable'.pub, cred.pairing) \in versions'
          BY <1>1, <1>5, <3>2 DEF Remains
        <4>2. QED
          BY <1>5, <3>2, <4>1 DEF Versions, Whole
      <3>3. QED
        BY <3>1, <3>2
    <2>5. Unhurt'
      BY <1>1, <1>5, IdleType DEF SettingsInv, Unhurt, Sane, Failed
    <2>6. QED
      BY <1>5, <2>3, <2>4, <2>5, Rests
  <1>6. QED
    BY <1>2, <1>3, <1>4, <1>5 DEF Import

LEMMA ImportBegins == ASSUME SettingsInv, NEW p \in Procs, SavePortableSettings(p) PROVE SettingsInv'
  <1>0. /\ Shape /\ Versions /\ next \in Nat /\ next >= 2 /\ app \in [Procs -> Apps] /\ reg \in Registries
        /\ SoundReg(reg, next) /\ SoundReg(durable, next) /\ SoundCred(cred, next)
        /\ faults \in Nat /\ MaxSaves \in Nat /\ spoiled \in BOOLEAN /\ job = Idle /\ job.at = "idle"
    <2>1. job = Idle /\ MaxSaves \in Nat
      BY BoundsAssumption DEF SavePortableSettings
    <2>2. QED
      BY <2>1, IdleType DEF SettingsInv, Shape, SoundReg
  <1>1. UNCHANGED <<reg, durable, cred, versions>>
    BY DEF SavePortableSettings, stores
  <1>a. reg.pub \in Pubs /\ Below(reg.pub, next)
    BY <1>0 DEF Registries, SoundReg
  <1>2. ASSUME NEW changed \in (SUBSET Portable) \ {{}},
               LET new == [k \in Keys |-> IF k \in changed THEN next ELSE reg.pub[k]] IN
               /\ next <= MaxSaves + 1 /\ next' = next + 1
               /\ job' = [Run(p, "import", "import") EXCEPT !.orig = reg.pub, !.dest = new]
               /\ spoiled' = (spoiled \/ ~Clean)
               /\ UNCHANGED <<app, faults>>
        PROVE  SettingsInv'
    <2> DEFINE new == [k \in Keys |-> IF k \in changed THEN next ELSE reg.pub[k]]
    <2>1. new \in Pubs /\ Below(new, next + 1) /\ Below(reg.pub, next + 1)
      BY <1>0, <1>a DEF Pubs, Below
    <2>2. /\ next <= MaxSaves + 1 /\ next' = next + 1 /\ spoiled' = (spoiled \/ ~Clean) /\ UNCHANGED <<app, faults>>
          /\ job' = [Run(p, "import", "import") EXCEPT !.orig = reg.pub, !.dest = new]
      BY <1>2
    <2> HIDE DEF new
    <2>3. /\ job' \in Jobs /\ job'.at = "import" /\ job'.p = p /\ job'.why = "import" /\ job'.plan = "save"
          /\ ~job'.rec /\ ~job'.late /\ job'.orig = reg.pub /\ job'.dest = new
      <3>1. "import" \in Stages
        BY DEF Stages, Importing
      <3>2. QED
        BY <1>a, <2>1, <2>2, <3>1, IdleType DEF Run, Idle, Jobs
    <2>4. Shape'
      <3>1. SoundReg(reg', next') /\ SoundReg(durable', next') /\ SoundCred(cred', next')
        BY <1>0, <1>1, <2>2, LaterVersions
      <3>2. next' \in 2 .. MaxSaves + 2 /\ spoiled' \in BOOLEAN /\ faults' \in Nat /\ app' \in [Procs -> Apps]
        BY <1>0, <2>2
      <3>3. job'.dest \in Pubs /\ job'.orig \in Pubs /\ Below(job'.dest, next') /\ Below(job'.orig, next')
        BY <1>a, <2>1, <2>2, <2>3
      <3>4. QED
        BY <2>3, <3>1, <3>2, <3>3 DEF Shape
    <2>5. Versions'
      BY <1>0, <1>1, <2>3 DEF Versions, Whole
    <2>6. Stage'
      BY <2>3 DEF Stage, Closing, Ended
    <2>7. Saving'
      BY <2>3 DEF Saving
    <2>8. Unhurt'
      BY <1>0, <1>1, <2>2, <2>3 DEF SettingsInv, Unhurt, Sane, Clean, Failed
    <2>9. QED
      BY <2>4, <2>5, <2>6, <2>7, <2>8 DEF SettingsInv
  <1>3. CASE /\ UNCHANGED faults \/ Fault
             /\ app' = [app EXCEPT ![p].at = "reload"]
             /\ UNCHANGED <<next, job, spoiled>>
    <2>1. faults' \in Nat
      BY <1>0, <1>3 DEF Fault
    <2>2. app' \in [Procs -> Apps]
      BY <1>0, <1>3 DEF Apps
    <2>3. Shape'
      BY <1>0, <1>1, <1>3, <2>1, <2>2, IdleType DEF Shape
    <2>4. Versions'
      BY <1>0, <1>1, <1>3 DEF Versions, Whole
    <2>5. Unhurt'
      <3>1. CASE Fault
        BY <1>0, <3>1, Hurt
      <3>2. CASE UNCHANGED faults
        BY <1>1, <1>3, <3>2 DEF SettingsInv, Unhurt, Sane
      <3>3. QED
        BY <1>3, <3>1, <3>2
    <2>6. QED
      BY <1>0, <1>3, <2>3, <2>4, <2>5, Rests
  <1>4. QED
    BY <1>2, <1>3 DEF SavePortableSettings

\* Loading has failed, but nothing is lost.
LEMMA LoadEnds ==
    ASSUME SettingsInv, Moved("loadFailed"), job.why = "load", job.at \notin {"idle", "swap", "import", "restore"},
           Shape', Versions', Unhurt',
           job.rec => job.at \in {"RecoveredOriginal", "RecoveredCandidate"}
    PROVE  SettingsInv'
  <1>1. /\ job'.at = "loadFailed" /\ job'.why = "load" /\ job'.rec = job.rec /\ job'.plan = job.plan /\ ~job'.late
    BY DEF Moved, SettingsInv, Stage
  <1>2. Stage'
    BY <1>1 DEF SettingsInv, Stage, Closing, Ended
  <1>3. Saving'
    BY <1>1 DEF Saving
  <1>4. QED
    BY <1>2, <1>3 DEF SettingsInv

LEMMA LoadingFacts ==
    ASSUME SettingsInv, job.why = "load", job.at \in Recovered \cup Migrating \cup {"migrated"}
    PROVE  /\ Shape /\ Versions /\ job \in Jobs /\ job.p \in Procs /\ ~job.late /\ faults \in Nat
           /\ app \in [Procs -> Apps] /\ reg \in Registries /\ cred \in Credentials /\ next \in Nat
           /\ SoundReg(reg, next) /\ SoundReg(durable, next) /\ SoundCred(cred, next)
           /\ job.at \notin {"idle", "swap", "import", "restore", "journalFull"}
           /\ job.rec => job.at \in {"RecoveredOriginal", "RecoveredCandidate"}
           /\ "loadFailed" \in Stages /\ "loadFailed" # "idle" /\ Migrating \subseteq Stages /\ "migrated" \in Stages
           /\ None \in Codes
           /\ job.at \in Recovered => cred.capsule = NoCapsule /\ durable = reg
           /\ job.at \in Migrating => cred.capsule = NoCapsule /\ durable.pub = reg.pub /\ cred.pairing # None
                                      /\ (job.secret # None => Version(reg.pub, None) \in versions)
           /\ cred.capsule = NoCapsule => Whole(reg) /\ Whole(durable)
  <1>1. job.at \notin {"idle", "swap", "import", "restore", "journalFull", "recover"} /\ job.at \notin Closing
    BY DEF Recovered, Migrating, Closing
  <1>2. /\ Shape /\ Versions /\ job \in Jobs /\ job.p \in Procs /\ faults \in Nat /\ next \in Nat
        /\ app \in [Procs -> Apps] /\ reg \in Registries /\ cred \in Credentials
        /\ SoundReg(reg, next) /\ SoundReg(durable, next) /\ SoundCred(cred, next)
    BY <1>1, BoundsAssumption DEF SettingsInv, Shape, SoundReg, SoundCred
  <1>3. ~job.late /\ (job.rec => job.at \in {"RecoveredOriginal", "RecoveredCandidate"})
    BY DEF SettingsInv, Stage, Recovered, Migrating, Closing
  <1>4. "loadFailed" \in Stages /\ Migrating \subseteq Stages /\ "migrated" \in Stages /\ None \in Codes
    BY DEF Stages, Codes
  <1>5. job.at \in Recovered => cred.capsule = NoCapsule /\ durable = reg
    BY DEF SettingsInv, Stage, Recovered, Ended, Clean
  <1>6. job.at \in Migrating => cred.capsule = NoCapsule /\ durable.pub = reg.pub /\ cred.pairing # None
                               /\ (job.secret # None => Version(reg.pub, None) \in versions)
    BY DEF SettingsInv, Stage, Migrating
  <1>7. cred.capsule = NoCapsule => Whole(reg) /\ Whole(durable)
    BY <1>1, <1>2 DEF Versions
  <1>8. QED
    BY <1>1, <1>2, <1>3, <1>4, <1>5, <1>6, <1>7

LEMMA LoadFailsStep == SettingsInv /\ LoadFails => SettingsInv'
  <1> SUFFICES ASSUME SettingsInv, LoadFails PROVE SettingsInv'
    OBVIOUS
  <1>1. /\ job.why = "load" /\ job.at \in Recovered \cup Migrating \cup {"migrated"} /\ Fault /\ Go("loadFailed")
        /\ UNCHANGED <<reg, durable, cred, app, next, versions, spoiled>>
    BY DEF LoadFails, stores, Rest, history
  <1>2. /\ Shape /\ Versions /\ job \in Jobs /\ "loadFailed" \in Stages /\ "loadFailed" # "idle"
        /\ SoundReg(reg, next) /\ SoundReg(durable, next) /\ SoundCred(cred, next)
        /\ job.at \notin {"idle", "swap", "import", "restore"}
        /\ job.rec => job.at \in {"RecoveredOriginal", "RecoveredCandidate"}
    BY <1>1, LoadingFacts
  <1>3. Moved("loadFailed")
    BY <1>1, <1>2, GoMoves
  <1>4. faults' \in Nat /\ Unhurt'
    BY <1>1, <1>2, Hurt
  <1>5. Shape'
    BY <1>1, <1>2, <1>3, <1>4, ShapeMoved
  <1>6. Versions'
    BY <1>1, <1>2 DEF Versions, Whole
  <1>7. QED
    BY <1>1, <1>2, <1>3, <1>4, <1>5, <1>6, LoadEnds

LEMMA MigrateStep == SettingsInv /\ Migrate => SettingsInv'
  <1> SUFFICES ASSUME SettingsInv, Migrate PROVE SettingsInv'
    OBVIOUS
  <1>1. /\ job.why = "load" /\ job.at \in Recovered \cup Migrating \cup {"migrated"} /\ job.at \in Recovered
        /\ reg.legacy # None /\ UNCHANGED <<reg, durable, app, next, spoiled>>
        /\ versions' = versions \cup {Version(reg.pub, cred'.pairing)}
    BY DEF Migrate
  <1>2. /\ Shape /\ Versions /\ job \in Jobs /\ job.p \in Procs /\ faults \in Nat /\ next \in Nat
        /\ reg \in Registries /\ cred \in Credentials
        /\ "loadFailed" \in Stages /\ "loadFailed" # "idle" /\ Migrating \subseteq Stages /\ None \in Codes
        /\ SoundReg(reg, next) /\ SoundReg(durable, next) /\ SoundCred(cred, next)
        /\ job.at \notin {"idle", "swap", "import", "restore", "journalFull"}
        /\ job.rec => job.at \in {"RecoveredOriginal", "RecoveredCandidate"}
        /\ cred.capsule = NoCapsule /\ durable = reg /\ Whole(reg) /\ Whole(durable)
    BY <1>1, LoadingFacts
  <1>3. reg.legacy \in Codes /\ reg.legacy < next
    BY <1>1, <1>2 DEF SoundReg, Registries
  <1>4. cred' \in {cred, [cred EXCEPT !["pairing"] = reg.legacy]}
    BY DEF Migrate
  <1>5. /\ cred' \in Credentials /\ cred'.capsule = NoCapsule /\ cred'.marker = cred.marker /\ cred'.key = cred.key
        /\ cred'.pairing \in {cred.pairing, reg.legacy}
    BY <1>2, <1>3, <1>4, PutPairing
  <1>6. SoundCred(cred', next)
    BY <1>2, <1>3, <1>5 DEF SoundCred
  <1>7. Whole(reg)' /\ Whole(durable)'
    BY <1>1, <1>2 DEF Whole
  <1>8. Versions'
    BY <1>5, <1>7 DEF Versions
  <1>9. ASSUME UNCHANGED faults, job'.at \in {"dropLegacy", "loadFailed"}
        PROVE  Unhurt'
    <2> SUFFICES ASSUME faults = 0, ~spoiled PROVE Unhurt'
      BY <1>1, <1>9 DEF Unhurt
    <2>1. reg.jrnl # Torn /\ Sane(reg)
      BY <1>2 DEF SettingsInv, Unhurt
    <2>2. reg'.jrnl # Torn /\ Sane(reg)' /\ durable'.jrnl # Torn /\ Sane(durable)'
      BY <1>1, <1>2, <1>5, <2>1 DEF Sane
    <2>3. QED
      BY <1>5, <1>9, <2>2 DEF Unhurt, Failed
  <1>10. CASE /\ cred.pairing \in {None, reg.legacy} /\ cred' = [cred EXCEPT !.pairing = reg.legacy]
              /\ job' = [Run(job.p, "load", "dropLegacy") EXCEPT
                           !.secret = IF cred.pairing = None THEN reg.legacy ELSE None]
              /\ UNCHANGED faults
    <2>1. /\ job' \in Jobs /\ job'.at = "dropLegacy" /\ job'.p = job.p /\ job'.why = "load" /\ job'.plan = "save"
          /\ ~job'.rec /\ ~job'.late /\ (job'.secret # None => cred.pairing = None)
      <3>1. "dropLegacy" \in Stages
        BY <1>2 DEF Migrating
      <3>2. QED
        BY <1>2, <1>3, <1>10, <3>1, IdleType DEF Run, Idle, Jobs
    <2>2. cred'.pairing = reg.legacy
      BY <1>2, <1>3, <1>10, PutPairing
    <2>3. job'.secret # None => Version(reg'.pub, None) \in versions'
      <3>1. reg.jrnl = NoJournal
        BY <1>1 DEF SettingsInv, Stage, Recovered, Ended
      <3>2. QED
        BY <1>1, <1>2, <2>1, <3>1 DEF Whole
    <2>4. Shape'
      BY <1>1, <1>2, <1>6, <1>10, <2>1 DEF Shape
    <2>5. Stage'
      BY <1>1, <1>2, <1>5, <2>1, <2>2, <2>3 DEF Stage, Closing, Ended
    <2>6. Saving'
      BY <2>1 DEF Saving
    <2>7. Unhurt'
      BY <1>9, <1>10, <2>1
    <2>8. QED
      BY <1>8, <2>4, <2>5, <2>6, <2>7 DEF SettingsInv
  <1>11. CASE Go("loadFailed") /\ (Fault \/ UNCHANGED faults)
    <2>1. Moved("loadFailed")
      BY <1>2, <1>11, GoMoves
    <2>2. faults' \in Nat /\ Unhurt'
      <3>1. CASE Fault
        BY <1>2, <3>1, Hurt
      <3>2. CASE UNCHANGED faults
        BY <1>2, <1>9, <2>1, <3>2 DEF Moved
      <3>3. QED
        BY <1>11, <3>1, <3>2
    <2>3. Shape'
      BY <1>1, <1>2, <1>6, <2>1, <2>2, ShapeMoved
    <2>4. QED
      BY <1>1, <1>2, <1>8, <2>1, <2>2, <2>3, LoadEnds
  <1>12. QED
    BY <1>10, <1>11 DEF Migrate

\* What is left to a migration while it goes on: neither the public settings
\* nor the journal change.
LEMMA MigrationGoes ==
    ASSUME SettingsInv, job.at \in Migrating, NEW at \in Migrating \cup {"migrated", "loadFailed"}, Moved(at),
           UNCHANGED <<app, next, versions, spoiled>>, Fault \/ UNCHANGED faults,
           NEW l \in Codes, l # None => l < next, reg' \in {reg, [reg EXCEPT !.legacy = l]},
           durable' \in {durable, reg, reg'},
           \/ cred' = cred
           \/ at = "loadFailed" /\ job.secret # None /\ cred' = [cred EXCEPT !.pairing = None]
    PROVE  SettingsInv'
  <1>1. job.why = "load" /\ at # "idle" /\ at \notin {"import", "restore", "journalFull", "recover"}
    BY DEF SettingsInv, Stage, Migrating
  <1>2. /\ Shape /\ Versions /\ job \in Jobs /\ job.p \in Procs /\ faults \in Nat /\ next \in Nat /\ ~job.late
        /\ reg \in Registries /\ cred \in Credentials /\ None \in Codes
        /\ SoundReg(reg, next) /\ SoundReg(durable, next) /\ SoundCred(cred, next)
        /\ job.at \notin {"idle", "swap", "import", "restore", "journalFull"} /\ ~job.rec
        /\ cred.capsule = NoCapsule /\ durable.pub = reg.pub /\ cred.pairing # None
        /\ (job.secret # None => Version(reg.pub, None) \in versions) /\ Whole(reg) /\ Whole(durable)
    <2>1. job.at \notin {"RecoveredOriginal", "RecoveredCandidate"}
      BY DEF Migrating
    <2>2. QED
      BY <1>1, <2>1, LoadingFacts
  <1>3. /\ reg' \in Registries /\ reg'.pub = reg.pub /\ reg'.jrnl = reg.jrnl /\ (reg'.legacy # None => reg'.legacy < next)
        /\ durable'.pub = reg.pub /\ durable'.jrnl \in {durable.jrnl, reg.jrnl}
    BY <1>2 DEF Registries, SoundReg
  <1>4. SoundReg(reg', next) /\ SoundReg(durable', next)
    BY <1>2, <1>3 DEF SoundReg
  <1>5. /\ cred' \in Credentials /\ cred'.capsule = NoCapsule /\ cred'.marker = cred.marker /\ cred'.key = cred.key
        /\ cred'.pairing = cred.pairing \/ (at = "loadFailed" /\ cred'.pairing = None /\ job.secret # None)
    BY <1>2, PutPairing
  <1>6. SoundCred(cred', next)
    BY <1>2, <1>5 DEF SoundCred
  <1>7. faults' \in Nat
    BY <1>2 DEF Fault
  <1>8. Shape'
    BY <1>1, <1>2, <1>4, <1>6, <1>7, ShapeMoved
  <1>9. Versions'
    <2>1. Whole(reg)' /\ Whole(durable)'
      BY <1>2, <1>3, <1>5 DEF Whole
    <2>2. QED
      BY <1>5, <2>1 DEF Versions
  <1>10. Unhurt'
    <2>1. CASE Fault
      BY <1>2, <2>1, Hurt
    <2>2. CASE UNCHANGED faults
      <3> SUFFICES ASSUME faults = 0, ~spoiled PROVE Unhurt'
        BY <2>2 DEF Unhurt
      <3>1. reg.jrnl # Torn /\ reg.jrnl = NoJournal /\ durable.jrnl # Torn /\ durable.jrnl = NoJournal
        BY <1>2 DEF SettingsInv, Unhurt, Sane
      <3>2. reg'.jrnl # Torn /\ Sane(reg)' /\ durable'.jrnl # Torn /\ Sane(durable)'
        BY <1>3, <1>5, <3>1 DEF Sane
      <3>3. QED
        BY <1>1, <1>5, <3>2 DEF Unhurt, Moved, Migrating, Failed
    <2>3. QED
      BY <2>1, <2>2
  <1>11. CASE at = "loadFailed"
    BY <1>1, <1>2, <1>8, <1>9, <1>10, <1>11, LoadEnds
  <1>12. CASE at # "loadFailed"
    <2>1. /\ job'.at = at /\ job'.why = "load" /\ ~job'.rec /\ job'.plan = "save" /\ ~job'.late
          /\ job'.secret = job.secret
      BY <1>1, <1>2 DEF Moved, SettingsInv, Stage
    <2>2. cred'.pairing # None /\ (job'.secret # None => Version(reg'.pub, None) \in versions') /\ durable'.pub = reg'.pub
      BY <1>2, <1>3, <1>5, <1>12, <2>1
    <2>3. at \in Migrating \cup {"migrated"}
      BY <1>12
    <2>4. Stage'
      BY <1>5, <2>1, <2>2, <2>3 DEF Stage, Closing, Ended, Migrating
    <2>5. Saving'
      BY <2>1 DEF Saving
    <2>6. QED
      BY <1>8, <1>9, <1>10, <2>4, <2>5 DEF SettingsInv
  <1>13. QED
    BY <1>11, <1>12

LEMMA DropLegacyStep == SettingsInv /\ DropLegacy => SettingsInv'
  <1> SUFFICES ASSUME SettingsInv, DropLegacy PROVE SettingsInv'
    OBVIOUS
  <1>0. job.at \in Migrating /\ job.why = "load"
    BY DEF DropLegacy, Migrating, SettingsInv, Stage
  <1>1. /\ job \in Jobs /\ None \in Codes /\ cred.pairing \in Codes /\ (cred.pairing # None => cred.pairing < next)
        /\ "loadFailed" \in Stages /\ Migrating \subseteq Stages /\ "migrated" \in Stages
    BY <1>0, LoadingFacts DEF SoundCred, Credentials
  <1>2. PICK at \in Migrating \cup {"migrated", "loadFailed"} :
          /\ Go(at) /\ UNCHANGED <<app, next, versions, spoiled>> /\ (Fault \/ UNCHANGED faults)
          /\ \/ reg' \in {reg, [reg EXCEPT !.legacy = None]}
             \/ reg' = [reg EXCEPT !.legacy = cred.pairing]
          /\ durable' \in {durable, reg, reg'}
          /\ \/ cred' = cred
             \/ at = "loadFailed" /\ job.secret # None /\ cred' = [cred EXCEPT !.pairing = None]
    BY DEF DropLegacy, Set, FlushFails, Sync, Rest, history, Migrating
  <1>3. Moved(at)
    BY <1>1, <1>2, GoMoves
  <1>4. CASE reg' \in {reg, [reg EXCEPT !.legacy = None]}
    BY <1>0, <1>1, <1>2, <1>3, <1>4, MigrationGoes
  <1>5. CASE reg' = [reg EXCEPT !.legacy = cred.pairing]
    BY <1>0, <1>1, <1>2, <1>3, <1>5, MigrationGoes
  <1>6. QED
    BY <1>2, <1>4, <1>5

LEMMA JobOwner ==
    ASSUME Shape, job # Idle
    PROVE  job.p \in Procs /\ app \in [Procs -> Apps]
  BY DEF Shape

LEMMA FinishStartStep == SettingsInv /\ FinishStart => SettingsInv'
  <1> SUFFICES ASSUME SettingsInv, FinishStart PROVE SettingsInv'
    OBVIOUS
  <1>1. job # Idle
    BY IdleType DEF FinishStart
  <1>2. job.p \in Procs /\ app \in [Procs -> Apps]
    BY <1>1, JobOwner DEF SettingsInv
  <1>3. app' \in [Procs -> Apps]
    BY <1>2 DEF FinishStart, Apps
  <1>4. /\ job' = Idle /\ UNCHANGED <<stores, next, faults, versions>> /\ spoiled' = spoiled
        /\ job.at # "journalFull" /\ Remains(reg, durable) = {}
    BY DEF FinishStart, history, Recovered, Remains
  <1>5. QED
    BY <1>3, <1>4, EndStep

LEMMA FinishLoadStep == SettingsInv /\ FinishLoad => SettingsInv'
  <1> SUFFICES ASSUME SettingsInv, FinishLoad PROVE SettingsInv'
    OBVIOUS
  <1> DEFINE old == app[job.p]
             new == [at |-> "loaded", pub |-> reg.pub, secret |-> cred.pairing, failed |-> FALSE]
             kept == [old EXCEPT !.at = "loaded", !.failed = TRUE]
             seen == [old EXCEPT !.at = "loaded", !.failed = TRUE, !.pub = reg.pub]
  <1>1. job # Idle
    BY IdleType DEF FinishLoad
  <1>2. job.p \in Procs /\ app \in [Procs -> Apps] /\ old \in Apps
    BY <1>1, JobOwner DEF SettingsInv
  <1>3. reg.pub \in Pubs /\ cred.pairing \in Codes
    BY DEF SettingsInv, Shape, SoundReg, SoundCred, Registries, Credentials
  <1>4. new \in Apps /\ kept \in Apps /\ seen \in Apps
    BY <1>2, <1>3 DEF Apps
  <1>5. \E a \in {new, Off, kept, seen} : app' = [app EXCEPT ![job.p] = a]
    BY DEF FinishLoad
  <1> HIDE DEF new, kept, seen
  <1>6. app' \in [Procs -> Apps]
    BY <1>2, <1>4, <1>5, IdleType
  <1>7. /\ job' = Idle /\ UNCHANGED <<stores, next, faults, versions>> /\ spoiled' = spoiled
        /\ job.at # "journalFull" /\ Remains(reg, durable) = {}
    BY DEF FinishLoad, history, Recovered, Remains
  <1>8. QED
    BY <1>6, <1>7, EndStep

\* A save that succeeded has left its version, and one that failed the version
\* it found: that its own is forgotten makes no difference then.
LEMMA FinishSaveStep == SettingsInv /\ FinishSave => SettingsInv'
  <1> SUFFICES ASSUME SettingsInv, FinishSave PROVE SettingsInv'
    OBVIOUS
  <1>1. /\ job # Idle /\ job.why = "save" /\ job' = Idle
        /\ UNCHANGED <<stores, next, faults, spoiled>>
    BY IdleType DEF FinishSave
  <1>0. /\ Shape /\ Versions /\ SoundReg(reg, next) /\ SoundReg(durable, next) /\ SoundCred(cred, next)
        /\ spoiled \in BOOLEAN /\ UNCHANGED <<reg, durable, cred>> /\ job \in Jobs
        /\ job.p \in Procs /\ app \in [Procs -> Apps]
    BY <1>1, JobOwner DEF SettingsInv, Shape, stores
  <1>2. job.cand \in Pubs /\ job.orig \in Pubs /\ job.secret \in Codes
    BY <1>0, <1>1 DEF SettingsInv, Saving, Jobs
  <1>3. app' \in [Procs -> Apps]
    <2>1. CASE Accepted
      <3>1. app' = [app EXCEPT ![job.p].pub = job.cand, ![job.p].secret = job.secret]
        BY <2>1 DEF FinishSave
      <3>2. QED
        BY <1>0, <1>2, <3>1 DEF Apps
    <2>2. CASE ~Accepted
      <3>1. app' = [app EXCEPT ![job.p].failed = @ \/ job.late \/ job.at = "Blocked"]
        BY <2>2 DEF FinishSave
      <3> DEFINE f == app[job.p].failed \/ job.late \/ job.at = "Blocked"
      <3>2. f \in BOOLEAN /\ app' = [app EXCEPT ![job.p].failed = f]
        BY <3>1
      <3> HIDE DEF f
      <3>3. QED
        BY <1>0, <3>2 DEF Apps
    <2>3. QED
      BY <2>1, <2>2
  <1>4. Shape'
    BY <1>0, <1>1, <1>3, ShapeRests
  <1>5. Unhurt'
    <2>1. job.at # "journalFull"
      BY DEF FinishSave
    <2>2. QED
      BY <1>0, <1>1, <2>1, IdleType DEF SettingsInv, Unhurt, Sane, Failed
  <1>6. job.at \in Ended => /\ cred.capsule = NoCapsule /\ reg.jrnl = NoJournal /\ durable = reg
                            /\ Version(reg.pub, cred.pairing) \in versions
    <2>1. job.at \in Ended => job.at \notin {"import", "restore"}
      BY DEF Ended
    <2>2. QED
      BY <2>1 DEF SettingsInv, Stage, Clean, Versions, Whole
  <1>7. Versions'
    <2>1. CASE Accepted
      <3>1. job.at \in Ended /\ job.late
        BY <1>1, <2>1 DEF Accepted, Ended, SettingsInv, Saving, Stage, Closing
      <3>2. reg.pub = job.cand /\ cred.pairing = job.secret
        BY <1>1, <2>1, <3>1 DEF SettingsInv, Saving, Accepted
      <3>3. versions' = {Version(job.cand, job.secret)}
        BY <2>1 DEF FinishSave
      <3>4. QED
        BY <1>0, <1>6, <3>1, <3>2, <3>3 DEF Versions, Whole
    <2>2. CASE ~Accepted /\ job.at \in Failed
      <3>1. versions' = versions /\ job.at \notin {"import", "restore"}
        BY <2>2 DEF FinishSave, Failed
      <3>2. QED
        BY <1>0, <3>1 DEF Versions, Whole
    <2>3. CASE ~Accepted /\ job.at \notin Failed
      <3>1. job.at \in Ended /\ ~(job.late /\ job.at \in {"removeMarker", "RecoveredCandidate", "committed"})
        BY <2>3 DEF FinishSave, Accepted, Ended, Failed
      <3>2. cred.pairing = Known /\ Below(reg.pub, next - 1)
        BY <1>1, <3>1 DEF SettingsInv, Saving
      <3>3. versions' = (versions \ {Version(job.cand, job.secret)}) \cup {Version(job.orig, Known)}
        BY <2>3 DEF FinishSave, Failed, Known
      <3>4. Version(reg.pub, cred.pairing) \in versions'
        <4>1. CASE reg.pub # job.cand
          BY <1>6, <3>1, <3>3, <4>1 DEF Version
        <4>2. CASE reg.pub = job.cand
          <5>1. reg.pub = job.orig
            <6>1. \A k \in Keys : job.cand[k] = job.orig[k]
              <7> SUFFICES ASSUME NEW k \in Keys PROVE job.cand[k] = job.orig[k]
                OBVIOUS
              <7>1. job.cand[k] < next - 1 /\ job.cand[k] \in Nat /\ next \in Nat
                BY <1>2, <3>2, <4>2, BoundsAssumption DEF Below, Pubs, SettingsInv, Shape
              <7>2. job.cand[k] \in {job.orig[k], next - 1}
                BY <1>1 DEF SettingsInv, Saving
              <7>3. QED
                BY <7>1, <7>2
            <6>2. QED
              BY <1>2, <4>2, <6>1 DEF Pubs
          <5>2. QED
            BY <3>2, <3>3, <5>1
        <4>3. QED
          BY <4>1, <4>2
      <3>5. QED
        BY <1>0, <1>6, <3>1, <3>4 DEF Versions, Whole
    <2>4. QED
      BY <2>1, <2>2, <2>3
  <1>8. QED
    BY <1>1, <1>4, <1>5, <1>7, Rests

LEMMA QuitStep == ASSUME SettingsInv, NEW p \in Procs, Quit(p) PROVE SettingsInv'
  <1>1. app \in [Procs -> Apps]
    BY DEF SettingsInv, Shape
  <1>2. app' \in [Procs -> Apps]
    BY <1>1, IdleType DEF Quit
  <1>3. /\ job' = Idle /\ UNCHANGED <<stores, next, faults, versions>> /\ spoiled' = spoiled
        /\ job.at # "journalFull" /\ Remains(reg, durable) = {}
    BY IdleType DEF Quit, history, Remains
  <1>4. QED
    BY <1>2, <1>3, EndStep

LEMMA CrashStep == SettingsInv /\ Crash => SettingsInv'
  <1> SUFFICES ASSUME SettingsInv, Crash PROVE SettingsInv'
    OBVIOUS
  <1>1. job.p \in Procs /\ app \in [Procs -> Apps]
    BY JobOwner DEF SettingsInv, Crash
  <1>2. app' \in [Procs -> Apps]
    BY <1>1, IdleType DEF Crash
  <1>3. /\ job' = Idle /\ UNCHANGED <<stores, next, faults>> /\ versions' = versions \cup Remains(reg, durable)
        /\ spoiled' = (spoiled \/ reg.jrnl = Torn)
    BY DEF Crash
  <1>4. job.at = "journalFull" => reg.jrnl = Torn
    BY OnlySaves DEF SettingsInv, Saving, Preparing
  <1>5. QED
    BY <1>2, <1>3, <1>4, EndStep

\* After a power failure there is what was flushed.
LEMMA PowerStep == SettingsInv /\ PowerFailure => SettingsInv'
  <1> SUFFICES ASSUME SettingsInv, PowerFailure PROVE SettingsInv'
    OBVIOUS
  <1>1. /\ job' = Idle /\ reg' \in {durable, reg} /\ durable' = reg'
        /\ spoiled' = (spoiled \/ reg'.jrnl = Torn) /\ UNCHANGED <<cred, next, faults>>
        /\ versions' = versions \cup Remains(reg', reg') /\ app' = [p \in Procs |-> Off]
    BY DEF PowerFailure
  <1>0. /\ Shape /\ Versions /\ SoundReg(reg, next) /\ SoundReg(durable, next) /\ SoundCred(cred, next)
        /\ spoiled \in BOOLEAN
    BY DEF SettingsInv, Shape
  <1>2. app' \in [Procs -> Apps]
    BY <1>1, IdleType
  <1>3. SoundReg(reg', next) /\ SoundReg(durable', next) /\ SoundCred(cred', next) /\ spoiled' \in BOOLEAN
    BY <1>0, <1>1
  <1>4. Shape'
    BY <1>0, <1>1, <1>2, <1>3, ShapeRests
  <1>5. Versions'
    <2>1. CASE cred.capsule # NoCapsule
      BY <1>0, <1>1, <2>1 DEF Versions
    <2>2. CASE cred.capsule = NoCapsule /\ job.why = "import"
      <3>1. Version(reg'.pub, cred.pairing) \in versions'
        BY <1>1, <2>2 DEF Remains
      <3>2. QED
        BY <1>1, <2>2, <3>1 DEF Versions, Whole
    <2>3. CASE cred.capsule = NoCapsule /\ job.why # "import"
      <3>1. job.at \notin {"import", "restore"}
        BY <2>3 DEF SettingsInv, Stage
      <3>2. QED
        BY <1>0, <1>1, <2>3, <3>1 DEF Versions, Whole
    <2>4. QED
      BY <2>1, <2>2, <2>3
  <1>6. job.at = "journalFull" => reg.jrnl = Torn
    BY OnlySaves DEF SettingsInv, Saving, Preparing
  <1>7. Unhurt'
    BY <1>0, <1>1, <1>6, IdleType DEF SettingsInv, Unhurt, Sane, Failed
  <1>8. QED
    BY <1>1, <1>4, <1>5, <1>7, Rests

-----------------------------------------------------------------------------
LEMMA SettingsStep == SettingsInv /\ [Next]_vars => SettingsInv'
  <1> SUFFICES ASSUME SettingsInv, [Next]_vars PROVE SettingsInv'
    OBVIOUS
  <1>1. CASE Step
    BY <1>1, BeginStep, CapsuleStep, JournalStep, UndoStep, ApplyStep, MarkStep, SwapStep, CommitStep,
       RemoveJournalStep, RemoveCapsuleStep, RemoveMarkerStep, RecoverStep,
       ImportStep, MigrateStep, DropLegacyStep, LoadFailsStep,
       FinishStartStep, FinishLoadStep, FinishSaveStep DEF Step
  <1>2. ASSUME NEW p \in Procs,
               Start(p) \/ LoadSettings(p) \/ SaveSettings(p) \/ SavePortableSettings(p) \/ Quit(p)
        PROVE  SettingsInv'
    <2>1. CASE Start(p)
      BY <2>1, LookStep DEF Start
    <2>2. CASE LoadSettings(p)
      BY <2>2, LookStep DEF LoadSettings
    <2>3. QED
      BY <1>2, <2>1, <2>2, SaveStep, ImportBegins, QuitStep
  <1>3. CASE Crash \/ PowerFailure
    BY <1>3, CrashStep, PowerStep
  <1>4. CASE UNCHANGED vars
    BY <1>4 DEF vars, stores, history, SettingsInv, Shape, Versions, Stage, Saving, Unhurt, Whole, Sane, Known,
       Stranger, Own, OwnJournal, Mine, Clean
  <1>5. QED
    BY <1>1, <1>2, <1>3, <1>4 DEF Next

LEMMA SettingsAlways == Spec => []SettingsInv
  BY SettingsInitially, SettingsStep, PTL DEF Spec

\* A save or recovery that reports success has left nothing behind, and while
\* no call of a store fails recovery always knows what to do (RecoveryInv):
\* AppConfigSettingsJournal, for any number of programs, saves and deaths.
THEOREM RecoveryNeverAtALoss == Spec => []RecoveryInv
  <1>1. SettingsInv => RecoveryInv
    <2> SUFFICES ASSUME SettingsInv PROVE RecoveryInv
      OBVIOUS
    <2>0. /\ next \in 2 .. MaxSaves + 2 /\ next \in Nat /\ MaxSaves \in Nat /\ app \in [Procs -> Apps]
          /\ SoundReg(reg, next) /\ SoundReg(durable, next) /\ SoundCred(cred, next)
      BY BoundsAssumption DEF SettingsInv, Shape
    <2>1. ASSUME NEW r, SoundReg(r, next)
          PROVE  /\ r.pub \in [Keys -> 0 .. MaxSaves + 1] /\ r.jrnl.id \in (1 .. MaxSaves + 2) \cup {None}
                 /\ r.legacy \in (0 .. MaxSaves + 1) \cup {None}
      <3>1. r.pub \in Pubs
        BY <2>1 DEF SoundReg, Registries
      <3>2. \A k \in Keys : r.pub[k] \in 0 .. MaxSaves + 1
        BY <2>0, <2>1, <3>1 DEF SoundReg, Pubs, Below
      <3>3. r.legacy \in (0 .. MaxSaves + 1) \cup {None}
        BY <2>0, <2>1 DEF SoundReg, Registries, Codes
      <3>4. QED
        BY <2>0, <2>1, <3>1, <3>2, <3>3 DEF SoundReg, Pubs
    <2>2. /\ cred.pairing \in (0 .. MaxSaves + 1) \cup {None} /\ cred.marker \in (1 .. MaxSaves + 2) \cup {None}
          /\ cred.key \in BOOLEAN /\ (cred.capsule # NoCapsule => cred.key)
      BY <2>0 DEF SoundCred, Credentials, Codes
    <2>3. \A p \in Procs : app[p].at \in {"off", "started", "loaded", "reload"} /\ app[p].failed \in BOOLEAN
      BY <2>0 DEF Apps
    <2>4. TypeOK
      BY <2>0, <2>1, <2>2, <2>3 DEF TypeOK
    <2>5. DoneIsClean
      BY DEF SettingsInv, Stage, Ended, DoneIsClean
    <2>6. RecoversUnlessHurt
      BY DEF SettingsInv, Shape, Unhurt, Failed, RecoversUnlessHurt
    <2>7. QED
      BY <2>4, <2>5, <2>6 DEF RecoveryInv
  <1>2. QED
    BY <1>1, SettingsAlways, PTL

\* What is found when nobody saves and nothing is left to recover is a whole
\* version: public settings and pairing code of one save, which
\* saveSettingsWithResult promises whatever fails and whenever it dies, or of
\* an import, or what an import that was cut short left (WholeVersion).
THEOREM SettingsStayWhole == Spec => []WholeVersion
  <1>1. SettingsInv => WholeVersion
    BY IdleType DEF SettingsInv, Versions, Whole, WholeVersion, Clean, Current
  <1>2. QED
    BY <1>1, SettingsAlways, PTL

\* Recovery overwrites only values that its save put there, or found
\* (OverwritesOwnOnly): fieldsBelongToTransaction is asked before the first
\* write, and nobody else writes until the last.
THEOREM RecoveryKeepsToItsOwn == Spec => OverwritesOwnOnly
  <1> DEFINE Kept == job.rec /\ job'.rec =>
               \A k \in Keys : reg'.pub[k] # reg.pub[k] =>
                 reg.pub[k] \in {cred.capsule.orig[k], cred.capsule.cand[k]}
  <1>1. SettingsInv /\ [Next]_vars => Kept \/ UNCHANGED vars
    <2> SUFFICES ASSUME SettingsInv, Next, job.rec, job'.rec, job.at # "apply" PROVE reg'.pub = reg.pub
      BY DEF SettingsInv, Stage
    <2>1. ~Idle.rec /\ reg \in Registries /\ job.at \notin Preparing \cup Forward
      BY OnlySaves DEF Idle, SettingsInv, Shape, SoundReg
    <2>2. job # Idle /\ job' # Idle
      BY <2>1
    <2>3. CASE Step
      <3>1. CASE RemoveJournal
        <4>1. CASE reg' = [reg EXCEPT !.jrnl = NoJournal]
          BY <2>1, <4>1, SetJournal
        <4>2. CASE reg' = reg
          BY <4>2
        <4>3. QED
          BY <3>1, <4>1, <4>2 DEF RemoveJournal, Set, Flush, FlushFails, stores
      <3>2. CASE WriteJournal \/ Undo \/ MarkPublicApplied
        BY <2>1, <3>2 DEF WriteJournal, Undo, MarkPublicApplied, Preparing, Forward, Put
      <3>3. CASE Begin \/ WriteCapsule \/ CompareAndSwap \/ Commit \/ RemoveCapsule \/ RemoveMarker \/ Recover
        BY <3>3 DEF Begin, WriteCapsule, CompareAndSwap, Commit, RemoveCapsule, RemoveMarker, Recover, Put, stores
      <3>7. CASE Import \/ Migrate \/ DropLegacy \/ LoadFails
        <4>1. job.at \notin {"import", "restore", "dropLegacy", "legacyDropped", "keepLegacy", "rollBack"}
          BY DEF SettingsInv, Stage, Closing
        <4>2. QED
          BY <3>7, <4>1 DEF Import, Migrate, DropLegacy, LoadFails, stores
      <3>4. CASE FinishStart \/ FinishLoad \/ FinishSave
        BY <2>2, <3>4 DEF FinishStart, FinishLoad, FinishSave
      <3>5. CASE Apply
        BY <3>5 DEF Apply
      <3>6. QED
        BY <2>3, <3>1, <3>2, <3>3, <3>4, <3>5, <3>7 DEF Step
    <2>4. ASSUME NEW p \in Procs,
                 Start(p) \/ LoadSettings(p) \/ SaveSettings(p) \/ SavePortableSettings(p) \/ Quit(p)
          PROVE  FALSE
      BY <2>2, <2>4 DEF Start, LoadSettings, SaveSettings, SavePortableSettings, Quit
    <2>5. CASE Crash \/ PowerFailure
      BY <2>2, <2>5 DEF Crash, PowerFailure
    <2>6. QED
      BY <2>3, <2>4, <2>5 DEF Next
  <1>2. QED
    BY <1>1, SettingsAlways, PTL DEF Spec, OverwritesOwnOnly
=============================================================================
