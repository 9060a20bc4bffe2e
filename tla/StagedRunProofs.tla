---------------------------- MODULE StagedRunProofs ----------------------------
(***************************************************************************)
(* DirectoryHonest, PassMeansDone, CompletedExactly and BudgetKept hold    *)
(* for every set of campaigns and command lines.  What a session knows     *)
(* (the chunks of the directory, none torn) makes the chunk it takes one   *)
(* that is not in the directory yet; the chunk stays the same until its    *)
(* file is written, because chunks have a first one in the order of the    *)
(* loops.                                                                  *)
(***************************************************************************)
EXTENDS StagedRun, FiniteSetTheorems, WellFoundedInduction, TLAPS

-----------------------------------------------------------------------------
(* The next chunk exists. *)

LEMMA LeastNatural ==
  ASSUME NEW S, S \subseteq Nat, S # {}
  PROVE  \E n \in S : \A m \in S : n <= m
<1>1. PICK n \in S : \A m \in S : ~(<<m, n>> \in OpToRel(<, Nat))
  BY WFMin, NatLessThanWellFounded
<1>2. \A m \in S : ~(m < n)
  BY <1>1 DEF OpToRel
<1>. QED
  BY <1>2

\* ChunksOf: four numbers, the last a function of the others.
LEMMA ChunksAreTuples ==
  ASSUME config \in Configs, NEW every \in Nat, NEW c \in ChunksOf(every)
  PROVE  /\ c[1] \in Nat /\ c[2] \in Nat /\ c[3] \in Nat
         /\ c = <<c[1], c[2], c[3], Least(every, config[c[1]].iters - c[3])>>
<1>1. config \in Seq(RunsOfCampaigns)
  BY CampaignAssumption
<1>2. DOMAIN config \subseteq Nat
  BY <1>1
<1>3. PICK r \in RunIds :
        \E s \in 1 .. config[r].seeds,
           k \in {i \in 0 .. config[r].iters : i * every < config[r].iters} :
             c = <<r, s, k * every, Least(every, config[r].iters - k * every)>>
  BY DEF ChunksOf
<1>4. config[r].seeds \in Nat /\ config[r].iters \in Nat /\ r \in Nat
  <2>1. r \in Nat /\ config[r] \in RunsOfCampaigns
    BY <1>1, <1>2 DEF RunIds
  <2>. QED
    BY <2>1 DEF RunsOfCampaigns
<1>5. PICK s \in 1 .. config[r].seeds,
           k \in {i \in 0 .. config[r].iters : i * every < config[r].iters} :
             c = <<r, s, k * every, Least(every, config[r].iters - k * every)>>
  BY <1>3
<1>6. k \in Nat /\ s \in Nat /\ k * every \in Nat
  BY <1>4
<1>. QED
  BY <1>4, <1>5, <1>6

\* NextChunk is one of the chunks to be run.
LEMMA NextIsPending ==
  ASSUME config \in Configs, opts.every \in Nat, Pending # {}
  PROVE  NextChunk \in Pending
<1>. DEFINE Rs == {c[1] : c \in Pending}
<1>1. \A c \in Pending : /\ c[1] \in Nat /\ c[2] \in Nat /\ c[3] \in Nat
                         /\ c = <<c[1], c[2], c[3], Least(opts.every, config[c[1]].iters - c[3])>>
  BY ChunksAreTuples DEF Pending
<1>2. PICK r \in Rs : \A q \in Rs : r <= q
  <2>1. Rs \subseteq Nat /\ Rs # {}
    BY <1>1
  <2>. QED
    BY <2>1, LeastNatural
<1>. DEFINE Ss == {c[2] : c \in {d \in Pending : d[1] = r}}
<1>3. PICK s \in Ss : \A q \in Ss : s <= q
  <2>1. Ss \subseteq Nat /\ Ss # {}
    BY <1>1, <1>2
  <2>. QED
    BY <2>1, LeastNatural
<1>. DEFINE Fs == {c[3] : c \in {d \in Pending : d[1] = r /\ d[2] = s}}
<1>4. PICK f \in Fs : \A q \in Fs : f <= q
  <2>1. Fs \subseteq Nat /\ Fs # {}
    BY <1>1, <1>3
  <2>. QED
    BY <2>1, LeastNatural
<1>5. PICK c \in Pending : c[1] = r /\ c[2] = s /\ c[3] = f
  BY <1>4
<1>6. ASSUME NEW d \in Pending \ {c}
      PROVE  Sooner(c, d)
  <2>1. d[1] \in Nat /\ d[2] \in Nat /\ d[3] \in Nat
    BY <1>1
  <2>2. r <= d[1]
    BY <1>2
  <2>3. d[1] = r => s <= d[2]
    BY <1>3
  <2>4. d[1] = r /\ d[2] = s => f <= d[3]
    BY <1>4
  <2>5. ~(d[1] = r /\ d[2] = s /\ d[3] = f)
    BY <1>1, <1>5
  <2>6. r \in Nat /\ s \in Nat /\ f \in Nat
    BY <1>1, <1>5
  <2>. QED
    BY <2>1, <2>2, <2>3, <2>4, <2>5, <2>6, <1>5 DEF Sooner
<1>7. \E e \in Pending : \A d \in Pending \ {e} : Sooner(e, d)
  BY <1>6
<1>. QED
  BY <1>7 DEF NextChunk

-----------------------------------------------------------------------------
(***************************************************************************)
(* The inductive invariant.                                                *)
(***************************************************************************)
Places == {"idle", "setup", "chunks", "manifest", "merge", "loop", "commit", "account"}
Loaded == pc \in {"manifest", "merge", "loop", "commit", "account"}

InManifest == [every : Nat, budget : Nat, maxPartial : Nat]

SettingsOK ==
  /\ config \in Configs
  /\ opts \in Settings
  /\ manifest # <<>> => manifest[1] \in InManifest
  /\ command \in [opts : Settings, resume : BOOLEAN, keep : BOOLEAN, retries : Nat]

\* A session that is past a check may rely on what it checked.
Known ==
  /\ IsFiniteSet(chk) /\ snapshot \in BOOLEAN
  /\ pc \in Places
  /\ runner # "wait" => pc = "idle"
  /\ pc \notin {"idle", "setup"} => snapshot /\ Snapshot \notin torn
  /\ Loaded => /\ existing \in Seq(chk)
               /\ ElementsOf(existing) = chk
               /\ \A c \in chk : ChkFile(c) \notin torn
  /\ pc = "commit" => /\ NextChunk \in DOMAIN summary
                      /\ SummaryFile(NextChunk) \notin torn
                      /\ ~Failing(NextChunk)

HonestInv == SettingsOK /\ Known /\ DirectoryHonest

LEMMA SettingsInit == StagedInit => SettingsOK
<1>. SUFFICES ASSUME StagedInit PROVE SettingsOK
  OBVIOUS
<1>1. NoOpts \in Settings
  BY DEF NoOpts, Settings
<1>. QED
  BY <1>1 DEF StagedInit, Init, SettingsOK, NoCommand

LEMMA HonestInit == StagedInit => HonestInv
<1>. SUFFICES ASSUME StagedInit PROVE HonestInv
  OBVIOUS
<1>1. Known
  BY FS_EmptySet DEF StagedInit, Init, Known, Places, Loaded
<1>2. DirectoryHonest
  BY DEF StagedInit, Init, DirectoryHonest
<1>. QED
  BY <1>1, <1>2, SettingsInit DEF HonestInv

\* The chunk in hand is not in the directory.
LEMMA NextIsNew ==
  ASSUME HonestInv, Loaded, Pending # {}
  PROVE  NextChunk \notin chk
<1>1. NextChunk \in Pending
  BY NextIsPending DEF HonestInv, SettingsOK, Settings
<1>2. \A c \in chk : c \in DOMAIN summary
  BY DEF HonestInv, Known, DirectoryHonest
<1>. QED
  BY <1>1, <1>2 DEF Pending, HonestInv, Known

LEMMA ManifestRecords ==
  ASSUME SettingsOK
  PROVE  ManifestOf(opts) \in InManifest
<1>1. config[1] \in RunsOfCampaigns
  BY CampaignAssumption DEF SettingsOK
<1>2. config[1].budget \in Nat \cup {Unset}
  BY <1>1 DEF RunsOfCampaigns
<1>3. opts.every \in Nat /\ opts.budget \in Nat /\ opts.maxPartial \in Nat
  BY DEF SettingsOK, Settings
<1>4. BudgetFor(opts, 1) \in Nat
  BY <1>2, <1>3 DEF BudgetFor
<1>. QED
  BY <1>3, <1>4 DEF ManifestOf, InManifest

-----------------------------------------------------------------------------
(***************************************************************************)
(* The settings keep their types.                                          *)
(***************************************************************************)
LEMMA EndsSettings ==
  ASSUME SettingsOK, Ends(1) \/ Ends(0) \/ Ends(Killed), UNCHANGED <<config, command>>,
         manifest' # <<>> => manifest'[1] \in InManifest
  PROVE  SettingsOK'
<1>1. NoOpts \in Settings
  BY DEF NoOpts, Settings
<1>2. opts' = NoOpts
  BY DEF Ends
<1>. QED
  BY <1>1, <1>2 DEF SettingsOK

LEMMA BeginSettings ==
  ASSUME SettingsOK, NEW o \in Settings, Begin(o), UNCHANGED <<config, command>>
  PROVE  SettingsOK'
<1>1. EveryOf(o) \in Nat
  BY DEF EveryOf, DefaultEvery, Settings
<1>2. opts' \in Settings
  BY <1>1 DEF Begin, Settings
<1>. QED
  BY <1>2 DEF SettingsOK, Begin, diskVars

LEMMA StartSettings ==
  ASSUME SettingsOK, NEW o \in Settings, Start(o) \/ Resume(o), UNCHANGED command
  PROVE  SettingsOK'
<1>1. UNCHANGED config
  BY DEF Start, Resume
<1>2. CASE Refuses
  BY <1>1, <1>2, EndsSettings DEF Refuses, diskVars, SettingsOK
<1>3. CASE Begin(o)
  BY <1>1, <1>3, BeginSettings
<1>4. CASE /\ Resume(o) /\ manifest # <<>>
           /\ Begin([o EXCEPT !.every = manifest[1].every, !.budget = manifest[1].budget,
                              !.maxPartial = manifest[1].maxPartial])
  <2>. DEFINE p == [o EXCEPT !.every = manifest[1].every, !.budget = manifest[1].budget,
                             !.maxPartial = manifest[1].maxPartial]
  <2>1. p \in Settings
    BY <1>4 DEF SettingsOK, Settings, InManifest
  <2>. QED
    BY <1>1, <1>4, <2>1, BeginSettings
<1>. QED
  BY <1>2, <1>3, <1>4 DEF Start, Resume

LEMMA KillSettings ==
  ASSUME SettingsOK, Kill, UNCHANGED command
  PROVE  SettingsOK'
<1>1. Ends(Killed) /\ UNCHANGED <<config, manifest>>
  BY DEF Kill
<1>. QED
  BY <1>1, EndsSettings DEF SettingsOK

LEMMA SessionSettings ==
  ASSUME SettingsOK, SessionStep, UNCHANGED command
  PROVE  SettingsOK'
<1>1. CASE TakeSnapshot
  BY <1>1 DEF TakeSnapshot, SettingsOK
<1>2. CASE LoadChunks
  <2>1. CASE Loadable
    BY <1>2, <2>1 DEF LoadChunks, SettingsOK, diskVars
  <2>2. CASE ~Loadable
    <3>1. Refuses /\ UNCHANGED config
      BY <1>2, <2>2 DEF LoadChunks
    <3>. QED
      BY <3>1, EndsSettings DEF Refuses, diskVars, SettingsOK
  <2>. QED
    BY <2>1, <2>2
<1>3. CASE WriteManifest
  <2>1. manifest'[1] \in InManifest
    BY <1>3, ManifestRecords DEF WriteManifest
  <2>. QED
    BY <1>3, <2>1 DEF WriteManifest, SettingsOK
<1>4. CASE Merge
  <2>1. UNCHANGED <<config, manifest>> /\ (Ends(0) \/ UNCHANGED opts)
    BY <1>4 DEF Merge
  <2>. QED
    BY <2>1, EndsSettings DEF SettingsOK
<1>5. CASE OutOfTime \/ Finish
  <2>1. UNCHANGED <<config, manifest>> /\ Ends(0)
    BY <1>5 DEF OutOfTime, Finish
  <2>. QED
    BY <2>1, EndsSettings DEF SettingsOK
<1>6. CASE RunChunk
  BY <1>6 DEF RunChunk, SettingsOK
<1>7. CASE ChunkFails
  <2>1. UNCHANGED <<config, manifest>> /\ Ends(1)
    BY <1>7 DEF ChunkFails
  <2>. QED
    BY <2>1, EndsSettings DEF SettingsOK
<1>8. CASE Commit
  BY <1>8 DEF Commit, SettingsOK
<1>9. CASE Account
  <2>1. UNCHANGED <<config, manifest>> /\ (Ends(0) \/ UNCHANGED opts)
    BY <1>9 DEF Account
  <2>. QED
    BY <2>1, EndsSettings DEF SettingsOK
<1>. QED
  BY <1>1, <1>2, <1>3, <1>4, <1>5, <1>6, <1>7, <1>8, <1>9 DEF SessionStep

LEMMA SettingsNext ==
  ASSUME SettingsOK, [Next]_vars
  PROVE  SettingsOK'
<1>1. ASSUME NEW c \in Commands, Launch(c)
      PROVE  SettingsOK'
  <2>1. c \in [opts : Settings, resume : BOOLEAN, keep : BOOLEAN, retries : Nat]
    BY CampaignAssumption, StagedRunAssumption
  <2>. QED
    BY <1>1, <2>1 DEF Launch, SettingsOK, campaignVars, memVars, diskVars
<1>2. CASE Spawn
  <2>1. command.opts \in Settings
    BY DEF SettingsOK
  <2>. QED
    BY <1>2, <2>1, StartSettings DEF Spawn
<1>3. CASE NotFound \/ Judge
  BY <1>3 DEF NotFound, Judge, SettingsOK, campaignVars, memVars, diskVars
<1>4. CASE Conclude
  <2>1. NoCommand \in [opts : Settings, resume : BOOLEAN, keep : BOOLEAN, retries : Nat]
    BY DEF NoCommand, NoOpts, Settings
  <2>2. command' = NoCommand /\ UNCHANGED <<config, opts>> /\ (UNCHANGED manifest \/ manifest' = <<>>)
    BY <1>4 DEF Conclude, Gone, EmptyDirectory, memVars, diskVars
  <2>. QED
    BY <2>1, <2>2 DEF SettingsOK
<1>5. CASE TimesOut \/ SessionKilled
  BY <1>5, KillSettings DEF TimesOut, SessionKilled, runnerVars
<1>6. CASE Works
  BY <1>6, SessionSettings DEF Works, runnerVars
<1>7. CASE MachineDown
  <2>1. NoCommand \in [opts : Settings, resume : BOOLEAN, keep : BOOLEAN, retries : Nat]
    BY DEF NoCommand, NoOpts, Settings
  <2>2. NoOpts \in Settings
    BY DEF NoOpts, Settings
  <2>3. command' = NoCommand /\ UNCHANGED <<config, manifest>> /\ (UNCHANGED opts \/ opts' = NoOpts)
    BY <1>7 DEF MachineDown, Gone, campaignVars, memVars, diskVars, Kill, Ends
  <2>. QED
    BY <2>1, <2>2, <2>3 DEF SettingsOK
<1>8. CASE Cleared
  BY <1>8 DEF Cleared, FreshDirectory, EmptyDirectory, memVars, runnerVars, SettingsOK
<1>9. CASE UNCHANGED vars
  BY <1>9 DEF vars, campaignVars, memVars, diskVars, runnerVars, SettingsOK
<1>. QED
  BY <1>1, <1>2, <1>3, <1>4, <1>5, <1>6, <1>7, <1>8, <1>9 DEF Next, RunnerStep

-----------------------------------------------------------------------------
(***************************************************************************)
(* The steps of the session keep the directory honest.                     *)
(***************************************************************************)

\* With no session only the files matter.
LEMMA IdleHonest ==
  ASSUME HonestInv, pc' = "idle", UNCHANGED config,
         snapshot' = snapshot, manifest' = manifest, chk' = chk,
         DOMAIN summary \subseteq DOMAIN summary',
         \A c \in chk : ChkFile(c) \notin torn' =>
            ChkFile(c) \notin torn /\ (SummaryFile(c) \notin torn => SummaryFile(c) \notin torn'),
         Latest \notin torn' => Latest \notin torn,
         Snapshot \notin torn => Snapshot \notin torn'
  PROVE  Known' /\ DirectoryHonest'
<1>1. Known'
  BY DEF HonestInv, Known, Places, Loaded
<1>2. \A c : Failing(c)' = Failing(c)
  BY DEF Failing
<1>3. DirectoryHonest'
  BY <1>2 DEF HonestInv, DirectoryHonest
<1>. QED
  BY <1>1, <1>3

LEMMA QuietHonest ==
  ASSUME HonestInv, pc' = "idle", UNCHANGED <<config, snapshot, manifest, chk, summary, torn>>
  PROVE  Known' /\ DirectoryHonest'
BY IdleHonest

LEMMA SetupHonest ==
  ASSUME HonestInv, TakeSnapshot, UNCHANGED runner
  PROVE  Known' /\ DirectoryHonest'
<1>1. /\ pc = "setup" /\ pc' = "chunks" /\ snapshot' = TRUE /\ torn' = torn \ {Snapshot}
      /\ UNCHANGED <<config, manifest, chk, summary>>
  BY DEF TakeSnapshot, Goes
<1>2. Known'
  BY <1>1 DEF HonestInv, Known, Places, Loaded
<1>3. \A c : ChkFile(c) # Snapshot /\ SummaryFile(c) # Snapshot
  BY DEF ChkFile, SummaryFile, Snapshot
<1>4. Latest # Snapshot
  BY DEF Latest, Snapshot
<1>5. \A c : Failing(c)' = Failing(c)
  BY <1>1 DEF Failing
<1>6. DirectoryHonest'
  BY <1>1, <1>3, <1>4, <1>5 DEF HonestInv, DirectoryHonest
<1>. QED
  BY <1>2, <1>6

\* The list of the chunks that are there.
LEMMA Listed ==
  ASSUME NEW C, IsFiniteSet(C),
         NEW s, s = CHOOSE t \in [1 .. Cardinality(C) -> C] : ElementsOf(t) = C
  PROVE  s \in Seq(C) /\ ElementsOf(s) = C
<1>1. PICK f : f \in Bijection(1 .. Cardinality(C), C)
  BY FS_CardinalityType DEF ExistsBijection
<1>2. f \in [1 .. Cardinality(C) -> C] /\ \A c \in C : \E i \in 1 .. Cardinality(C) : f[i] = c
  BY <1>1 DEF Bijection, Surjection, Injection
<1>3. ElementsOf(f) = C
  BY <1>2 DEF ElementsOf
<1>4. \E t \in [1 .. Cardinality(C) -> C] : ElementsOf(t) = C
  BY <1>2, <1>3
<1>5. s \in [1 .. Cardinality(C) -> C] /\ ElementsOf(s) = C
  BY <1>4
<1>6. Cardinality(C) \in Nat
  BY FS_CardinalityType
<1>. QED
  BY <1>5, <1>6

LEMMA LoadHonest ==
  ASSUME HonestInv, LoadChunks, UNCHANGED runner
  PROVE  Known' /\ DirectoryHonest'
<1>1. CASE ~Loadable
  BY <1>1, QuietHonest DEF LoadChunks, Refuses, Ends, diskVars
<1>2. CASE Loadable
  <2>1. /\ pc = "chunks" /\ pc' = "manifest"
        /\ existing' = CHOOSE s \in [1 .. Cardinality(chk) -> chk] : ElementsOf(s) = chk
        /\ UNCHANGED <<config, snapshot, manifest, chk, summary, torn>>
    BY <1>2 DEF LoadChunks, Goes, diskVars
  <2>2. existing' \in Seq(chk) /\ ElementsOf(existing') = chk
    BY <2>1, Listed DEF HonestInv, Known
  <2>3. Known'
    BY <1>2, <2>1, <2>2 DEF HonestInv, Known, Places, Loaded, Loadable
  <2>4. \A c : Failing(c)' = Failing(c)
    BY <2>1 DEF Failing
  <2>5. DirectoryHonest'
    BY <2>1, <2>4 DEF HonestInv, DirectoryHonest
  <2>. QED
    BY <2>3, <2>5
<1>. QED
  BY <1>1, <1>2

LEMMA ManifestHonest ==
  ASSUME HonestInv, WriteManifest, UNCHANGED runner
  PROVE  Known' /\ DirectoryHonest'
<1>1. /\ pc = "manifest" /\ pc' = "merge" /\ torn' = torn \ {Latest}
      /\ UNCHANGED <<config, snapshot, chk, summary, existing>>
  BY DEF WriteManifest, Goes
<1>2. Known'
  BY <1>1 DEF HonestInv, Known, Places, Loaded
<1>3. \A c : ChkFile(c) # Latest /\ SummaryFile(c) # Latest
  BY DEF ChkFile, SummaryFile, Latest
<1>4. Snapshot # Latest /\ snapshot /\ Snapshot \notin torn
  BY <1>1 DEF Latest, Snapshot, HonestInv, Known
<1>5. \A c : Failing(c)' = Failing(c)
  BY <1>1 DEF Failing
<1>6. DirectoryHonest'
  BY <1>1, <1>3, <1>4, <1>5 DEF HonestInv, DirectoryHonest
<1>. QED
  BY <1>2, <1>6

\* Merge and Account change no file of the directory.
LEMMA MergeHonest ==
  ASSUME HonestInv, Merge \/ Account, UNCHANGED runner
  PROVE  Known' /\ DirectoryHonest'
<1>1. /\ pc \in {"merge", "account"}
      /\ UNCHANGED <<config, snapshot, manifest, chk, summary, torn>>
      /\ pc' = "idle" \/ (pc' = "loop" /\ UNCHANGED existing)
  BY DEF Merge, Account, Ends, Goes
<1>2. CASE pc' = "idle"
  BY <1>1, <1>2, QuietHonest
<1>3. CASE pc' = "loop" /\ UNCHANGED existing
  <2>1. Known'
    BY <1>1, <1>3 DEF HonestInv, Known, Places, Loaded
  <2>2. \A c : Failing(c)' = Failing(c)
    BY <1>1 DEF Failing
  <2>3. DirectoryHonest'
    BY <1>1, <2>2 DEF HonestInv, DirectoryHonest
  <2>. QED
    BY <2>1, <2>3
<1>. QED
  BY <1>1, <1>2, <1>3

\* Writing the summary of the next chunk says nothing of the chunks that are there.
LEMMA SummaryOfNext ==
  ASSUME HonestInv, Loaded, Pending # {}, NEW n, Summarised(n), UNCHANGED <<config, chk>>
  PROVE  /\ DOMAIN summary' = (DOMAIN summary) \cup {NextChunk}
         /\ torn' = torn \ {SummaryFile(NextChunk)}
         /\ \A c : ChkFile(c) \in torn' <=> ChkFile(c) \in torn
         /\ \A c : SummaryFile(c) \in torn' => SummaryFile(c) \in torn
         /\ Latest \in torn' <=> Latest \in torn
         /\ Snapshot \in torn' <=> Snapshot \in torn
<1>1. \A c, d : ChkFile(c) # SummaryFile(d)
  BY DEF ChkFile, SummaryFile
<1>2. Latest # SummaryFile(NextChunk) /\ Snapshot # SummaryFile(NextChunk)
  BY DEF Latest, Snapshot, SummaryFile
<1>. QED
  BY <1>1, <1>2 DEF Summarised

\* A chunk whose summary is written is to be run still.
LEMMA RunKeepsNext ==
  ASSUME HonestInv, Loaded, Pending # {}, NEW n, Summarised(n),
         UNCHANGED <<config, chk, opts, existing>>
  PROVE  Pending' = Pending /\ NextChunk' = NextChunk
<1>1. ChunksOf(opts.every)' = ChunksOf(opts.every)
  BY DEF ChunksOf, RunIds
<1>2. \A c \in chk : c \in DOMAIN summary
  BY DEF HonestInv, Known, DirectoryHonest
<1>3. ElementsOf(existing') = chk /\ ElementsOf(existing) = chk
  BY DEF HonestInv, Known
<1>4. DOMAIN summary' = (DOMAIN summary) \cup {NextChunk}
  BY SummaryOfNext
<1>5. Pending' = Pending
  BY <1>1, <1>2, <1>3, <1>4 DEF Pending
<1>. QED
  BY <1>5 DEF NextChunk

LEMMA RunHonest ==
  ASSUME HonestInv, RunChunk, UNCHANGED runner
  PROVE  Known' /\ DirectoryHonest'
<1>1. /\ pc = "loop" /\ Pending # {} /\ ~Failing(NextChunk) /\ pc' = "commit"
      /\ UNCHANGED <<config, snapshot, manifest, chk, opts, existing>>
  BY DEF RunChunk, Goes
<1>2. PICK n : Summarised(n)
  BY DEF RunChunk
<1>3. Loaded
  BY <1>1 DEF Loaded
<1>4. /\ DOMAIN summary' = (DOMAIN summary) \cup {NextChunk}
      /\ torn' = torn \ {SummaryFile(NextChunk)}
      /\ \A c : ChkFile(c) \in torn' <=> ChkFile(c) \in torn
      /\ \A c : SummaryFile(c) \in torn' => SummaryFile(c) \in torn
      /\ Latest \in torn' <=> Latest \in torn
      /\ Snapshot \in torn' <=> Snapshot \in torn
  BY <1>1, <1>2, <1>3, SummaryOfNext
<1>5. \A c : Failing(c)' = Failing(c)
  BY <1>1 DEF Failing
<1>6. NextChunk' = NextChunk
  BY <1>1, <1>2, <1>3, RunKeepsNext
<1>7. Known'
  <2>1. /\ IsFiniteSet(chk') /\ pc' \in Places /\ runner' = "wait"
        /\ snapshot' \in BOOLEAN /\ snapshot' /\ Snapshot \notin torn'
    BY <1>1, <1>4 DEF HonestInv, Known, Places
  <2>2. /\ existing' \in Seq(chk') /\ ElementsOf(existing') = chk'
        /\ \A c \in chk' : ChkFile(c) \notin torn'
    BY <1>1, <1>3, <1>4 DEF HonestInv, Known
  <2>3. NextChunk' \in DOMAIN summary' /\ SummaryFile(NextChunk') \notin torn'
    BY <1>4, <1>6
  <2>4. ~Failing(NextChunk)'
    BY <1>1, <1>6 DEF Failing
  <2>. QED
    BY <2>1, <2>2, <2>3, <2>4 DEF Known
<1>8. DirectoryHonest'
  BY <1>1, <1>4, <1>5 DEF HonestInv, DirectoryHonest
<1>. QED
  BY <1>7, <1>8

LEMMA FailsHonest ==
  ASSUME HonestInv, ChunkFails \/ OutOfTime \/ Finish, UNCHANGED runner
  PROVE  Known' /\ DirectoryHonest'
<1>1. pc' = "idle" /\ UNCHANGED <<config, snapshot, manifest, chk>>
  BY DEF ChunkFails, OutOfTime, Finish, Ends
<1>2. CASE ChunkFails
  <2>1. PICK n : Summarised(n)
    BY <1>2 DEF ChunkFails
  <2>2. Loaded /\ Pending # {}
    BY <1>2 DEF ChunkFails, Loaded
  <2>3. /\ DOMAIN summary' = (DOMAIN summary) \cup {NextChunk}
        /\ \A c : ChkFile(c) \in torn' <=> ChkFile(c) \in torn
        /\ \A c : SummaryFile(c) \in torn' => SummaryFile(c) \in torn
        /\ Latest \in torn' <=> Latest \in torn
        /\ Snapshot \in torn' <=> Snapshot \in torn
    BY <1>1, <2>1, <2>2, SummaryOfNext
  <2>. QED
    BY <1>1, <2>3, IdleHonest
<1>3. CASE OutOfTime \/ Finish
  BY <1>1, <1>3, QuietHonest DEF OutOfTime, Finish
<1>. QED
  BY <1>2, <1>3

LEMMA CommitHonest ==
  ASSUME HonestInv, Commit, UNCHANGED runner
  PROVE  Known' /\ DirectoryHonest'
<1>1. /\ pc = "commit" /\ pc' = "account"
      /\ chk' = chk \cup {NextChunk} /\ torn' = torn \ {ChkFile(NextChunk)}
      /\ existing' = Append(existing, NextChunk)
      /\ UNCHANGED <<config, snapshot, manifest, summary>>
  BY DEF Commit, Goes
<1>2. /\ existing \in Seq(chk) /\ ElementsOf(existing) = chk
      /\ \A c \in chk : ChkFile(c) \notin torn
      /\ NextChunk \in DOMAIN summary /\ SummaryFile(NextChunk) \notin torn /\ ~Failing(NextChunk)
  BY <1>1 DEF HonestInv, Known, Loaded
<1>3. existing' \in Seq(chk') /\ ElementsOf(existing') = chk'
  <2>1. existing \in Seq(chk') /\ NextChunk \in chk'
    BY <1>1, <1>2
  <2>2. /\ existing' \in Seq(chk')
        /\ DOMAIN existing' = 1 .. Len(existing) + 1
        /\ DOMAIN existing = 1 .. Len(existing)
        /\ \A i \in 1 .. Len(existing) : existing'[i] = existing[i]
        /\ existing'[Len(existing) + 1] = NextChunk
        /\ Len(existing) \in Nat
    BY <1>1, <2>1
  <2>3. ElementsOf(existing') = ElementsOf(existing) \cup {NextChunk}
    BY <2>2 DEF ElementsOf
  <2>. QED
    BY <1>1, <1>2, <2>2, <2>3
<1>4. IsFiniteSet(chk')
  BY <1>1, FS_AddElement DEF HonestInv, Known
<1>5. Known'
  BY <1>1, <1>2, <1>3, <1>4 DEF HonestInv, Known, Places, Loaded
<1>6. \A c : Failing(c)' = Failing(c)
  BY <1>1 DEF Failing
<1>7. /\ Latest # ChkFile(NextChunk) /\ Snapshot # ChkFile(NextChunk)
      /\ \A c : SummaryFile(c) # ChkFile(NextChunk)
  BY DEF Latest, Snapshot, SummaryFile, ChkFile
<1>8. DirectoryHonest'
  BY <1>1, <1>2, <1>6, <1>7 DEF HonestInv, DirectoryHonest
<1>. QED
  BY <1>5, <1>8

\* A kill leaves at most the file in hand torn.
LEMMA KillHonest ==
  ASSUME HonestInv, Kill
  PROVE  Known' /\ DirectoryHonest'
<1>1. pc # "idle" /\ pc' = "idle" /\ UNCHANGED <<config, manifest>>
  BY DEF Kill, Ends
<1>2. PICK files \in SUBSET BeingWritten : Left(files)
  BY DEF Kill
<1>3. torn' = torn \cup files
  BY <1>2 DEF Left
<1>4. snapshot' \in BOOLEAN
  BY <1>2 DEF Left, HonestInv, Known
<1>5. \A c, d : /\ ChkFile(c) # SummaryFile(d) /\ ChkFile(c) # Latest /\ ChkFile(c) # Snapshot
                /\ SummaryFile(c) # Latest /\ SummaryFile(c) # Snapshot /\ Latest # Snapshot
                /\ (ChkFile(c) = ChkFile(d) => c = d) /\ (SummaryFile(c) = SummaryFile(d) => c = d)
  BY DEF ChkFile, SummaryFile, Latest, Snapshot
<1>6. \A c : Failing(c)' = Failing(c)
  BY <1>1 DEF Failing
<1>7. CASE files = {}
  <2>1. UNCHANGED <<snapshot, chk, summary, torn>>
    BY <1>2, <1>7 DEF Left, HonestInv, Known
  <2>. QED
    BY <1>1, <2>1, QuietHonest
<1>8. CASE files # {} /\ pc = "setup"
  <2>1. /\ files = {Snapshot} /\ ~(snapshot /\ Snapshot \notin torn)
        /\ chk' = chk /\ summary' = summary
    BY <1>2, <1>8 DEF Left, BeingWritten
  <2>2. Known'
    BY <1>1, <1>4, <2>1 DEF HonestInv, Known, Places, Loaded
  <2>3. DirectoryHonest'
    BY <1>1, <1>3, <1>5, <1>6, <2>1 DEF HonestInv, DirectoryHonest
  <2>. QED
    BY <2>2, <2>3
<1>9. CASE files # {} /\ pc = "manifest"
  <2>1. files = {Latest} /\ chk' = chk /\ summary' = summary
    BY <1>2, <1>9 DEF Left, BeingWritten
  <2>2. Known'
    BY <1>1, <1>4, <2>1 DEF HonestInv, Known, Places, Loaded
  <2>3. DirectoryHonest'
    BY <1>1, <1>3, <1>5, <1>6, <2>1 DEF HonestInv, DirectoryHonest
  <2>. QED
    BY <2>2, <2>3
<1>10. CASE files # {} /\ pc = "loop"
  <2>1. Pending # {} /\ files = {SummaryFile(NextChunk)} /\ chk' = chk
    BY <1>2, <1>10 DEF Left, BeingWritten
  <2>2. /\ DOMAIN summary \subseteq DOMAIN summary'
        /\ snapshot' = (snapshot \/ Snapshot \in files)
    BY <1>2, <1>10 DEF Left
  <2>3. snapshot' = snapshot
    BY <1>5, <1>10, <2>1, <2>2 DEF HonestInv, Known
  <2>4. NextChunk \notin chk
    BY <1>10, <2>1, NextIsNew DEF Loaded
  <2>. QED
    BY <1>1, <1>3, <1>5, <2>1, <2>2, <2>3, <2>4, IdleHonest
<1>11. CASE files # {} /\ pc = "commit"
  <2>1. /\ files = {ChkFile(NextChunk)} /\ summary' = summary
        /\ chk' = chk \cup {NextChunk}
        /\ snapshot' = (snapshot \/ Snapshot \in files)
    BY <1>2, <1>11 DEF Left, BeingWritten
  <2>2. snapshot' /\ snapshot
    BY <1>11, <2>1 DEF HonestInv, Known
  <2>3. IsFiniteSet(chk')
    BY <2>1, FS_AddElement DEF HonestInv, Known
  <2>4. Known'
    BY <1>1, <1>4, <2>3 DEF HonestInv, Known, Places, Loaded
  <2>5. DirectoryHonest'
    BY <1>1, <1>3, <1>5, <1>6, <2>1, <2>2 DEF HonestInv, DirectoryHonest
  <2>. QED
    BY <2>4, <2>5
<1>12. files = {} \/ pc \in {"setup", "manifest", "loop", "commit"}
  BY <1>2 DEF BeingWritten
<1>. QED
  BY <1>7, <1>8, <1>9, <1>10, <1>11, <1>12

-----------------------------------------------------------------------------
LEMMA SessionHonest ==
  ASSUME HonestInv, SessionStep, UNCHANGED runner
  PROVE  Known' /\ DirectoryHonest'
BY SetupHonest, LoadHonest, ManifestHonest, MergeHonest, RunHonest, FailsHonest, CommitHonest
   DEF SessionStep

LEMMA StartHonest ==
  ASSUME HonestInv, NEW o, Start(o) \/ Resume(o), runner' = "wait"
  PROVE  Known' /\ DirectoryHonest'
<1>1. UNCHANGED <<config, snapshot, manifest, chk, summary, torn>> /\ pc' \in {"idle", "setup"}
  BY DEF Start, Resume, Begin, Refuses, Ends, diskVars
<1>2. Known'
  BY <1>1 DEF HonestInv, Known, Places, Loaded
<1>3. \A c : Failing(c)' = Failing(c)
  BY <1>1 DEF Failing
<1>4. DirectoryHonest'
  BY <1>1, <1>3 DEF HonestInv, DirectoryHonest
<1>. QED
  BY <1>2, <1>4

\* An empty directory.
LEMMA EmptyHonest ==
  ASSUME HonestInv, EmptyDirectory, pc = "idle", UNCHANGED pc
  PROVE  Known' /\ DirectoryHonest'
<1>1. Known'
  BY FS_EmptySet DEF EmptyDirectory, Known, Places, Loaded
<1>2. DirectoryHonest'
  BY DEF EmptyDirectory, DirectoryHonest
<1>. QED
  BY <1>1, <1>2

LEMMA HonestNext ==
  ASSUME HonestInv, [Next]_vars
  PROVE  HonestInv'
<1>1. SettingsOK'
  BY SettingsNext DEF HonestInv
<1>2. CASE (\E c \in Commands : Launch(c)) \/ NotFound \/ Judge
  <2>1. pc = "idle"
    BY <1>2 DEF Launch, NotFound, Judge, HonestInv, Known
  <2>2. UNCHANGED <<config, snapshot, manifest, chk, summary, torn, pc>>
    BY <1>2 DEF Launch, NotFound, Judge, campaignVars, diskVars, memVars
  <2>. QED
    BY <1>1, <2>1, <2>2, QuietHonest DEF HonestInv
<1>3. CASE Spawn
  BY <1>1, <1>3, StartHonest DEF Spawn, HonestInv
<1>4. CASE Conclude
  <2>1. pc = "idle" /\ UNCHANGED <<config, pc>>
    BY <1>4 DEF Conclude, memVars, HonestInv, Known
  <2>2. CASE command.keep
    <3>1. UNCHANGED <<snapshot, manifest, chk, summary, torn>>
      BY <1>4, <2>2 DEF Conclude, diskVars
    <3>. QED
      BY <1>1, <2>1, <3>1, QuietHonest DEF HonestInv
  <2>3. CASE ~command.keep
    BY <1>1, <1>4, <2>1, <2>3, EmptyHonest DEF Conclude, HonestInv
  <2>. QED
    BY <2>2, <2>3
<1>5. CASE TimesOut \/ SessionKilled
  BY <1>1, <1>5, KillHonest DEF TimesOut, SessionKilled, HonestInv
<1>6. CASE Works
  BY <1>1, <1>6, SessionHonest DEF Works, runnerVars, HonestInv
<1>7. CASE MachineDown
  <2>1. CASE pc = "idle"
    BY <1>1, <1>7, <2>1, QuietHonest DEF MachineDown, campaignVars, diskVars, memVars, HonestInv
  <2>2. CASE pc # "idle"
    BY <1>1, <1>7, <2>2, KillHonest DEF MachineDown, HonestInv
  <2>. QED
    BY <2>1, <2>2
<1>8. CASE Cleared
  BY <1>1, <1>8, EmptyHonest DEF Cleared, FreshDirectory, memVars, HonestInv
<1>9. CASE UNCHANGED vars
  <2>1. UNCHANGED vars /\ UNCHANGED <<campaignVars, runner>>
    BY <1>9 DEF vars, runnerVars
  <2>2. UNCHANGED <<config, snapshot, manifest, chk, summary, torn, pc, opts, existing, runner>>
    BY <2>1 DEF campaignVars, diskVars, memVars
  <2>3. ChunksOf(opts.every)' = ChunksOf(opts.every)
    BY <2>2 DEF ChunksOf, RunIds
  <2>4. NextChunk' = NextChunk
    BY <2>2, <2>3 DEF NextChunk, Pending
  <2>5. \A c : Failing(c)' = Failing(c)
    BY <2>2 DEF Failing
  <2>6. Failing(NextChunk)' = Failing(NextChunk)
    BY <2>2, <2>4 DEF Failing
  <2>7. Known'
    BY <2>2, <2>4, <2>6 DEF HonestInv, Known, Places, Loaded
  <2>8. DirectoryHonest'
    BY <2>2, <2>5 DEF HonestInv, DirectoryHonest
  <2>. QED
    BY <1>1, <2>7, <2>8 DEF HonestInv
<1>. QED
  BY <1>2, <1>3, <1>4, <1>5, <1>6, <1>7, <1>8, <1>9 DEF Next, RunnerStep

(***************************************************************************)
(* Whatever is killed when, a chunk file that can be read stands for a     *)
(* chunk whose iterations passed and whose summary is whole, and a manifest*)
(* that can be read has its snapshot.                                      *)
(***************************************************************************)
THEOREM DirectoryStaysHonest == Spec => []DirectoryHonest
<1>1. StagedInit => HonestInv
  BY HonestInit
<1>2. HonestInv /\ [Next]_vars => HonestInv'
  BY HonestNext
<1>3. HonestInv => DirectoryHonest
  BY DEF HonestInv
<1>. QED
  BY <1>1, <1>2, <1>3, PTL DEF Spec

-----------------------------------------------------------------------------
(***************************************************************************)
(* A session obeys its command, so that one that ends well and was not     *)
(* asked to stop has completed the campaign.                               *)
(***************************************************************************)
Obeys ==
  pc # "idle" =>
    /\ opts.stopAfter = command.opts.stopAfter
    /\ opts.wall = command.opts.wall
    /\ IF command.resume THEN manifest # <<>> /\ opts.maxPartial = manifest[1].maxPartial
       ELSE opts.maxPartial = command.opts.maxPartial

EndedWell ==
  runner = "wait" /\ pc = "idle" /\ exit = 0 /\ ~AskedToStop => report.reason = "completed"

PassInv ==
  /\ SettingsOK
  /\ runner # "wait" => pc = "idle"
  /\ Obeys /\ EndedWell /\ PassMeansDone

LEMMA PassInit == StagedInit => PassInv
BY SettingsInit DEF StagedInit, Init, PassInv, Obeys, EndedWell, PassMeansDone, Infra, Pass

\* Nobody passes who is not judged.
LEMMA StillPasses ==
  ASSUME PassInv, runner' # "report" \/ status' # Pass
  PROVE  PassMeansDone'
BY DEF PassMeansDone

LEMMA StartPasses ==
  ASSUME PassInv, Spawn
  PROVE  Obeys' /\ EndedWell' /\ PassMeansDone' /\ (runner' # "wait" => pc' = "idle")
<1>1. runner' = "wait" /\ UNCHANGED command
  BY DEF Spawn
<1>2. PassMeansDone'
  BY <1>1, StillPasses
<1>3. command.opts \in Settings
  BY DEF PassInv, SettingsOK
<1>4. CASE Refuses
  <2>1. pc' = "idle" /\ exit' = 1
    BY <1>4 DEF Refuses, Ends
  <2>. QED
    BY <1>1, <1>2, <2>1 DEF Obeys, EndedWell
<1>5. CASE ~command.resume /\ Begin(command.opts)
  <2>1. /\ pc' = "setup"
        /\ opts' = [command.opts EXCEPT !.every = EveryOf(command.opts)]
    BY <1>5 DEF Begin
  <2>2. /\ opts'.stopAfter = command.opts.stopAfter /\ opts'.wall = command.opts.wall
        /\ opts'.maxPartial = command.opts.maxPartial
    BY <1>3, <2>1 DEF Settings
  <2>. QED
    BY <1>1, <1>2, <1>5, <2>1, <2>2 DEF Obeys, EndedWell
<1>6. CASE /\ command.resume /\ manifest # <<>>
           /\ Begin([command.opts EXCEPT !.every = manifest[1].every,
                                         !.budget = manifest[1].budget,
                                         !.maxPartial = manifest[1].maxPartial])
  <2>. DEFINE o == [command.opts EXCEPT !.every = manifest[1].every,
                                        !.budget = manifest[1].budget,
                                        !.maxPartial = manifest[1].maxPartial]
  <2>1. o.stopAfter = command.opts.stopAfter /\ o.wall = command.opts.wall
        /\ o.maxPartial = manifest[1].maxPartial /\ DOMAIN o = DOMAIN command.opts
    BY <1>3 DEF Settings
  <2>2. pc' = "setup" /\ UNCHANGED manifest /\ opts' = [o EXCEPT !.every = EveryOf(o)]
    BY <1>6 DEF Begin, diskVars
  <2>. HIDE DEF o
  <2>3. /\ opts'.stopAfter = command.opts.stopAfter /\ opts'.wall = command.opts.wall
        /\ opts'.maxPartial = manifest[1].maxPartial
    BY <1>3, <2>1, <2>2 DEF Settings
  <2>. QED
    BY <1>1, <1>2, <1>6, <2>2, <2>3 DEF Obeys, EndedWell
<1>7. Refuses \/ (~command.resume /\ Begin(command.opts))
      \/ /\ command.resume /\ manifest # <<>>
         /\ Begin([command.opts EXCEPT !.every = manifest[1].every,
                                       !.budget = manifest[1].budget,
                                       !.maxPartial = manifest[1].maxPartial])
  BY DEF Spawn, Start, Resume
<1>. QED
  BY <1>4, <1>5, <1>6, <1>7

LEMMA SessionPasses ==
  ASSUME PassInv, Works
  PROVE  Obeys' /\ EndedWell' /\ PassMeansDone' /\ (runner' # "wait" => pc' = "idle")
<1>1. UNCHANGED runnerVars /\ SessionStep /\ pc # "idle"
  BY DEF Works, SessionStep, TakeSnapshot, LoadChunks, WriteManifest, Merge, OutOfTime, RunChunk,
         ChunkFails, Commit, Account, Finish
<1>2. runner = "wait" /\ runner' = "wait" /\ UNCHANGED command
  BY <1>1 DEF runnerVars, PassInv
<1>3. PassMeansDone'
  BY <1>2, StillPasses
<1>4. Obeys /\ opts.maxPartial \in Nat
  BY DEF PassInv, SettingsOK, Settings
<1>5. CASE pc' # "idle" /\ UNCHANGED <<opts, manifest>>
  BY <1>1, <1>2, <1>3, <1>4, <1>5 DEF Obeys, EndedWell
<1>6. CASE pc' = "idle" /\ exit' # 0
  BY <1>2, <1>3, <1>6 DEF Obeys, EndedWell
<1>7. CASE pc' = "idle" /\ report'.reason = "completed"
  BY <1>2, <1>3, <1>7 DEF Obeys, EndedWell
<1>8. ASSUME pc' = "idle", UNCHANGED manifest,
             opts.stopAfter \/ opts.wall \/ opts.maxPartial # 0
      PROVE  Obeys' /\ EndedWell'
  BY <1>1, <1>2, <1>4, <1>8 DEF Obeys, EndedWell, AskedToStop
<1>9. CASE TakeSnapshot \/ RunChunk \/ Commit
  BY <1>5, <1>9, <1>2, <1>3 DEF TakeSnapshot, RunChunk, Commit, Goes
<1>10. CASE LoadChunks
  BY <1>2, <1>3, <1>5, <1>6, <1>10 DEF LoadChunks, Goes, Refuses, Ends, diskVars
<1>11. CASE WriteManifest
  <2>1. pc' = "merge" /\ manifest' = <<ManifestOf(opts)>> /\ UNCHANGED opts
    BY <1>11 DEF WriteManifest, Goes
  <2>2. manifest' # <<>> /\ manifest'[1].maxPartial = opts.maxPartial
    BY <2>1 DEF ManifestOf
  <2>. QED
    BY <1>1, <1>2, <1>3, <1>4, <2>1, <2>2 DEF Obeys, EndedWell
<1>12. CASE Merge
  <2>1. CASE EnoughChunks(existing)
    <3>1. pc' = "idle" /\ UNCHANGED manifest /\ opts.maxPartial # 0
      BY <1>12, <2>1 DEF Merge, Ends, EnoughChunks
    <3>. QED
      BY <1>2, <1>3, <1>8, <3>1
  <2>2. CASE ~EnoughChunks(existing)
    BY <1>2, <1>3, <1>5, <1>12, <2>2 DEF Merge, Goes
  <2>. QED
    BY <2>1, <2>2
<1>13. CASE OutOfTime
  BY <1>2, <1>3, <1>8, <1>13 DEF OutOfTime, Ends
<1>14. CASE ChunkFails
  BY <1>2, <1>3, <1>6, <1>14 DEF ChunkFails, Ends
<1>15. CASE Account
  <2>1. UNCHANGED manifest
    BY <1>15 DEF Account
  <2>2. CASE opts.stopAfter \/ opts.wall \/ opts.maxPartial # 0
    <3>1. pc' = "idle" \/ (pc' # "idle" /\ UNCHANGED opts)
      BY <1>15 DEF Account, Ends, Goes
    <3>. QED
      BY <1>2, <1>3, <1>5, <1>8, <2>1, <2>2, <3>1
  <2>3. CASE ~(opts.stopAfter \/ opts.wall \/ opts.maxPartial # 0)
    <3>1. ReasonsToStop = {NoReason}
      BY <2>3 DEF ReasonsToStop, EnoughChunks
    <3>2. pc' # "idle" /\ UNCHANGED opts
      BY <1>15, <3>1 DEF Account, Goes
    <3>. QED
      BY <1>2, <1>3, <1>5, <2>1, <3>2
  <2>. QED
    BY <2>2, <2>3
<1>16. CASE Finish
  BY <1>2, <1>3, <1>7, <1>16 DEF Finish, Ends, AggregateOf
<1>. QED
  BY <1>1, <1>9, <1>10, <1>11, <1>12, <1>13, <1>14, <1>15, <1>16 DEF SessionStep

LEMMA PassNext ==
  ASSUME PassInv, [Next]_vars
  PROVE  PassInv'
<1>1. SettingsOK'
  BY SettingsNext DEF PassInv
<1>2. ASSUME pc' = "idle", runner' # "wait", runner' # "report" \/ status' # Pass
      PROVE  PassInv'
  BY <1>1, <1>2, StillPasses DEF PassInv, Obeys, EndedWell
<1>3. CASE (\E c \in Commands : Launch(c)) \/ NotFound
  BY <1>2, <1>3 DEF Launch, NotFound, PassInv, campaignVars, memVars, Infra, Pass
<1>4. CASE Spawn
  BY <1>1, <1>4, StartPasses DEF PassInv
<1>5. CASE Judge
  <2>1. /\ runner = "wait" /\ pc = "idle" /\ pc' = "idle" /\ runner' \in {"report", "spawn"}
        /\ UNCHANGED <<command, manifest, report>>
        /\ \E mentions \in IF exit = 0 THEN {FALSE} ELSE BOOLEAN : status' = Classified(exit, mentions)
    BY <1>5 DEF Judge, campaignVars, diskVars, memVars
  <2>2. status' = Pass => exit = 0
    BY <2>1 DEF Classified, Pass, Infra, Semantic
  <2>3. PassMeansDone'
    BY <2>1, <2>2 DEF PassInv, PassMeansDone, EndedWell, AskedToStop
  <2>. QED
    BY <1>1, <2>1, <2>3 DEF PassInv, Obeys, EndedWell
<1>6. CASE Conclude
  BY <1>2, <1>6 DEF Conclude, Gone, memVars, PassInv
<1>7. CASE TimesOut
  BY <1>2, <1>7 DEF TimesOut, Kill, Ends, Infra, Pass
<1>8. CASE SessionKilled
  <2>1. /\ pc # "idle" /\ pc' = "idle" /\ exit' = Killed
        /\ UNCHANGED <<runner, command, status>>
    BY <1>8 DEF SessionKilled, Kill, Ends, runnerVars
  <2>2. runner' = "wait" /\ exit' # 0
    BY <2>1 DEF PassInv, Killed
  <2>3. PassMeansDone'
    BY <2>2, StillPasses
  <2>. QED
    BY <1>1, <2>1, <2>2, <2>3 DEF PassInv, Obeys, EndedWell
<1>9. CASE Works
  BY <1>1, <1>9, SessionPasses DEF PassInv
<1>10. CASE MachineDown
  BY <1>2, <1>10 DEF MachineDown, Gone, Kill, Ends, campaignVars, memVars
<1>11. CASE Cleared
  BY <1>2, <1>11 DEF Cleared, FreshDirectory, memVars, runnerVars
<1>12. CASE UNCHANGED vars
  BY <1>1, <1>12 DEF vars, campaignVars, diskVars, memVars, runnerVars, PassInv, Obeys, EndedWell,
                     PassMeansDone, AskedToStop
<1>. QED
  BY <1>3, <1>4, <1>5, <1>6, <1>7, <1>8, <1>9, <1>10, <1>11, <1>12 DEF Next, RunnerStep

(***************************************************************************)
(* Whatever is killed, retried and resumed, "pass" for a campaign nobody   *)
(* asked to stop early means that the last session completed it.           *)
(***************************************************************************)
THEOREM PassIsDone == Spec => []PassMeansDone
<1>1. StagedInit => PassInv
  BY PassInit
<1>2. PassInv /\ [Next]_vars => PassInv'
  BY PassNext
<1>3. PassInv => PassMeansDone
  BY DEF PassInv
<1>. QED
  BY <1>1, <1>2, <1>3, PTL DEF Spec

-----------------------------------------------------------------------------
(***************************************************************************)
(* A completed campaign has no failing iteration: the second half of       *)
(* CompletedExactly.                                                       *)
(***************************************************************************)
NoneFails ==
  \A r \in RunIds : \A s \in 1 .. config[r].seeds, k \in 0 .. config[r].iters - 1 :
    <<s, k>> \notin config[r].failing

SoundInv ==
  /\ HonestInv
  /\ pc # "idle" => opts.every > 0
  /\ report.reason = "completed" => NoneFails

\* Every iteration is in some chunk.
LEMMA ChunksCover ==
  ASSUME config \in Configs, NEW every \in Nat, every > 0,
         NEW r \in RunIds, NEW s \in 1 .. config[r].seeds, NEW k \in 0 .. config[r].iters - 1
  PROVE  \E c \in ChunksOf(every) :
            c[1] = r /\ c[2] = s /\ k \in c[3] .. c[3] + c[4] - 1
<1>1. config[r].iters \in Nat
  <2>1. config[r] \in RunsOfCampaigns
    BY CampaignAssumption DEF RunIds
  <2>. QED
    BY <2>1 DEF RunsOfCampaigns
<1>. DEFINE Q == {q \in Nat : k < q * every + every}
<1>2. k \in Q
  <2>1. k \in Nat
    BY <1>1
  <2>2. k <= k * every
    BY <2>1
  <2>. QED
    BY <2>1, <2>2
<1>3. PICK q \in Q : \A m \in Q : q <= m
  BY <1>2, LeastNatural
<1>4. q \in Nat /\ k \in Nat /\ q * every \in Nat /\ k < q * every + every
  BY <1>1, <1>3
<1>5. q * every <= k
  <2>1. CASE q = 0
    BY <1>4, <2>1
  <2>2. CASE q # 0
    <3>1. q - 1 \in Nat /\ q - 1 \notin Q
      BY <1>3, <1>4, <2>2
    <3>2. ~(k < (q - 1) * every + every)
      BY <3>1
    <3>3. (q - 1) * every + every = q * every
      BY <1>4
    <3>. QED
      BY <1>4, <3>2, <3>3
  <2>. QED
    BY <2>1, <2>2
<1>6. q <= q * every
  BY <1>4
<1>7. q \in {i \in 0 .. config[r].iters : i * every < config[r].iters}
  BY <1>1, <1>4, <1>5, <1>6
<1>. DEFINE c == <<r, s, q * every, Least(every, config[r].iters - q * every)>>
<1>8. c \in ChunksOf(every)
  BY <1>7 DEF ChunksOf
<1>9. k \in c[3] .. c[3] + c[4] - 1
  BY <1>1, <1>4, <1>5 DEF Least
<1>. QED
  BY <1>8, <1>9

LEMMA FinishIsSound ==
  ASSUME SoundInv, Finish
  PROVE  NoneFails
<1>1. pc = "loop" /\ Pending = {}
  BY DEF Finish
<1>2. config \in Configs /\ opts.every \in Nat /\ opts.every > 0
  BY <1>1 DEF SoundInv, HonestInv, SettingsOK, Settings
<1>3. ASSUME NEW c \in ChunksOf(opts.every)
      PROVE  ~Failing(c)
  <2>1. c \in ElementsOf(existing)
    BY <1>1 DEF Pending
  <2>2. c \in chk /\ ChkFile(c) \notin torn
    BY <1>1, <2>1 DEF SoundInv, HonestInv, Known, Loaded
  <2>. QED
    BY <2>2 DEF SoundInv, HonestInv, DirectoryHonest
<1>4. ASSUME NEW r \in RunIds, NEW s \in 1 .. config[r].seeds, NEW k \in 0 .. config[r].iters - 1
      PROVE  <<s, k>> \notin config[r].failing
  <2>1. PICK c \in ChunksOf(opts.every) : c[1] = r /\ c[2] = s /\ k \in c[3] .. c[3] + c[4] - 1
    BY <1>2, ChunksCover
  <2>2. ~Failing(c)
    BY <1>3
  <2>. QED
    BY <2>1, <2>2 DEF Failing
<1>. QED
  BY <1>4 DEF NoneFails

LEMMA StepIsSound ==
  ASSUME SoundInv, [Next]_vars
  PROVE  /\ config' = config
         /\ pc' # "idle" => opts'.every > 0
         /\ report'.reason = "completed" => report' = report \/ Finish
<1>. DEFINE Goal == /\ config' = config
                    /\ pc' # "idle" => opts'.every > 0
                    /\ report'.reason = "completed" => report' = report \/ Finish
<1>1. CASE (\E c \in Commands : Launch(c)) \/ NotFound \/ Judge \/ UNCHANGED vars
  BY <1>1 DEF Launch, NotFound, Judge, vars, campaignVars, diskVars, memVars, SoundInv
<1>2. CASE Spawn
  <2>1. /\ config' = config /\ report' = report
        /\ pc' = "idle" \/ \E o \in Settings : Begin(o)
    <3>1. Start(command.opts) \/ Resume(command.opts)
      BY <1>2 DEF Spawn
    <3>2. command.opts \in Settings
      BY DEF SoundInv, HonestInv, SettingsOK
    <3>. DEFINE o == [command.opts EXCEPT !.every = manifest[1].every,
                                          !.budget = manifest[1].budget,
                                          !.maxPartial = manifest[1].maxPartial]
    <3>3. manifest # <<>> => o \in Settings
      BY <3>2 DEF SoundInv, HonestInv, SettingsOK, Settings, InManifest
    <3>4. config' = config /\ report' = report
      BY <3>1 DEF Start, Resume, Begin, Refuses, diskVars
    <3>5. Refuses \/ Begin(command.opts) \/ (manifest # <<>> /\ Begin(o))
      BY <3>1 DEF Start, Resume
    <3>. HIDE DEF o
    <3>6. Refuses => pc' = "idle"
      BY DEF Refuses, Ends
    <3>. QED
      BY <3>2, <3>3, <3>4, <3>5, <3>6
  <2>2. ASSUME NEW o \in Settings, Begin(o)
        PROVE  opts'.every > 0
    <3>1. opts' = [o EXCEPT !.every = EveryOf(o)]
      BY <2>2 DEF Begin
    <3>2. o.every \in Nat /\ opts'.every = EveryOf(o)
      BY <3>1 DEF Settings
    <3>. QED
      BY <3>2 DEF EveryOf, DefaultEvery
  <2>. QED
    BY <2>1, <2>2
<1>3. CASE Conclude
  <2>1. pc' = pc /\ opts' = opts /\ config' = config
        /\ (report' = report \/ report'.reason = NoReason)
    BY <1>3 DEF Conclude, memVars, diskVars
  <2>. QED
    BY <2>1 DEF SoundInv, NoReason
<1>4. CASE TimesOut \/ SessionKilled \/ (MachineDown /\ pc # "idle")
  BY <1>4 DEF TimesOut, SessionKilled, MachineDown, Kill, Ends
<1>5. CASE MachineDown /\ pc = "idle"
  BY <1>5 DEF MachineDown, campaignVars, diskVars, memVars
<1>6. CASE Cleared
  BY <1>6 DEF Cleared, FreshDirectory, memVars, SoundInv
<1>7. CASE Works
  <2>1. CASE TakeSnapshot \/ WriteManifest \/ RunChunk \/ Commit
    BY <2>1 DEF TakeSnapshot, WriteManifest, RunChunk, Commit, Goes, SoundInv
  <2>2. CASE LoadChunks
    BY <2>2 DEF LoadChunks, Refuses, Ends, Goes, diskVars, SoundInv
  <2>3. CASE Merge
    BY <2>3 DEF Merge, Ends, Goes, AggregateOf, NoReason, SoundInv
  <2>4. CASE OutOfTime \/ ChunkFails
    BY <2>4 DEF OutOfTime, ChunkFails, Ends, AggregateOf, NoReason
  <2>5. CASE Account
    BY <2>5 DEF Account, ReasonsToStop, Ends, Goes, AggregateOf, NoReason, SoundInv
  <2>6. CASE Finish
    BY <2>6 DEF Finish, Ends
  <2>. QED
    BY <1>7, <2>1, <2>2, <2>3, <2>4, <2>5, <2>6 DEF Works, SessionStep
<1>. QED
  BY <1>1, <1>2, <1>3, <1>4, <1>5, <1>6, <1>7 DEF Next, RunnerStep

LEMMA SoundNext ==
  ASSUME SoundInv, [Next]_vars
  PROVE  SoundInv'
<1>1. HonestInv'
  BY HonestNext DEF SoundInv
<1>2. NoneFails => NoneFails'
  BY StepIsSound DEF NoneFails, RunIds
<1>3. report'.reason = "completed" => NoneFails
  BY StepIsSound, FinishIsSound DEF SoundInv
<1>. QED
  BY <1>1, <1>2, <1>3, StepIsSound DEF SoundInv

(***************************************************************************)
(* "pass" is never wrong: whatever is killed, retried, resumed or cleared  *)
(* away, a staged run that passes without having been asked to stop early  *)
(* is one of a campaign none of whose iterations violates the oracle.      *)
(***************************************************************************)
THEOREM PassIsSound ==
  Spec => [](runner = "report" /\ status = Pass /\ ~AskedToStop => NoneFails)
<1>1. StagedInit => SoundInv
  BY HonestInit DEF SoundInv, StagedInit, Init, NoReason
<1>2. SoundInv /\ [Next]_vars => SoundInv'
  BY SoundNext
<1>3. SoundInv /\ PassMeansDone =>
        (runner = "report" /\ status = Pass /\ ~AskedToStop => NoneFails)
  BY DEF SoundInv, PassMeansDone
<1>. QED
  BY <1>1, <1>2, <1>3, PassIsDone, PTL DEF Spec

-----------------------------------------------------------------------------
(***************************************************************************)
(* Sums.  A sum is a fold, and a fold is a recursive function on the       *)
(* subsets of what is summed.  That there is such a function, and that the *)
(* order in which it takes the elements makes no difference, is shown by a *)
(* smallest counterexample.                                                *)
(***************************************************************************)
Pick(s) == CHOOSE x \in s : TRUE

SumsUp(g, F, Ss) ==
  \A s \in Ss : F[s] = IF s = {} THEN 0 ELSE g[Pick(s)] + F[s \ {Pick(s)}]

LEMMA SumExists ==
  ASSUME NEW g, NEW S, IsFiniteSet(S), g \in [S -> Int]
  PROVE  \E F \in [SUBSET S -> Int] : SumsUp(g, F, SUBSET S)
<1>. DEFINE Upto(n) == {s \in SUBSET S : Cardinality(s) <= n}
            Good(n) == \E F \in [Upto(n) -> Int] : SumsUp(g, F, Upto(n))
            Bad == {n \in Nat : ~Good(n)}
<1>1. \A s \in SUBSET S : IsFiniteSet(s) /\ Cardinality(s) \in Nat
  BY FS_Subset, FS_CardinalityType
<1>2. Good(0)
  <2>1. Upto(0) = {{}}
    BY <1>1, FS_EmptySet
  <2>2. SumsUp(g, [s \in Upto(0) |-> 0], Upto(0))
    BY <2>1 DEF SumsUp
  <2>3. [s \in Upto(0) |-> 0] \in [Upto(0) -> Int]
    OBVIOUS
  <2>. QED
    BY <2>2, <2>3
<1>3. ASSUME NEW n \in Nat, Good(n)
      PROVE  Good(n + 1)
  <2>1. PICK F \in [Upto(n) -> Int] : SumsUp(g, F, Upto(n))
    BY <1>3
  <2>. DEFINE G == [s \in Upto(n + 1) |->
                     IF s \in Upto(n) THEN F[s] ELSE g[Pick(s)] + F[s \ {Pick(s)}]]
  <2>2. ASSUME NEW s \in Upto(n + 1), s # {}
        PROVE  Pick(s) \in S /\ s \ {Pick(s)} \in Upto(n) /\ g[Pick(s)] \in Int
    <3>1. Pick(s) \in s
      BY <2>2 DEF Pick
    <3>2. Cardinality(s \ {Pick(s)}) = Cardinality(s) - 1
      BY <1>1, <3>1, FS_RemoveElement
    <3>. QED
      BY <1>1, <3>1, <3>2
  <2>3. {} \in Upto(n)
    BY FS_EmptySet
  <2>4. G \in [Upto(n + 1) -> Int]
    <3>1. ASSUME NEW s \in Upto(n + 1)
          PROVE  (IF s \in Upto(n) THEN F[s] ELSE g[Pick(s)] + F[s \ {Pick(s)}]) \in Int
      <4>1. CASE s \in Upto(n)
        BY <4>1
      <4>2. CASE s \notin Upto(n)
        <5>1. s # {}
          BY <2>3, <4>2
        <5>2. s \ {Pick(s)} \in Upto(n) /\ g[Pick(s)] \in Int
          BY <2>2, <5>1
        <5>. HIDE DEF Upto
        <5>3. F[s \ {Pick(s)}] \in Int
          BY <5>2
        <5>. QED
          BY <4>2, <5>2, <5>3
      <4>. QED
        BY <4>1, <4>2
    <3>. HIDE DEF Upto
    <3>. QED
      BY <3>1
  <2>5. ASSUME NEW s \in Upto(n + 1)
        PROVE  G[s] = IF s = {} THEN 0 ELSE g[Pick(s)] + G[s \ {Pick(s)}]
    <3>0. Upto(n) \subseteq Upto(n + 1)
      BY <1>1
    <3>1. CASE s = {}
      BY <2>1, <2>3, <3>1 DEF SumsUp
    <3>2. CASE s # {}
      <4>1. s \ {Pick(s)} \in Upto(n)
        BY <2>2, <3>2
      <4>2. G[s \ {Pick(s)}] = F[s \ {Pick(s)}]
        BY <3>0, <4>1
      <4>3. CASE s \in Upto(n)
        <5>1. F[s] = g[Pick(s)] + F[s \ {Pick(s)}]
          BY <2>1, <3>2, <4>3 DEF SumsUp
        <5>. QED
          BY <3>2, <4>2, <4>3, <5>1
      <4>4. CASE s \notin Upto(n)
        BY <3>2, <4>2, <4>4
      <4>. QED
        BY <4>3, <4>4
    <3>. QED
      BY <3>1, <3>2
  <2>6. SumsUp(g, G, Upto(n + 1))
    BY <2>5 DEF SumsUp
  <2>. QED
    BY <2>4, <2>6
<1>. HIDE DEF Good
<1>4. Bad = {}
  <2>1. SUFFICES ASSUME Bad # {} PROVE FALSE
    OBVIOUS
  <2>2. PICK n \in Bad : \A m \in Bad : n <= m
    BY <2>1, LeastNatural
  <2>3. n # 0
    BY <1>2
  <2>4. n - 1 \in Nat /\ Good(n - 1)
    BY <2>2, <2>3
  <2>. QED
    BY <1>3, <2>2, <2>4
<1>5. Good(Cardinality(S))
  BY <1>1, <1>4
<1>6. Upto(Cardinality(S)) = SUBSET S
  BY FS_Subset
<1>. QED
  BY <1>5, <1>6 DEF Good

\* F sums g over S, G sums h over T, and the two have the same values on T.
SameSums(S, T, g, h, F, G) ==
  /\ T \subseteq S /\ IsFiniteSet(T)
  /\ \A c \in T : g[c] = h[c]
  /\ SumsUp(g, F, SUBSET S)
  /\ SumsUp(h, G, SUBSET T)

\* Two sums of the same values are the same.
LEMMA SumsAgree ==
  ASSUME NEW S, NEW T, NEW g, NEW h, NEW F, NEW G, SameSums(S, T, g, h, F, G)
  PROVE  F[T] = G[T]
<1>. DEFINE Bad == {s \in SUBSET T : F[s] # G[s]}
<1>0. /\ T \subseteq S /\ IsFiniteSet(T)
      /\ \A c \in T : g[c] = h[c]
      /\ SumsUp(g, F, SUBSET S) /\ SumsUp(h, G, SUBSET T)
  BY DEF SameSums
<1>1. \A s \in SUBSET T : IsFiniteSet(s) /\ Cardinality(s) \in Nat
  BY <1>0, FS_Subset, FS_CardinalityType
<1>2. SUFFICES ASSUME Bad # {} PROVE FALSE
  OBVIOUS
<1>3. PICK n \in {Cardinality(s) : s \in Bad} : \A m \in {Cardinality(s) : s \in Bad} : n <= m
  <2>1. {Cardinality(s) : s \in Bad} \subseteq Nat /\ {Cardinality(s) : s \in Bad} # {}
    BY <1>1, <1>2
  <2>. QED
    BY <2>1, LeastNatural
<1>4. PICK s \in Bad : \A t \in Bad : Cardinality(s) <= Cardinality(t)
  BY <1>3
<1>5. s \in SUBSET S /\ s \in SUBSET T /\ F[s] # G[s]
  BY <1>0, <1>4
<1>6. s # {}
  BY <1>0, <1>5 DEF SumsUp
<1>7. Pick(s) \in s
  BY <1>6 DEF Pick
<1>8. Cardinality(s \ {Pick(s)}) < Cardinality(s)
  BY <1>1, <1>5, <1>7, FS_RemoveElement
<1>9. F[s \ {Pick(s)}] = G[s \ {Pick(s)}]
  <2>1. s \ {Pick(s)} \in SUBSET T
    BY <1>5
  <2>2. s \ {Pick(s)} \notin Bad
    BY <1>1, <1>4, <1>5, <1>8, <2>1
  <2>. QED
    BY <2>1, <2>2
<1>10. F[s] = g[Pick(s)] + F[s \ {Pick(s)}] /\ G[s] = h[Pick(s)] + G[s \ {Pick(s)}]
  BY <1>0, <1>5, <1>6 DEF SumsUp
<1>11. g[Pick(s)] = h[Pick(s)]
  BY <1>0, <1>5, <1>7
<1>. QED
  BY <1>5, <1>9, <1>10, <1>11

\* What can be added up: integers, one for each element of a finite set.
Summable(g, S) == IsFiniteSet(S) /\ g \in [S -> Int]

\* The sum over each subset.
LEMMA TotalIsSum ==
  ASSUME NEW g, NEW S, Summable(g, S)
  PROVE  \E F \in [SUBSET S -> Int] : SumsUp(g, F, SUBSET S) /\ Total(g) = F[S]
<1>0. IsFiniteSet(S) /\ g \in [S -> Int]
  BY DEF Summable
<1>. DEFINE Sum == CHOOSE F : F = [s \in SUBSET S |->
                       IF s = {} THEN 0 ELSE g[CHOOSE x \in s : TRUE] + F[s \ {CHOOSE x \in s : TRUE}]]
<1>1. PICK F \in [SUBSET S -> Int] : SumsUp(g, F, SUBSET S)
  BY <1>0, SumExists
<1>2. F = [s \in SUBSET S |->
             IF s = {} THEN 0 ELSE g[CHOOSE x \in s : TRUE] + F[s \ {CHOOSE x \in s : TRUE}]]
  BY <1>1 DEF SumsUp, Pick
<1>3. Sum = [s \in SUBSET S |->
               IF s = {} THEN 0 ELSE g[CHOOSE x \in s : TRUE] + Sum[s \ {CHOOSE x \in s : TRUE}]]
  BY <1>2
<1>. HIDE DEF Sum
<1>4. SumsUp(g, Sum, SUBSET S)
  BY <1>3 DEF SumsUp, Pick
<1>5. Sum[S] = F[S]
  <2>1. SameSums(S, S, g, g, Sum, F)
    BY <1>0, <1>1, <1>4 DEF SameSums
  <2>. QED
    BY <2>1, SumsAgree
<1>6. Total(g) = Sum[S]
  BY <1>0 DEF Total, MapThenSumSet, MapThenFoldSet, Sum
<1>. QED
  BY <1>1, <1>5, <1>6

\* The sum may be taken in any order.
LEMMA AnyOrder ==
  ASSUME NEW g, NEW S, IsFiniteSet(S), g \in [S -> Int],
         NEW F \in [SUBSET S -> Int], SumsUp(g, F, SUBSET S)
  PROVE  \A s \in SUBSET S : \A x \in s : F[s] = g[x] + F[s \ {x}]
<1>. DEFINE Bad == {s \in SUBSET S : \E x \in s : F[s] # g[x] + F[s \ {x}]}
<1>1. \A s \in SUBSET S : IsFiniteSet(s) /\ Cardinality(s) \in Nat
  BY FS_Subset, FS_CardinalityType
<1>2. SUFFICES ASSUME Bad # {} PROVE FALSE
  OBVIOUS
<1>3. PICK n \in {Cardinality(s) : s \in Bad} : \A m \in {Cardinality(s) : s \in Bad} : n <= m
  <2>1. {Cardinality(s) : s \in Bad} \subseteq Nat /\ {Cardinality(s) : s \in Bad} # {}
    BY <1>1, <1>2
  <2>. QED
    BY <2>1, LeastNatural
<1>4. PICK s \in Bad : \A t \in Bad : Cardinality(s) <= Cardinality(t)
  BY <1>3
<1>5. s \in SUBSET S
  OBVIOUS
<1>6. PICK x \in s : F[s] # g[x] + F[s \ {x}]
  BY <1>4
<1>7. ASSUME NEW y \in s, NEW z \in s, y # z
      PROVE  F[s \ {y}] = g[z] + F[(s \ {y}) \ {z}]
  <2>1. Cardinality(s \ {y}) < Cardinality(s)
    BY <1>1, <1>5, FS_RemoveElement
  <2>2. s \ {y} \in SUBSET S /\ s \ {y} \notin Bad
    BY <1>1, <1>4, <1>5, <2>1
  <2>. QED
    BY <1>7, <2>2
<1>. DEFINE p == Pick(s)
<1>8. p \in s
  BY <1>6 DEF Pick
<1>9. F[s] = g[p] + F[s \ {p}]
  BY <1>5, <1>6 DEF SumsUp
<1>. HIDE DEF p
<1>10. x # p
  BY <1>6, <1>9
<1>11. F[s \ {p}] = g[x] + F[(s \ {p}) \ {x}] /\ F[s \ {x}] = g[p] + F[(s \ {x}) \ {p}]
  BY <1>7, <1>8, <1>10
<1>12. F[(s \ {p}) \ {x}] = F[(s \ {x}) \ {p}]
  <2>1. (s \ {p}) \ {x} = (s \ {x}) \ {p}
    OBVIOUS
  <2>. QED
    BY <2>1
<1>13. g[x] \in Int /\ g[p] \in Int /\ F[(s \ {x}) \ {p}] \in Int
  BY <1>5, <1>8
<1>14. F[s] = g[p] + (g[x] + F[(s \ {x}) \ {p}]) /\ F[s \ {x}] = g[p] + F[(s \ {x}) \ {p}]
  BY <1>9, <1>11, <1>12
<1>. HIDE DEF Bad
<1>. QED
  BY <1>6, <1>13, <1>14

-----------------------------------------------------------------------------
(***************************************************************************)
(* What the sums of the campaign need.                                     *)
(***************************************************************************)
Only(g, C) == [c \in C |-> g[c]]

LEMMA TotalOfNone ==
  ASSUME NEW g, DOMAIN g = {}, g = [c \in DOMAIN g |-> g[c]]
  PROVE  Total(g) = 0
<1>0. PICK Z : Z = {}
  OBVIOUS
<1>1. Summable(g, Z)
  BY <1>0, FS_EmptySet DEF Summable
<1>2. PICK F \in [SUBSET Z -> Int] : SumsUp(g, F, SUBSET Z) /\ Total(g) = F[Z]
  BY ONLY <1>1, TotalIsSum
<1>. QED
  BY <1>0, <1>2 DEF SumsUp

LEMMA TotalIsInteger ==
  ASSUME NEW S, IsFiniteSet(S), NEW g \in [S -> Int]
  PROVE  Total(g) \in Int
<1>. Summable(g, S)
  BY DEF Summable
<1>1. PICK F \in [SUBSET S -> Int] : SumsUp(g, F, SUBSET S) /\ Total(g) = F[S]
  BY TotalIsSum
<1>. QED
  BY <1>1

LEMMA TotalAdds ==
  ASSUME NEW S, IsFiniteSet(S), NEW g \in [S -> Int], NEW x \in S
  PROVE  Total(g) = g[x] + Total(Only(g, S \ {x}))
<1>. DEFINE T == S \ {x}
            h == Only(g, T)
<1>0. IsFiniteSet(T)
  BY FS_RemoveElement
<1>1. h \in [T -> Int]
  BY DEF Only
<1>6. \A c \in T : g[c] = h[c]
  BY DEF Only
<1>7. Summable(g, S) /\ Summable(h, T)
  BY <1>0, <1>1 DEF Summable
<1>2. PICK F \in [SUBSET S -> Int] : SumsUp(g, F, SUBSET S) /\ Total(g) = F[S]
  BY <1>7, TotalIsSum
<1>. HIDE DEF h, T
<1>3. PICK G \in [SUBSET T -> Int] : SumsUp(h, G, SUBSET T) /\ Total(h) = G[T]
  BY ONLY <1>7, TotalIsSum
<1>4. F[S] = g[x] + F[T]
  <2>1. SumsUp(g, F, SUBSET S)
    BY <1>2
  <2>. QED
    BY <2>1, AnyOrder DEF T
<1>5. F[T] = G[T]
  <2>1. T \subseteq S
    BY DEF T
  <2>2. SumsUp(g, F, SUBSET S) /\ SumsUp(h, G, SUBSET T)
    BY <1>2, <1>3
  <2>3. IsFiniteSet(T) /\ \A c \in T : g[c] = h[c]
    BY <1>0, <1>6
  <2>4. SameSums(S, T, g, h, F, G)
    BY <2>1, <2>2, <2>3 DEF SameSums
  <2>. QED
    BY <2>4, SumsAgree
<1>. QED
  BY <1>2, <1>3, <1>4, <1>5 DEF h, T

\* Subtotals of natural numbers: no more than the total.
LEMMA TotalGrows ==
  ASSUME NEW S, IsFiniteSet(S), NEW g \in [S -> Nat]
  PROVE  /\ Total(g) \in Nat
         /\ \A C \in SUBSET S : Total(Only(g, C)) <= Total(g)
<1>. DEFINE Fine(s) == /\ Total(Only(g, s)) \in Nat
                       /\ \A C \in SUBSET s : Total(Only(g, C)) <= Total(Only(g, s))
            Bad == {s \in SUBSET S : ~Fine(s)}
<1>1. \A s \in SUBSET S : IsFiniteSet(s) /\ Cardinality(s) \in Nat
  BY FS_Subset, FS_CardinalityType
<1>2. \A s \in SUBSET S : Only(g, s) \in [s -> Int] /\ Total(Only(g, s)) \in Int
  BY <1>1, TotalIsInteger DEF Only
<1>3. Bad = {}
  <2>1. SUFFICES ASSUME Bad # {} PROVE FALSE
    OBVIOUS
  <2>2. PICK n \in {Cardinality(s) : s \in Bad} : \A m \in {Cardinality(s) : s \in Bad} : n <= m
    <3>1. {Cardinality(s) : s \in Bad} \subseteq Nat /\ {Cardinality(s) : s \in Bad} # {}
      BY <1>1, <2>1
    <3>. QED
      BY <3>1, LeastNatural
  <2>3. PICK s \in Bad : \A t \in Bad : Cardinality(s) <= Cardinality(t)
    BY <2>2
  <2>4. s \in SUBSET S /\ ~Fine(s)
    BY <2>3
  <2>5. CASE s = {}
    <3>1. Total(Only(g, {})) = 0
      BY TotalOfNone DEF Only
    <3>. QED
      BY <2>4, <2>5, <3>1
  <2>6. ASSUME NEW x \in s
        PROVE  Fine(s \ {x}) /\ Total(Only(g, s)) = g[x] + Total(Only(g, s \ {x})) /\ g[x] \in Nat
    <3>1. Cardinality(s \ {x}) < Cardinality(s)
      BY <1>1, <2>4, FS_RemoveElement
    <3>2. s \ {x} \in SUBSET S
      BY <2>4
    <3>3. Only(Only(g, s), s \ {x}) = Only(g, s \ {x}) /\ Only(g, s)[x] = g[x]
      BY DEF Only
    <3>4. Total(Only(g, s)) = g[x] + Total(Only(g, s \ {x}))
      <4>1. Only(g, s) \in [s -> Int] /\ IsFiniteSet(s)
        BY <1>1, <1>2, <2>4
      <4>2. Total(Only(g, s)) = Only(g, s)[x] + Total(Only(Only(g, s), s \ {x}))
        BY <4>1, TotalAdds
      <4>. QED
        BY <3>3, <4>2
    <3>. HIDE DEF Fine
    <3>5. Fine(s \ {x})
      BY <1>1, <2>3, <3>1, <3>2
    <3>. QED
      BY <2>4, <3>4, <3>5
  <2>7. CASE s # {}
    <3>1. PICK y \in s : TRUE
      BY <2>7
    <3>2. Total(Only(g, s)) \in Nat
      <4>1. /\ Total(Only(g, s \ {y})) \in Nat /\ g[y] \in Nat
            /\ Total(Only(g, s)) = g[y] + Total(Only(g, s \ {y}))
        BY <2>6, <3>1
      <4>. QED
        BY <4>1
    <3>3. ASSUME NEW C \in SUBSET s
          PROVE  Total(Only(g, C)) <= Total(Only(g, s))
      <4>1. CASE C = s
        BY <3>2, <4>1
      <4>2. CASE C # s
        <5>1. PICK x \in s : x \notin C
          BY <4>2
        <5>2. C \in SUBSET (s \ {x})
          BY <5>1
        <5>3. Total(Only(g, C)) <= Total(Only(g, s \ {x}))
          BY <2>6, <5>2
        <5>4. Total(Only(g, s)) = g[x] + Total(Only(g, s \ {x})) /\ g[x] \in Nat
          BY <2>6
        <5>5. Total(Only(g, C)) \in Int /\ Total(Only(g, s \ {x})) \in Int
          BY <1>2, <2>4
        <5>. QED
          BY <5>3, <5>4, <5>5
      <4>. QED
        BY <4>1, <4>2
    <3>. QED
      BY <2>4, <3>2, <3>3
  <2>. QED
    BY <2>5, <2>7
<1>4. Fine(S)
  BY <1>3
<1>5. Only(g, S) = g
  BY DEF Only
<1>. QED
  BY <1>4, <1>5

LEMMA IntervalSize ==
  ASSUME NEW a \in Int, NEW b \in Int, a <= b + 1
  PROVE  IsFiniteSet(a .. b) /\ Cardinality(a .. b) = b - a + 1
<1>1. IsFiniteSet(a .. b) /\ Cardinality(a .. b) = IF a > b THEN 0 ELSE b - a + 1
  BY FS_Interval
<1>. QED
  BY <1>1

LEMMA DisjointUnionSize ==
  ASSUME NEW S, IsFiniteSet(S), NEW T, IsFiniteSet(T), S \cap T = {}
  PROVE  /\ IsFiniteSet(S \cup T)
         /\ Cardinality(S \cup T) = Cardinality(S) + Cardinality(T)
<1>1. Cardinality(S) \in Nat /\ Cardinality(T) \in Nat
  BY FS_CardinalityType
<1>2. /\ IsFiniteSet(S \cup T)
      /\ Cardinality(S \cup T) = Cardinality(S) + Cardinality(T) - Cardinality(S \cap T)
  BY FS_Union
<1>3. Cardinality(S \cap T) = 0
  BY FS_EmptySet
<1>. QED
  BY <1>1, <1>2, <1>3

\* Sizes of disjoint sets.
LEMMA TotalCounts ==
  ASSUME NEW S, IsFiniteSet(S), NEW I, \A c \in S : IsFiniteSet(I[c]),
         \A c, d \in S : c # d => I[c] \cap I[d] = {}
  PROVE  /\ IsFiniteSet(UNION {I[c] : c \in S})
         /\ Total([c \in S |-> Cardinality(I[c])]) = Cardinality(UNION {I[c] : c \in S})
<1>. DEFINE Size(s) == [c \in s |-> Cardinality(I[c])]
            All(s) == UNION {I[c] : c \in s}
            Fine(s) == IsFiniteSet(All(s)) /\ Total(Size(s)) = Cardinality(All(s))
            Bad == {s \in SUBSET S : ~Fine(s)}
<1>1. \A s \in SUBSET S : IsFiniteSet(s) /\ Cardinality(s) \in Nat
  BY FS_Subset, FS_CardinalityType
<1>2. \A c \in S : Cardinality(I[c]) \in Nat
  BY FS_CardinalityType
<1>3. Bad = {}
  <2>1. SUFFICES ASSUME Bad # {} PROVE FALSE
    OBVIOUS
  <2>2. PICK n \in {Cardinality(s) : s \in Bad} : \A m \in {Cardinality(s) : s \in Bad} : n <= m
    <3>1. {Cardinality(s) : s \in Bad} \subseteq Nat /\ {Cardinality(s) : s \in Bad} # {}
      BY <1>1, <2>1
    <3>. QED
      BY <3>1, LeastNatural
  <2>3. PICK s \in Bad : \A t \in Bad : Cardinality(s) <= Cardinality(t)
    BY <2>2
  <2>4. s \in SUBSET S /\ ~Fine(s)
    BY <2>3
  <2>5. CASE s = {}
    <3>1. All({}) = {}
      OBVIOUS
    <3>2. Total(Size({})) = 0
      BY TotalOfNone
    <3>3. Fine({})
      BY <3>1, <3>2, FS_EmptySet
    <3>. QED
      BY <2>4, <2>5, <3>3
  <2>6. CASE s # {}
    <3>1. PICK x \in s : TRUE
      BY <2>6
    <3>. DEFINE t == s \ {x}
    <3>2. Cardinality(t) < Cardinality(s)
      <4>1. Cardinality(s \ {x}) = Cardinality(s) - 1 /\ Cardinality(s) \in Nat
        BY <1>1, <2>4, <3>1, FS_RemoveElement
      <4>. QED
        BY <4>1
    <3>3. t \in SUBSET S
      BY <2>4
    <3>. HIDE DEF Fine
    <3>4. Fine(t)
      BY <1>1, <2>3, <3>2, <3>3
    <3>5. Total(Size(s)) = Cardinality(I[x]) + Total(Size(t))
      <4>1. Size(s) \in [s -> Int] /\ IsFiniteSet(s)
        BY <1>1, <1>2, <2>4
      <4>2. Size(s)[x] = Cardinality(I[x]) /\ Only(Size(s), t) = Size(t)
        BY DEF Only
      <4>. HIDE DEF Size
      <4>3. Total(Size(s)) = Size(s)[x] + Total(Only(Size(s), s \ {x}))
        BY <4>1, TotalAdds
      <4>. QED
        BY <4>2, <4>3
    <3>6. All(s) = I[x] \cup All(t) /\ I[x] \cap All(t) = {}
      BY <2>4
    <3>7. IsFiniteSet(I[x]) /\ IsFiniteSet(All(t))
      BY <2>4, <3>4 DEF Fine
    <3>. HIDE DEF All
    <3>8. /\ IsFiniteSet(All(s))
          /\ Cardinality(All(s)) = Cardinality(I[x]) + Cardinality(All(t))
      <4>. DEFINE A == I[x]
                  B == All(t)
      <4>1. IsFiniteSet(A) /\ IsFiniteSet(B) /\ A \cap B = {}
        BY <3>6, <3>7
      <4>. HIDE DEF A, B
      <4>2. IsFiniteSet(A \cup B) /\ Cardinality(A \cup B) = Cardinality(A) + Cardinality(B)
        BY <4>1, DisjointUnionSize
      <4>3. All(s) = A \cup B
        BY <3>6 DEF A, B
      <4>. QED
        BY <4>2, <4>3 DEF A, B
    <3>9. Cardinality(All(t)) \in Nat /\ Cardinality(I[x]) \in Nat
      BY <3>7, FS_CardinalityType
    <3>. HIDE DEF Size
    <3>10. Fine(s)
      BY <3>4, <3>5, <3>8, <3>9 DEF Fine
    <3>. QED
      BY <2>4, <3>10
  <2>. QED
    BY <2>5, <2>6
<1>. HIDE DEF Fine
<1>4. Fine(S)
  BY <1>3
<1>. QED
  BY <1>4 DEF Fine

-----------------------------------------------------------------------------
(***************************************************************************)
(* The chunks of a campaign for one chunk size share no iteration, so that *)
(* the lengths of some of them add up to the number of iterations they     *)
(* cover.                                                                  *)
(***************************************************************************)
IterationsOf(c) == {c[2]} \X (c[3] .. c[3] + c[4] - 1)

IterationsOfRun(r) == (1 .. config[r].seeds) \X (0 .. config[r].iters - 1)

Of(C, r) == {c \in C : c[1] = r}

LEMMA RunType ==
  ASSUME config \in Configs, NEW r \in RunIds
  PROVE  r \in Nat /\ config[r].seeds \in Nat /\ config[r].iters \in Nat
         /\ config[r].budget \in Nat \cup {Unset}
<1>1. config[r] \in RunsOfCampaigns /\ r \in Nat
  BY CampaignAssumption DEF RunIds
<1>. QED
  BY <1>1 DEF RunsOfCampaigns

\* A chunk of a run: where it starts and ends.
LEMMA ChunkShape ==
  ASSUME config \in Configs, NEW every \in Nat, NEW c \in ChunksOf(every)
  PROVE  /\ c[1] \in RunIds
         /\ c[2] \in 1 .. config[c[1]].seeds
         /\ \E k \in Nat : /\ c[3] = k * every /\ c[3] \in Nat /\ c[3] < config[c[1]].iters
                           /\ c[4] = Least(every, config[c[1]].iters - c[3])
                           /\ c[4] \in Nat /\ c[4] <= every /\ c[3] + c[4] <= config[c[1]].iters
<1>1. PICK r \in RunIds :
        \E s \in 1 .. config[r].seeds,
           k \in {i \in 0 .. config[r].iters : i * every < config[r].iters} :
             c = <<r, s, k * every, Least(every, config[r].iters - k * every)>>
  BY DEF ChunksOf
<1>2. config[r].seeds \in Nat /\ config[r].iters \in Nat
  BY RunType
<1>3. PICK s \in 1 .. config[r].seeds,
           k \in {i \in 0 .. config[r].iters : i * every < config[r].iters} :
             c = <<r, s, k * every, Least(every, config[r].iters - k * every)>>
  BY <1>1
<1>4. k \in Nat /\ k * every \in Nat /\ k * every < config[r].iters
  BY <1>2
<1>5. /\ Least(every, config[r].iters - k * every) \in Nat
      /\ Least(every, config[r].iters - k * every) <= every
      /\ k * every + Least(every, config[r].iters - k * every) <= config[r].iters
  BY <1>2, <1>4 DEF Least
<1>. QED
  BY <1>3, <1>4, <1>5

LEMMA ChunksDisjoint ==
  ASSUME config \in Configs, NEW every \in Nat,
         NEW c \in ChunksOf(every), NEW d \in ChunksOf(every), c # d, c[1] = d[1]
  PROVE  IterationsOf(c) \cap IterationsOf(d) = {}
<1>1. PICK k \in Nat : /\ c[3] = k * every /\ c[3] \in Nat /\ c[3] < config[c[1]].iters
                       /\ c[4] = Least(every, config[c[1]].iters - c[3])
                       /\ c[4] \in Nat /\ c[4] <= every /\ c[3] + c[4] <= config[c[1]].iters
  BY ChunkShape
<1>2. PICK l \in Nat : /\ d[3] = l * every /\ d[3] \in Nat /\ d[3] < config[d[1]].iters
                       /\ d[4] = Least(every, config[d[1]].iters - d[3])
                       /\ d[4] \in Nat /\ d[4] <= every /\ d[3] + d[4] <= config[d[1]].iters
  BY ChunkShape
<1>3. c[2] # d[2] \/ c[3] # d[3]
  BY ChunksAreTuples
<1>4. \A i, j \in Nat : i < j => i * every + every <= j * every
  <2>1. SUFFICES ASSUME NEW i \in Nat, NEW j \in Nat, i < j
                 PROVE  i * every + every <= j * every
    OBVIOUS
  <2>2. j - i - 1 \in Nat /\ j = i + 1 + (j - i - 1)
    BY <2>1
  <2>3. j * every = i * every + every + (j - i - 1) * every /\ (j - i - 1) * every \in Nat
    BY <2>2
  <2>. QED
    BY <2>3
<1>5. c[3] # d[3] => c[3] + c[4] <= d[3] \/ d[3] + d[4] <= c[3]
  <2>1. k < l \/ l < k \/ k = l
    OBVIOUS
  <2>2. k < l => k * every + every <= l * every
    BY <1>4
  <2>3. l < k => l * every + every <= k * every
    BY <1>4
  <2>. QED
    BY <1>1, <1>2, <2>1, <2>2, <2>3
<1>. QED
  BY <1>1, <1>2, <1>3, <1>5 DEF IterationsOf

LEMMA IterationsCounted ==
  ASSUME config \in Configs, NEW every \in Nat, NEW c \in ChunksOf(every)
  PROVE  /\ IsFiniteSet(IterationsOf(c)) /\ Cardinality(IterationsOf(c)) = c[4]
         /\ IterationsOf(c) \subseteq IterationsOfRun(c[1])
<1>1. c[2] \in 1 .. config[c[1]].seeds /\ c[3] \in Nat /\ c[4] \in Nat
      /\ c[3] + c[4] <= config[c[1]].iters
  BY ChunkShape
<1>2. config[c[1]].seeds \in Nat /\ config[c[1]].iters \in Nat
  BY ChunkShape, RunType
<1>. DEFINE J == c[3] .. c[3] + c[4] - 1
<1>3. IsFiniteSet(J) /\ Cardinality(J) = c[4]
  <2>. DEFINE a == c[3]
              b == c[3] + c[4] - 1
  <2>1. a \in Int /\ b \in Int /\ a <= b + 1 /\ b - a + 1 = c[4]
    BY <1>1
  <2>. HIDE DEF a, b
  <2>2. IsFiniteSet(a .. b) /\ Cardinality(a .. b) = b - a + 1
    BY <2>1, IntervalSize
  <2>. QED
    BY <2>1, <2>2 DEF a, b
<1>4. IsFiniteSet({c[2]}) /\ Cardinality({c[2]}) = 1
  BY FS_Singleton
<1>5. IsFiniteSet({c[2]} \X J) /\ Cardinality({c[2]} \X J) = 1 * Cardinality(J)
  BY <1>3, <1>4, FS_Product
<1>6. IterationsOf(c) = {c[2]} \X J
  BY DEF IterationsOf
<1>7. J \subseteq 0 .. config[c[1]].iters - 1
  BY <1>1, <1>2
<1>8. {c[2]} \X J \subseteq IterationsOfRun(c[1])
  BY <1>1, <1>7 DEF IterationsOfRun
<1>. HIDE DEF J
<1>. QED
  BY <1>1, <1>3, <1>5, <1>6, <1>8

LEMMA RunCounted ==
  ASSUME config \in Configs, NEW r \in RunIds
  PROVE  /\ IsFiniteSet(IterationsOfRun(r))
         /\ Cardinality(IterationsOfRun(r)) = config[r].seeds * config[r].iters
<1>1. config[r].seeds \in Nat /\ config[r].iters \in Nat
  BY RunType
<1>. DEFINE A == 1 .. config[r].seeds
            B == 0 .. config[r].iters - 1
<1>2. IsFiniteSet(A) /\ Cardinality(A) = config[r].seeds
  <2>. DEFINE a == 1
              b == config[r].seeds
  <2>1. a \in Int /\ b \in Int /\ a <= b + 1 /\ b - a + 1 = config[r].seeds
    BY <1>1
  <2>. HIDE DEF a, b
  <2>2. IsFiniteSet(a .. b) /\ Cardinality(a .. b) = b - a + 1
    BY <2>1, IntervalSize
  <2>. QED
    BY <2>1, <2>2 DEF a, b
<1>3. IsFiniteSet(B) /\ Cardinality(B) = config[r].iters
  <2>. DEFINE a == 0
              b == config[r].iters - 1
  <2>1. a \in Int /\ b \in Int /\ a <= b + 1 /\ b - a + 1 = config[r].iters
    BY <1>1
  <2>. HIDE DEF a, b
  <2>2. IsFiniteSet(a .. b) /\ Cardinality(a .. b) = b - a + 1
    BY <2>1, IntervalSize
  <2>. QED
    BY <2>1, <2>2 DEF a, b
<1>4. IterationsOfRun(r) = A \X B
  BY DEF IterationsOfRun
<1>. HIDE DEF A, B
<1>5. IsFiniteSet(A \X B) /\ Cardinality(A \X B) = Cardinality(A) * Cardinality(B)
  BY <1>2, <1>3, FS_Product
<1>. QED
  BY <1>2, <1>3, <1>4, <1>5

LEMMA LengthsAddUp ==
  ASSUME config \in Configs, NEW every \in Nat, NEW r \in RunIds,
         NEW C, C \subseteq ChunksOf(every), IsFiniteSet(C)
  PROVE  /\ Total([c \in Of(C, r) |-> c[4]]) \in Nat
         /\ Total([c \in Of(C, r) |-> c[4]]) <= config[r].seeds * config[r].iters
         /\ every > 0 /\ C = ChunksOf(every) =>
              Total([c \in Of(C, r) |-> c[4]]) = config[r].seeds * config[r].iters
<1>. DEFINE S == Of(C, r)
            I == [c \in S |-> IterationsOf(c)]
            All == UNION {I[c] : c \in S}
<1>1. S \subseteq C /\ IsFiniteSet(S) /\ \A c \in S : c \in ChunksOf(every) /\ c[1] = r
  <2>1. S \in SUBSET C
    BY DEF Of
  <2>. QED
    BY <2>1, FS_Subset DEF Of
<1>2. \A c \in S : /\ IsFiniteSet(I[c]) /\ Cardinality(I[c]) = c[4]
                   /\ I[c] \subseteq IterationsOfRun(r)
  BY <1>1, IterationsCounted
<1>3. \A c, d \in S : c # d => I[c] \cap I[d] = {}
  BY <1>1, ChunksDisjoint
<1>4. [c \in S |-> c[4]] = [c \in S |-> Cardinality(I[c])]
  BY <1>2
<1>. HIDE DEF S, I
<1>5. IsFiniteSet(All) /\ Total([c \in S |-> c[4]]) = Cardinality(All)
  <2>1. IsFiniteSet(S)
    BY <1>1
  <2>2. \A c \in S : IsFiniteSet(I[c])
    BY <1>2
  <2>3. /\ IsFiniteSet(UNION {I[c] : c \in S})
        /\ Total([c \in S |-> Cardinality(I[c])]) = Cardinality(UNION {I[c] : c \in S})
    BY <1>3, <2>1, <2>2, TotalCounts, Zenon
  <2>. QED
    BY <1>4, <2>3
<1>6. All \in SUBSET IterationsOfRun(r)
  BY <1>2
<1>. HIDE DEF All
<1>7. /\ Cardinality(All) \in Nat /\ Cardinality(All) <= Cardinality(IterationsOfRun(r))
  BY <1>5, <1>6, RunCounted, FS_Subset, FS_CardinalityType
<1>8. ASSUME every > 0, C = ChunksOf(every)
      PROVE  All = IterationsOfRun(r)
  <2>1. SUFFICES ASSUME NEW s \in 1 .. config[r].seeds, NEW k \in 0 .. config[r].iters - 1
                 PROVE  <<s, k>> \in All
    BY <1>6 DEF IterationsOfRun
  <2>2. PICK c \in ChunksOf(every) : c[1] = r /\ c[2] = s /\ k \in c[3] .. c[3] + c[4] - 1
    BY <1>8, ChunksCover
  <2>3. c \in S /\ <<s, k>> \in I[c]
    BY <1>8, <2>2 DEF S, I, Of, IterationsOf
  <2>. QED
    BY <2>3 DEF All
<1>. QED
  BY <1>5, <1>7, <1>8, RunCounted DEF S

-----------------------------------------------------------------------------
(***************************************************************************)
(* The inductive invariant.  All chunks of the directory are of the size   *)
(* the manifest names, which is the session's once it has written the      *)
(* manifest; what the session has merged is what the chunks of the         *)
(* directory add up to, but for the chunk it has just committed; and no    *)
(* statistics file has more iterations than the run.                       *)
(***************************************************************************)
InSession == pc \in {"merge", "loop", "commit", "account"}

OnGrid ==
  /\ chk # {} => manifest # <<>>
  /\ manifest # <<>> => chk \subseteq ChunksOf(manifest[1].every)
  /\ pc = "manifest" /\ manifest # <<>> => manifest[1] = ManifestOf(opts)
  /\ InSession => manifest # <<>> /\ manifest[1] = ManifestOf(opts)

Subtotal(v, C, r) == Total([c \in Of(C, r) |-> v[c]])
Lengths(C) == [c \in C |-> c[4]]

Sums(R, C, su) ==
  [r \in R |-> [iterations |-> Subtotal(Lengths(C), C, r), compared |-> Subtotal(su, C, r)]]

Newest == existing[Len(existing)]

Accounted ==
  /\ \A c \in DOMAIN summary : summary[c] \in Nat
  /\ pc = "commit" => Pending # {}
  /\ pc = "account" => existing # <<>>
  /\ pc \in {"loop", "commit"} => agg = Sums(RunIds, chk, summary)
  /\ pc = "account" => agg = Sums(RunIds, chk \ {Newest}, summary)

StatsFit ==
  /\ stats \in [RunIds -> Nat]
  /\ \A r \in RunIds : stats[r] <= config[r].seeds * config[r].iters

AllCounted ==
  report.reason = "completed" =>
    \A r \in RunIds : report.iterations[r] = config[r].seeds * config[r].iters

\* The budget BudgetKept speaks of, and the runs that have one.
BudgetOf(r) ==
  IF config[r].budget = Unset /\ r = 1 /\ manifest # <<>> THEN manifest[1].budget
  ELSE config[r].budget
Limited(r) == ~config[r].cap /\ BudgetOf(r) \notin {Unset, Unlimited}

Readable == {c \in chk : ChkFile(c) \notin torn}

NextFits ==
  pc = "commit" /\ Limited(NextChunk[1]) =>
    agg[NextChunk[1]].compared + summary[NextChunk] <= BudgetOf(NextChunk[1])

CampaignInv ==
  SoundInv /\ OnGrid /\ Accounted /\ StatsFit /\ AllCounted /\ BudgetKept /\ NextFits

-----------------------------------------------------------------------------
(***************************************************************************)
(* The sums over the chunks of the directory.                              *)
(***************************************************************************)
LEMMA SubtotalsAlike ==
  ASSUME NEW C, NEW f, NEW g, \A c \in C : f[c] = g[c], NEW r
  PROVE  Subtotal(f, C, r) = Subtotal(g, C, r)
<1>1. [c \in Of(C, r) |-> f[c]] = [c \in Of(C, r) |-> g[c]]
  BY DEF Of
<1>. QED
  BY <1>1 DEF Subtotal

LEMMA SumsAlike ==
  ASSUME NEW R, NEW C, NEW f, NEW g, \A c \in C : f[c] = g[c]
  PROVE  Sums(R, C, f) = Sums(R, C, g)
<1>1. \A r \in R : Subtotal(f, C, r) = Subtotal(g, C, r)
  BY SubtotalsAlike
<1>. QED
  BY <1>1 DEF Sums

LEMMA SubtotalType ==
  ASSUME NEW C, IsFiniteSet(C), NEW v, \A c \in C : v[c] \in Nat, NEW r
  PROVE  Subtotal(v, C, r) \in Nat
<1>1. IsFiniteSet(Of(C, r))
  <2>1. Of(C, r) \in SUBSET C
    BY DEF Of
  <2>. QED
    BY <2>1, FS_Subset
<1>2. [c \in Of(C, r) |-> v[c]] \in [Of(C, r) -> Nat]
  BY DEF Of
<1>. QED
  BY <1>1, <1>2, TotalGrows DEF Subtotal

LEMMA SumsType ==
  ASSUME config \in Configs, NEW every \in Nat, NEW C, C \subseteq ChunksOf(every),
         IsFiniteSet(C), NEW su, \A c \in C : su[c] \in Nat, NEW r \in RunIds
  PROVE  /\ Sums(RunIds, C, su)[r].iterations \in Nat
         /\ Sums(RunIds, C, su)[r].iterations <= config[r].seeds * config[r].iters
         /\ every > 0 /\ C = ChunksOf(every) =>
              Sums(RunIds, C, su)[r].iterations = config[r].seeds * config[r].iters
         /\ Sums(RunIds, C, su)[r].compared \in Nat
<1>1. /\ Total([c \in Of(C, r) |-> c[4]]) \in Nat
      /\ Total([c \in Of(C, r) |-> c[4]]) <= config[r].seeds * config[r].iters
      /\ every > 0 /\ C = ChunksOf(every) =>
           Total([c \in Of(C, r) |-> c[4]]) = config[r].seeds * config[r].iters
  BY LengthsAddUp
<1>2. [c \in Of(C, r) |-> Lengths(C)[c]] = [c \in Of(C, r) |-> c[4]]
  BY DEF Of, Lengths
<1>3. Sums(RunIds, C, su)[r].iterations = Total([c \in Of(C, r) |-> c[4]])
  BY <1>2 DEF Sums, Subtotal
<1>4. Sums(RunIds, C, su)[r].compared \in Nat
  BY SubtotalType DEF Sums
<1>. QED
  BY <1>1, <1>3, <1>4

\* One chunk more.
LEMMA SubtotalPlusOne ==
  ASSUME NEW C, IsFiniteSet(C), NEW x \in C, NEW v, \A c \in C : v[c] \in Int, NEW r
  PROVE  /\ Subtotal(v, C \ {x}, r) \in Int
         /\ Subtotal(v, C, r) = IF r = x[1] THEN v[x] + Subtotal(v, C \ {x}, r)
                                ELSE Subtotal(v, C \ {x}, r)
<1>. DEFINE D == Of(C, r)
            E == Of(C \ {x}, r)
            w == [c \in D |-> v[c]]
<1>1. IsFiniteSet(D) /\ IsFiniteSet(E)
  <2>1. D \in SUBSET C /\ E \in SUBSET C
    BY DEF Of
  <2>. HIDE DEF D, E
  <2>. QED
    BY <2>1, FS_Subset
<1>2. w \in [D -> Int] /\ [c \in E |-> v[c]] \in [E -> Int]
  BY DEF Of
<1>3. Total([c \in E |-> v[c]]) \in Int
  <2>. HIDE DEF E
  <2>. QED
    BY <1>1, <1>2, TotalIsInteger
<1>4. CASE r = x[1]
  <2>1. x \in D /\ E = D \ {x} /\ w[x] = v[x]
    BY <1>4 DEF Of
  <2>2. Only(w, D \ {x}) = [c \in E |-> v[c]]
    BY <2>1 DEF Only
  <2>. HIDE DEF D, E, w
  <2>3. Total(w) = w[x] + Total(Only(w, D \ {x}))
    BY <1>1, <1>2, <2>1, TotalAdds
  <2>. QED
    BY <1>3, <1>4, <2>1, <2>2, <2>3 DEF D, E, w, Subtotal
<1>5. CASE r # x[1]
  <2>1. D = E
    BY <1>5 DEF Of
  <2>. QED
    BY <1>3, <1>5, <2>1 DEF Subtotal
<1>. QED
  BY <1>4, <1>5

LEMMA SumsPlusOne ==
  ASSUME NEW R, NEW C, IsFiniteSet(C), NEW x \in C, x[1] \in R,
         NEW su, \A c \in C : su[c] \in Int /\ c[4] \in Int
  PROVE  [Sums(R, C \ {x}, su) EXCEPT
            ![x[1]] = [iterations |-> @.iterations + x[4], compared |-> @.compared + su[x]]]
         = Sums(R, C, su)
<1>. DEFINE B == C \ {x}
            Old == Sums(R, B, su)
            New == Sums(R, C, su)
<1>1. ASSUME NEW r
      PROVE  /\ Subtotal(Lengths(B), B, r) \in Int
             /\ Subtotal(Lengths(C), C, r) =
                  IF r = x[1] THEN x[4] + Subtotal(Lengths(B), B, r) ELSE Subtotal(Lengths(B), B, r)
  <2>1. (\A c \in C : Lengths(C)[c] \in Int) /\ Lengths(C)[x] = x[4]
    BY DEF Lengths
  <2>2. \A c \in B : Lengths(C)[c] = Lengths(B)[c]
    BY DEF Lengths
  <2>3. Subtotal(Lengths(C), B, r) = Subtotal(Lengths(B), B, r)
    BY <2>2, SubtotalsAlike
  <2>. QED
    BY <2>1, <2>3, SubtotalPlusOne
<1>2. ASSUME NEW r
      PROVE  /\ Subtotal(su, B, r) \in Int
             /\ Subtotal(su, C, r) = IF r = x[1] THEN su[x] + Subtotal(su, B, r) ELSE Subtotal(su, B, r)
  <2>1. \A c \in C : su[c] \in Int
    OBVIOUS
  <2>. QED
    BY <2>1, SubtotalPlusOne
<1>. HIDE DEF B
<1>3. ASSUME NEW r \in R
      PROVE  New[r] = IF r = x[1] THEN [iterations |-> Old[r].iterations + x[4],
                                        compared |-> Old[r].compared + su[x]]
                      ELSE Old[r]
  <2>. DEFINE n == Subtotal(Lengths(C), C, r)
              m == Subtotal(Lengths(B), B, r)
              q == Subtotal(su, C, r)
              p == Subtotal(su, B, r)
  <2>1. x[4] \in Int /\ su[x] \in Int
    OBVIOUS
  <2>2. m \in Int /\ n = IF r = x[1] THEN x[4] + m ELSE m
    BY <1>1
  <2>3. p \in Int /\ q = IF r = x[1] THEN su[x] + p ELSE p
    BY <1>2
  <2>4. Old[r] = [iterations |-> m, compared |-> p] /\ New[r] = [iterations |-> n, compared |-> q]
    BY DEF Sums
  <2>. HIDE DEF n, m, p, q, Old, New
  <2>. QED
    BY <2>1, <2>2, <2>3, <2>4
<1>4. /\ Old = [r \in R |-> Old[r]] /\ New = [r \in R |-> New[r]]
  BY DEF Sums
<1>. HIDE DEF Old, New
<1>5. [Old EXCEPT ![x[1]] = [iterations |-> @.iterations + x[4], compared |-> @.compared + su[x]]] = New
  BY <1>3, <1>4
<1>. QED
  BY <1>5 DEF Old, New, B

-----------------------------------------------------------------------------
\* What is known of the directory while the session is past its manifest.
LEMMA InTheSession ==
  ASSUME CampaignInv, InSession
  PROVE  /\ config \in Configs /\ opts.every \in Nat /\ opts.every > 0
         /\ IsFiniteSet(chk) /\ chk \subseteq ChunksOf(opts.every)
         /\ ElementsOf(existing) = chk /\ existing \in Seq(chk)
         /\ \A c \in chk : c \in DOMAIN summary /\ summary[c] \in Nat
         /\ Readable = chk
<1>1. config \in Configs /\ opts.every \in Nat /\ opts.every > 0
  BY DEF CampaignInv, SoundInv, HonestInv, SettingsOK, Settings, InSession
<1>2. /\ IsFiniteSet(chk) /\ ElementsOf(existing) = chk /\ existing \in Seq(chk)
      /\ \A c \in chk : ChkFile(c) \notin torn
  BY DEF CampaignInv, SoundInv, HonestInv, Known, Loaded, InSession
<1>3. \A c \in chk : c \in DOMAIN summary /\ summary[c] \in Nat
  BY <1>2 DEF CampaignInv, SoundInv, HonestInv, DirectoryHonest, Accounted
<1>4. chk \subseteq ChunksOf(opts.every)
  BY DEF CampaignInv, OnGrid, ManifestOf
<1>5. Readable = chk
  BY <1>2 DEF Readable
<1>. QED
  BY <1>1, <1>2, <1>3, <1>4, <1>5

\* The chunk the session works on.
LEMMA TheNextChunk ==
  ASSUME CampaignInv, pc \in {"loop", "commit"}, Pending # {}
  PROVE  NextChunk \notin chk /\ NextChunk \in ChunksOf(opts.every)
<1>1. Loaded /\ InSession
  BY DEF Loaded, InSession
<1>2. NextChunk \notin chk
  BY <1>1, NextIsNew DEF CampaignInv, SoundInv
<1>3. NextChunk \in Pending
  BY <1>1, NextIsPending, InTheSession
<1>. QED
  BY <1>2, <1>3 DEF Pending

LEMMA CampaignInit == StagedInit => CampaignInv
<1>. SUFFICES ASSUME StagedInit PROVE CampaignInv
  OBVIOUS
<1>1. SoundInv
  BY HonestInit DEF SoundInv, StagedInit, Init, NoReason
<1>2. OnGrid /\ Accounted /\ AllCounted /\ NextFits
  BY DEF StagedInit, Init, OnGrid, InSession, Accounted, AllCounted, NextFits, NoReason
<1>3. StatsFit
  <2>1. \A r \in RunIds : config[r].seeds \in Nat /\ config[r].iters \in Nat
    BY RunType DEF StagedInit, Init
  <2>2. \A a, b \in Nat : 0 <= a * b
    OBVIOUS
  <2>. QED
    BY <2>1, <2>2 DEF StagedInit, Init, StatsFit
<1>4. BudgetKept
  <2>1. ASSUME NEW r \in RunIds
        PROVE  Total([c \in {d \in chk : d[1] = r /\ ChkFile(d) \notin torn} |-> summary[c]]) = 0
    <3>1. {d \in chk : d[1] = r /\ ChkFile(d) \notin torn} = {}
      BY DEF StagedInit, Init
    <3>. QED
      BY <3>1, TotalOfNone
  <2>2. manifest = <<>> /\ \A r \in RunIds : config[r].budget \in Nat \cup {Unset}
    BY RunType DEF StagedInit, Init
  <2>3. Unset \notin Nat
    BY DEF Unset
  <2>. QED
    BY <2>1, <2>2, <2>3 DEF BudgetKept
<1>. QED
  BY <1>1, <1>2, <1>3, <1>4 DEF CampaignInv

-----------------------------------------------------------------------------
(***************************************************************************)
(* BudgetKept speaks of the chunks that can be read.                       *)
(***************************************************************************)
LEMMA BudgetForm ==
  BudgetKept <=> \A r \in RunIds : Limited(r) => Subtotal(summary, Readable, r) <= BudgetOf(r)
<1>1. ASSUME NEW r
      PROVE  {d \in chk : d[1] = r /\ ChkFile(d) \notin torn} = Of(Readable, r)
  BY DEF Of, Readable
<1>. QED
  BY <1>1 DEF BudgetKept, Limited, BudgetOf, Subtotal

LEMMA BudgetFormNext ==
  BudgetKept' <=>
    \A r \in RunIds' : Limited(r)' => Subtotal(summary', Readable', r) <= BudgetOf(r)'
<1>1. ASSUME NEW r
      PROVE  {d \in chk' : d[1] = r /\ ChkFile(d) \notin torn'} = Of(Readable', r)
  BY DEF Of, Readable
<1>. QED
  BY <1>1 DEF BudgetKept, Limited, BudgetOf, Subtotal

\* With no session past its checks only the files matter.
LEMMA AtRest ==
  ASSUME CampaignInv, pc' \in {"idle", "setup", "chunks"}, UNCHANGED <<config, manifest>>,
         chk' # {} => manifest # <<>>,
         manifest # <<>> => chk' \subseteq ChunksOf(manifest[1].every),
         \A c \in DOMAIN summary' : summary'[c] \in Nat,
         Readable' = Readable, \A c \in Readable : summary'[c] = summary[c]
  PROVE  OnGrid' /\ Accounted' /\ BudgetKept' /\ NextFits'
<1>1. OnGrid'
  <2>1. manifest # <<>> => ChunksOf(manifest[1].every)' = ChunksOf(manifest[1].every)
    BY DEF ChunksOf, RunIds
  <2>. QED
    BY <2>1 DEF OnGrid, InSession
<1>2. Accounted' /\ NextFits'
  BY DEF Accounted, NextFits
<1>3. BudgetKept'
  <2>1. SUFFICES ASSUME NEW r \in RunIds', Limited(r)'
                 PROVE  Subtotal(summary', Readable', r) <= BudgetOf(r)'
    BY BudgetFormNext
  <2>2. r \in RunIds /\ Limited(r) /\ BudgetOf(r)' = BudgetOf(r)
    BY <2>1 DEF RunIds, Limited, BudgetOf
  <2>3. Subtotal(summary, Readable, r) <= BudgetOf(r)
    BY <2>2, BudgetForm DEF CampaignInv
  <2>4. Subtotal(summary', Readable', r) = Subtotal(summary, Readable, r)
    BY SubtotalsAlike
  <2>. QED
    BY <2>2, <2>3, <2>4
<1>. QED
  BY <1>1, <1>2, <1>3

LEMMA QuietAtRest ==
  ASSUME CampaignInv, pc' \in {"idle", "setup", "chunks"},
         UNCHANGED <<config, manifest, chk, summary>>,
         torn' = torn \/ torn' = torn \ {Snapshot}
  PROVE  OnGrid' /\ Accounted' /\ BudgetKept' /\ NextFits'
<1>1. \A c : ChkFile(c) # Snapshot
  BY DEF ChkFile, Snapshot
<1>2. Readable' = Readable
  BY <1>1 DEF Readable
<1>. QED
  BY <1>2, AtRest DEF CampaignInv, OnGrid, Accounted

\* An empty directory.
LEMMA EmptyAtRest ==
  ASSUME CampaignInv, EmptyDirectory, pc' = "idle", UNCHANGED config
  PROVE  OnGrid' /\ Accounted' /\ BudgetKept' /\ NextFits'
<1>1. OnGrid' /\ Accounted' /\ NextFits'
  BY DEF EmptyDirectory, OnGrid, InSession, Accounted, NextFits
<1>2. BudgetKept'
  <2>1. SUFFICES ASSUME NEW r \in RunIds', Limited(r)'
                 PROVE  Subtotal(summary', Readable', r) <= BudgetOf(r)'
    BY BudgetFormNext
  <2>2. Readable' = {} /\ manifest' = <<>>
    BY DEF EmptyDirectory, Readable
  <2>3. Subtotal(summary', Readable', r) = 0
    BY <2>2, TotalOfNone DEF Subtotal, Of
  <2>4. BudgetOf(r)' \in Nat
    <3>1. config[r].budget \in Nat \cup {Unset}
      BY RunType DEF RunIds, CampaignInv, SoundInv, HonestInv, SettingsOK
    <3>. QED
      BY <2>1, <2>2, <3>1 DEF Limited, BudgetOf
  <2>. QED
    BY <2>3, <2>4
<1>. QED
  BY <1>1, <1>2

-----------------------------------------------------------------------------
(***************************************************************************)
(* The steps of the session.                                               *)
(***************************************************************************)
LEMMA LoadCampaign ==
  ASSUME CampaignInv, LoadChunks
  PROVE  OnGrid' /\ Accounted' /\ BudgetKept' /\ NextFits'
<1>1. CASE ~Loadable
  BY <1>1, QuietAtRest DEF LoadChunks, Refuses, Ends, diskVars
<1>2. CASE Loadable
  <2>1. /\ pc' = "manifest" /\ UNCHANGED <<config, manifest, chk, summary, torn, opts>>
        /\ manifest # <<>> => manifest[1] = ManifestOf(opts)
    BY <1>2 DEF LoadChunks, Goes, diskVars, Loadable
  <2>2. OnGrid'
    <3>1. manifest # <<>> => ChunksOf(manifest[1].every)' = ChunksOf(manifest[1].every)
      BY <2>1 DEF ChunksOf, RunIds
    <3>2. ManifestOf(opts)' = ManifestOf(opts)
      BY <2>1 DEF ManifestOf, BudgetFor
    <3>. QED
      BY <2>1, <3>1, <3>2 DEF CampaignInv, OnGrid, InSession
  <2>3. Accounted' /\ NextFits'
    BY <2>1 DEF CampaignInv, Accounted, NextFits
  <2>4. BudgetKept'
    BY <2>1 DEF CampaignInv, BudgetKept, RunIds
  <2>. QED
    BY <2>2, <2>3, <2>4
<1>. QED
  BY <1>1, <1>2

LEMMA ManifestCampaign ==
  ASSUME CampaignInv, WriteManifest
  PROVE  OnGrid' /\ Accounted' /\ BudgetKept' /\ NextFits'
<1>1. /\ pc = "manifest" /\ pc' = "merge" /\ manifest' = <<ManifestOf(opts)>>
      /\ torn' = torn \ {Latest} /\ UNCHANGED <<config, chk, summary, opts>>
  BY DEF WriteManifest, Goes
<1>2. manifest' # <<>> /\ manifest'[1] = ManifestOf(opts)
  BY <1>1
<1>3. manifest # <<>> => manifest[1] = manifest'[1]
  BY <1>1, <1>2 DEF CampaignInv, OnGrid
<1>4. manifest = <<>> => chk = {}
  BY DEF CampaignInv, OnGrid
<1>5. OnGrid'
  <2>3. chk' \subseteq ChunksOf(manifest'[1].every)
    BY <1>1, <1>3, <1>4 DEF CampaignInv, OnGrid
  <2>4. ManifestOf(opts)' = ManifestOf(opts)
    BY <1>1 DEF ManifestOf, BudgetFor
  <2>5. (chk \subseteq ChunksOf(manifest[1].every))' = (chk' \subseteq ChunksOf(manifest'[1].every))
    BY <1>1 DEF ChunksOf, RunIds
  <2>. QED
    BY <1>1, <1>2, <2>3, <2>4, <2>5 DEF OnGrid, InSession
<1>6. Accounted' /\ NextFits'
  BY <1>1 DEF CampaignInv, Accounted, NextFits
<1>7. BudgetKept'
  <2>1. SUFFICES ASSUME NEW r \in RunIds', Limited(r)'
                 PROVE  Subtotal(summary', Readable', r) <= BudgetOf(r)'
    BY BudgetFormNext
  <2>2. Readable' = Readable
    <3>1. \A c : ChkFile(c) # Latest
      BY DEF ChkFile, Latest
    <3>. QED
      BY <1>1, <3>1 DEF Readable
  <2>3. CASE manifest # <<>>
    <3>1. r \in RunIds /\ Limited(r) /\ BudgetOf(r)' = BudgetOf(r)
      BY <1>1, <1>2, <1>3, <2>1, <2>3 DEF RunIds, Limited, BudgetOf
    <3>. QED
      BY <1>1, <2>2, <3>1, BudgetForm DEF CampaignInv
  <2>4. CASE manifest = <<>>
    <3>1. Readable = {}
      BY <1>4, <2>4 DEF Readable
    <3>2. Subtotal(summary', Readable', r) = 0
      BY <2>2, <3>1, TotalOfNone DEF Subtotal, Of
    <3>3. manifest'[1].budget \in Nat
      BY <1>2, ManifestRecords DEF CampaignInv, SoundInv, HonestInv, InManifest
    <3>4. config[r].budget \in Nat \cup {Unset}
      BY <1>1, RunType DEF RunIds, CampaignInv, SoundInv, HonestInv, SettingsOK
    <3>5. BudgetOf(r)' \in Nat
      BY <1>1, <2>1, <3>3, <3>4 DEF Limited, BudgetOf
    <3>. QED
      BY <3>2, <3>5
  <2>. QED
    BY <2>3, <2>4
<1>. QED
  BY <1>5, <1>6, <1>7

\* What the merge of all chunks finds.
LEMMA MergedAll ==
  ASSUME CampaignInv, pc = "merge"
  PROVE  [r \in RunIds |-> MergedFrom(r)] = Sums(RunIds, chk, summary)
<1>1. ElementsOf(existing) = chk /\ \A c \in chk : c \in DOMAIN summary
  BY InTheSession DEF InSession
<1>2. ASSUME NEW r \in RunIds
      PROVE  MergedFrom(r) = [iterations |-> Subtotal(Lengths(chk), chk, r),
                              compared |-> Subtotal(summary, chk, r)]
  <2>1. Counted(r) = Of(chk, r)
    BY <1>1 DEF Counted, Of
  <2>2. [c \in Of(chk, r) |-> c[4]] = [c \in Of(chk, r) |-> Lengths(chk)[c]]
    BY DEF Of, Lengths
  <2>. QED
    BY <2>1, <2>2 DEF MergedFrom, Subtotal
<1>. QED
  BY <1>2 DEF Sums

LEMMA MergeCampaign ==
  ASSUME CampaignInv, Merge
  PROVE  OnGrid' /\ Accounted' /\ BudgetKept' /\ NextFits'
<1>1. pc = "merge" /\ UNCHANGED <<config, manifest, chk, summary, torn>>
  BY DEF Merge
<1>2. CASE EnoughChunks(existing)
  BY <1>1, <1>2, QuietAtRest DEF Merge, Ends
<1>3. CASE ~EnoughChunks(existing)
  <2>1. pc' = "loop" /\ opts' = opts /\ agg' = [r \in RunIds |-> MergedFrom(r)]
    BY <1>3 DEF Merge, Goes
  <2>2. OnGrid'
    <3>1. manifest # <<>> => ChunksOf(manifest[1].every)' = ChunksOf(manifest[1].every)
      BY <1>1 DEF ChunksOf, RunIds
    <3>2. ManifestOf(opts)' = ManifestOf(opts)
      BY <1>1, <2>1 DEF ManifestOf, BudgetFor
    <3>. QED
      BY <1>1, <2>1, <3>1, <3>2 DEF CampaignInv, OnGrid, InSession
  <2>3. agg' = Sums(RunIds, chk, summary)
    BY <1>1, <2>1, MergedAll
  <2>4. Accounted' /\ NextFits'
    BY <1>1, <2>1, <2>3 DEF CampaignInv, Accounted, NextFits, RunIds
  <2>5. BudgetKept'
    BY <1>1 DEF CampaignInv, BudgetKept, RunIds
  <2>. QED
    BY <2>2, <2>4, <2>5
<1>. QED
  BY <1>2, <1>3

\* The chunk in hand, while it is only a summary.
LEMMA SummaryCampaign ==
  ASSUME CampaignInv, pc = "loop", Pending # {},
         NEW n \in MayCompare(NextChunk), Summarised(n), UNCHANGED <<config, chk>>
  PROVE  /\ n \in Nat
         /\ \A c \in DOMAIN summary' : summary'[c] \in Nat
         /\ \A c \in chk : summary'[c] = summary[c]
         /\ summary'[NextChunk] = n
         /\ Readable' = Readable
<1>1. Loaded /\ InSession
  BY DEF Loaded, InSession
<1>2. NextChunk \notin chk
  BY TheNextChunk
<1>3. n \in Nat
  BY DEF MayCompare
<1>4. \A c : ChkFile(c) \in torn' <=> ChkFile(c) \in torn
  BY <1>1, SummaryOfNext DEF CampaignInv, SoundInv
<1>5. \A c \in chk : c \in DOMAIN summary
  BY <1>1, InTheSession
<1>6. summary' = [c \in (DOMAIN summary) \cup {NextChunk} |-> IF c = NextChunk THEN n ELSE summary[c]]
  BY DEF Summarised
<1>7. Readable' = Readable
  BY <1>4 DEF Readable
<1>. QED
  BY <1>2, <1>3, <1>5, <1>6, <1>7 DEF CampaignInv, Accounted

LEMMA FailCampaign ==
  ASSUME CampaignInv, OutOfTime \/ ChunkFails \/ Finish
  PROVE  OnGrid' /\ Accounted' /\ BudgetKept' /\ NextFits'
<1>1. CASE OutOfTime \/ Finish
  BY <1>1, QuietAtRest DEF OutOfTime, Finish, Ends
<1>2. CASE ChunkFails
  <2>1. pc' = "idle" /\ pc = "loop" /\ Pending # {} /\ UNCHANGED <<config, manifest, chk>>
    BY <1>2 DEF ChunkFails, Ends
  <2>2. PICK n \in MayCompare(NextChunk) : Summarised(n)
    BY <1>2 DEF ChunkFails
  <2>3. /\ \A c \in DOMAIN summary' : summary'[c] \in Nat
        /\ \A c \in chk : summary'[c] = summary[c]
        /\ Readable' = Readable
    BY <2>1, <2>2, SummaryCampaign
  <2>4. Readable \subseteq chk
    BY DEF Readable
  <2>. QED
    BY <2>1, <2>3, <2>4, AtRest DEF CampaignInv, OnGrid
<1>. QED
  BY <1>1, <1>2

\* The budget a session goes by is the one the directory stands for.
LEMMA SameBudget ==
  ASSUME CampaignInv, InSession, NEW r \in RunIds, Limited(r)
  PROVE  /\ BudgetFor(opts, r) = BudgetOf(r) /\ BudgetOf(r) \in Nat /\ BudgetOf(r) # Unlimited
         /\ ~config[r].cap
<1>1. manifest # <<>> /\ manifest[1].budget = BudgetFor(opts, 1)
  BY DEF CampaignInv, OnGrid, ManifestOf
<1>2. config[r].budget \in Nat \cup {Unset}
  BY RunType DEF CampaignInv, SoundInv, HonestInv, SettingsOK
<1>3. manifest[1].budget \in Nat
  BY <1>1 DEF CampaignInv, SoundInv, HonestInv, SettingsOK, InManifest
<1>. QED
  BY <1>1, <1>2, <1>3 DEF Limited, BudgetOf, BudgetFor

\* Within what is left of the budget.
LEMMA ChunkFits ==
  ASSUME CampaignInv, pc = "loop", Pending # {}, NEW n \in MayCompare(NextChunk),
         Limited(NextChunk[1])
  PROVE  agg[NextChunk[1]].compared + n <= BudgetOf(NextChunk[1])
<1>. DEFINE r == NextChunk[1]
            b == BudgetOf(r)
            a == agg[r].compared
<1>1. InSession
  BY DEF InSession
<1>2. r \in RunIds
  BY <1>1, TheNextChunk, ChunkShape, InTheSession
<1>3. BudgetFor(opts, r) = b /\ b \in Nat /\ b # Unlimited /\ ~config[r].cap
  BY <1>1, <1>2, SameBudget
<1>4. a = Subtotal(summary, chk, r)
  BY <1>2 DEF CampaignInv, Accounted, Sums
<1>5. a \in Nat
  <2>1. IsFiniteSet(chk) /\ \A c \in chk : summary[c] \in Nat
    BY <1>1, InTheSession
  <2>. QED
    BY <1>4, <2>1, SubtotalType
<1>6. a <= b
  <2>1. Readable = chk
    BY <1>1, InTheSession
  <2>. QED
    BY <1>2, <1>4, <2>1, BudgetForm DEF CampaignInv
<1>7. NextChunk[4] \in Nat
  BY <1>1, TheNextChunk, ChunkShape, InTheSession
<1>8. Remaining(r) = IF b > a THEN b - a ELSE 0
  BY <1>3 DEF Remaining
<1>9. MayCompare(NextChunk) = IF Remaining(r) > 0 THEN 0 .. Least(NextChunk[4], Remaining(r)) ELSE {0}
  BY <1>3 DEF MayCompare
<1>. HIDE DEF r, b, a
<1>10. a + n <= b
  BY <1>3, <1>5, <1>6, <1>7, <1>8, <1>9 DEF Least
<1>. QED
  BY <1>10 DEF r, b, a

LEMMA RunCampaign ==
  ASSUME CampaignInv, RunChunk
  PROVE  OnGrid' /\ Accounted' /\ BudgetKept' /\ NextFits'
<1>1. /\ pc = "loop" /\ pc' = "commit" /\ Pending # {}
      /\ UNCHANGED <<config, manifest, chk, opts, existing, agg>>
  BY DEF RunChunk, Goes
<1>2. PICK n \in MayCompare(NextChunk) : Summarised(n)
  BY DEF RunChunk
<1>3. /\ \A c \in DOMAIN summary' : summary'[c] \in Nat
      /\ \A c \in chk : summary'[c] = summary[c]
      /\ summary'[NextChunk] = n /\ Readable' = Readable
  BY <1>1, <1>2, SummaryCampaign
<1>4. Pending' = Pending /\ NextChunk' = NextChunk
  <2>1. Loaded /\ HonestInv
    BY <1>1 DEF Loaded, CampaignInv, SoundInv
  <2>. QED
    BY <1>1, <1>2, <2>1, RunKeepsNext
<1>5. OnGrid'
  <2>1. manifest # <<>> => ChunksOf(manifest[1].every)' = ChunksOf(manifest[1].every)
    BY <1>1 DEF ChunksOf, RunIds
  <2>2. ManifestOf(opts)' = ManifestOf(opts)
    BY <1>1 DEF ManifestOf, BudgetFor
  <2>. QED
    BY <1>1, <2>1, <2>2 DEF CampaignInv, OnGrid, InSession
<1>6. Accounted'
  <2>1. Sums(RunIds, chk, summary') = Sums(RunIds, chk, summary)
    BY <1>3, SumsAlike
  <2>2. agg' = Sums(RunIds', chk', summary')
    BY <1>1, <2>1 DEF CampaignInv, Accounted, RunIds
  <2>. QED
    BY <1>1, <1>3, <1>4, <2>2 DEF Accounted
<1>7. BudgetKept'
  <2>1. SUFFICES ASSUME NEW r \in RunIds', Limited(r)'
                 PROVE  Subtotal(summary', Readable', r) <= BudgetOf(r)'
    BY BudgetFormNext
  <2>2. r \in RunIds /\ Limited(r) /\ BudgetOf(r)' = BudgetOf(r)
    BY <1>1, <2>1 DEF RunIds, Limited, BudgetOf
  <2>3. \A c \in Readable : summary'[c] = summary[c]
    BY <1>3 DEF Readable
  <2>4. Subtotal(summary', Readable', r) = Subtotal(summary, Readable, r)
    BY <1>3, <2>3, SubtotalsAlike
  <2>. QED
    BY <2>2, <2>4, BudgetForm DEF CampaignInv
<1>8. NextFits'
  <2>1. SUFFICES ASSUME Limited(NextChunk[1])'
                 PROVE  agg'[NextChunk'[1]].compared + summary'[NextChunk'] <= BudgetOf(NextChunk[1])'
    BY DEF NextFits
  <2>2. Limited(NextChunk[1]) /\ BudgetOf(NextChunk[1])' = BudgetOf(NextChunk[1])
    BY <1>1, <1>4, <2>1 DEF Limited, BudgetOf
  <2>3. agg[NextChunk[1]].compared + n <= BudgetOf(NextChunk[1])
    BY <1>1, <2>2, ChunkFits
  <2>. QED
    BY <1>1, <1>3, <1>4, <2>2, <2>3
<1>. QED
  BY <1>5, <1>6, <1>7, <1>8

LEMMA CommitCampaign ==
  ASSUME CampaignInv, Commit
  PROVE  OnGrid' /\ Accounted' /\ BudgetKept' /\ NextFits'
<1>1. /\ pc = "commit" /\ pc' = "account" /\ Pending # {}
      /\ chk' = chk \cup {NextChunk} /\ torn' = torn \ {ChkFile(NextChunk)}
      /\ existing' = Append(existing, NextChunk)
      /\ UNCHANGED <<config, manifest, summary, opts, agg>>
  BY DEF Commit, Goes, CampaignInv, Accounted
<1>2. InSession
  BY <1>1 DEF InSession
<1>3. NextChunk \notin chk /\ NextChunk \in ChunksOf(opts.every)
  BY <1>1, TheNextChunk
<1>4. NextChunk[1] \in RunIds
  BY <1>2, <1>3, ChunkShape, InTheSession
<1>5. summary[NextChunk] \in Nat
  BY <1>1 DEF CampaignInv, SoundInv, HonestInv, Known, Accounted
<1>6. OnGrid'
  <2>1. ChunksOf(manifest[1].every)' = ChunksOf(opts.every)
    BY <1>1, <1>2 DEF CampaignInv, OnGrid, ManifestOf, ChunksOf, RunIds
  <2>2. ManifestOf(opts)' = ManifestOf(opts)
    BY <1>1 DEF ManifestOf, BudgetFor
  <2>3. chk' \subseteq ChunksOf(opts.every)
    BY <1>1, <1>2, <1>3, InTheSession
  <2>. QED
    BY <1>1, <1>2, <2>1, <2>2, <2>3 DEF CampaignInv, OnGrid, InSession
<1>7. Accounted'
  <2>1. existing \in Seq(chk)
    BY <1>2, InTheSession
  <2>2. existing' # <<>> /\ Newest' = NextChunk
    BY <1>1, <2>1 DEF Newest
  <2>3. chk' \ {Newest'} = chk
    BY <1>1, <1>3, <2>2
  <2>4. agg' = Sums(RunIds', chk' \ {Newest'}, summary')
    BY <1>1, <2>3 DEF CampaignInv, Accounted, RunIds
  <2>. QED
    BY <1>1, <2>2, <2>4 DEF CampaignInv, Accounted
<1>8. BudgetKept'
  <2>1. SUFFICES ASSUME NEW r \in RunIds', Limited(r)'
                 PROVE  Subtotal(summary', Readable', r) <= BudgetOf(r)'
    BY BudgetFormNext
  <2>2. r \in RunIds /\ Limited(r) /\ BudgetOf(r)' = BudgetOf(r)
    BY <1>1, <2>1 DEF RunIds, Limited, BudgetOf
  <2>3. IsFiniteSet(chk) /\ Readable = chk /\ \A c \in chk : summary[c] \in Nat
    BY <1>2, InTheSession
  <2>4. Readable' = chk'
    <3>1. \A c : c # NextChunk => ChkFile(c) # ChkFile(NextChunk)
      BY DEF ChkFile
    <3>. QED
      BY <1>1, <2>3, <3>1 DEF Readable
  <2>5. Subtotal(summary, chk, r) <= BudgetOf(r)
    BY <2>2, <2>3, BudgetForm DEF CampaignInv
  <2>6. /\ Subtotal(summary, chk, r) \in Int
        /\ Subtotal(summary, chk', r) =
             IF r = NextChunk[1] THEN summary[NextChunk] + Subtotal(summary, chk, r)
             ELSE Subtotal(summary, chk, r)
    <3>1. IsFiniteSet(chk') /\ NextChunk \in chk' /\ chk' \ {NextChunk} = chk
      BY <1>1, <1>3, <2>3, FS_AddElement
    <3>2. \A c \in chk' : summary[c] \in Int
      BY <1>1, <1>5, <2>3
    <3>. QED
      BY <3>1, <3>2, SubtotalPlusOne
  <2>7. CASE r = NextChunk[1]
    <3>1. agg[r].compared = Subtotal(summary, chk, r)
      BY <1>1, <2>2 DEF CampaignInv, Accounted, Sums
    <3>2. agg[r].compared + summary[NextChunk] <= BudgetOf(r)
      BY <1>1, <2>2, <2>7 DEF CampaignInv, NextFits
    <3>. QED
      BY <1>1, <1>5, <2>2, <2>4, <2>6, <2>7, <3>1, <3>2
  <2>8. CASE r # NextChunk[1]
    BY <1>1, <2>2, <2>4, <2>5, <2>6, <2>8
  <2>. QED
    BY <2>7, <2>8
<1>9. NextFits'
  BY <1>1 DEF NextFits
<1>. QED
  BY <1>6, <1>7, <1>8, <1>9

\* The newest chunk is accounted for.
LEMMA PlusNewest ==
  ASSUME CampaignInv, pc = "account"
  PROVE  /\ Newest \in chk /\ Newest[1] \in RunIds
         /\ Plus(agg, Newest) = Sums(RunIds, chk, summary)
<1>1. InSession
  BY DEF InSession
<1>2. /\ config \in Configs /\ opts.every \in Nat /\ chk \subseteq ChunksOf(opts.every)
      /\ IsFiniteSet(chk) /\ ElementsOf(existing) = chk /\ existing \in Seq(chk)
      /\ \A c \in chk : summary[c] \in Nat
  BY <1>1, InTheSession
<1>3. existing # <<>> /\ agg = Sums(RunIds, chk \ {Newest}, summary)
  BY DEF CampaignInv, Accounted
<1>4. Newest \in chk
  BY <1>2, <1>3 DEF Newest
<1>5. Newest[1] \in RunIds
  BY <1>2, <1>4, ChunkShape
<1>6. \A c \in chk : summary[c] \in Int /\ c[4] \in Int
  BY <1>2, ChunkShape
<1>. HIDE DEF Newest
<1>7. [Sums(RunIds, chk \ {Newest}, summary) EXCEPT
         ![Newest[1]] = [iterations |-> @.iterations + Newest[4],
                         compared |-> @.compared + summary[Newest]]]
      = Sums(RunIds, chk, summary)
  <2>1. IsFiniteSet(chk)
    BY <1>2
  <2>. QED
    BY <2>1, <1>4, <1>5, <1>6, SumsPlusOne, SMTT(30)
<1>. QED
  BY <1>3, <1>4, <1>5, <1>7 DEF Plus

LEMMA AccountCampaign ==
  ASSUME CampaignInv, Account
  PROVE  OnGrid' /\ Accounted' /\ BudgetKept' /\ NextFits'
<1>1. pc = "account" /\ UNCHANGED <<config, manifest, chk, summary, torn>>
  BY DEF Account
<1>2. pc' = "idle" \/ (pc' = "loop" /\ opts' = opts /\ agg' = Plus(agg, Newest))
  BY DEF Account, Goes, Ends, Newest
<1>3. CASE pc' = "idle"
  BY <1>1, <1>3, QuietAtRest
<1>4. CASE pc' = "loop" /\ opts' = opts /\ agg' = Plus(agg, Newest)
  <2>1. OnGrid'
    <3>1. manifest # <<>> => ChunksOf(manifest[1].every)' = ChunksOf(manifest[1].every)
      BY <1>1 DEF ChunksOf, RunIds
    <3>2. ManifestOf(opts)' = ManifestOf(opts)
      BY <1>1, <1>4 DEF ManifestOf, BudgetFor
    <3>. QED
      BY <1>1, <1>4, <3>1, <3>2 DEF CampaignInv, OnGrid, InSession
  <2>2. agg' = Sums(RunIds, chk, summary)
    BY <1>1, <1>4, PlusNewest
  <2>3. Accounted' /\ NextFits'
    BY <1>1, <1>4, <2>2 DEF CampaignInv, Accounted, NextFits, RunIds
  <2>4. BudgetKept'
    BY <1>1 DEF CampaignInv, BudgetKept, RunIds
  <2>. QED
    BY <2>1, <2>3, <2>4
<1>. QED
  BY <1>2, <1>3, <1>4

LEMMA KillCampaign ==
  ASSUME CampaignInv, Kill
  PROVE  OnGrid' /\ Accounted' /\ BudgetKept' /\ NextFits'
<1>1. pc # "idle" /\ pc' = "idle" /\ UNCHANGED <<config, manifest>>
  BY DEF Kill, Ends
<1>2. PICK files \in SUBSET BeingWritten : Left(files)
  BY DEF Kill
<1>3. torn' = torn \cup files
  BY <1>2 DEF Left
<1>4. \A c, d : /\ ChkFile(c) # SummaryFile(d) /\ ChkFile(c) # Latest /\ ChkFile(c) # Snapshot
                /\ (ChkFile(c) = ChkFile(d) => c = d)
  BY DEF ChkFile, SummaryFile, Latest, Snapshot
<1>5. CASE pc = "commit" /\ files # {}
  <2>1. /\ files = {ChkFile(NextChunk)} /\ summary' = summary /\ chk' = chk \cup {NextChunk}
    BY <1>2, <1>5 DEF Left, BeingWritten
  <2>2. InSession /\ Pending # {}
    BY <1>5 DEF InSession, CampaignInv, Accounted
  <2>3. NextChunk \notin chk /\ NextChunk \in ChunksOf(opts.every)
    BY <1>5, <2>2, TheNextChunk
  <2>4. Readable' = Readable
    BY <1>3, <1>4, <2>1, <2>3 DEF Readable
  <2>5. manifest # <<>> /\ chk' \subseteq ChunksOf(manifest[1].every)
    BY <2>1, <2>2, <2>3, InTheSession DEF CampaignInv, OnGrid, ManifestOf
  <2>. QED
    BY <1>1, <2>1, <2>4, <2>5, AtRest DEF CampaignInv, Accounted
<1>6. CASE pc = "loop" /\ files # {}
  <2>1. /\ Pending # {} /\ files = {SummaryFile(NextChunk)} /\ chk' = chk
        /\ summary' = [c \in (DOMAIN summary) \cup {NextChunk} |-> IF c = NextChunk THEN 0 ELSE summary[c]]
    BY <1>2, <1>6 DEF Left, BeingWritten
  <2>2. NextChunk \notin chk
    BY <1>6, <2>1, TheNextChunk
  <2>3. \A c \in chk : c \in DOMAIN summary
    BY <1>6, InTheSession DEF InSession
  <2>4. Readable' = Readable /\ Readable \subseteq chk
    BY <1>3, <1>4, <2>1 DEF Readable
  <2>5. /\ \A c \in DOMAIN summary' : summary'[c] \in Nat
        /\ \A c \in chk : summary'[c] = summary[c]
    BY <2>1, <2>2, <2>3 DEF CampaignInv, Accounted
  <2>. QED
    BY <1>1, <2>1, <2>4, <2>5, AtRest DEF CampaignInv, OnGrid
<1>7. CASE files = {} \/ pc \notin {"commit", "loop"}
  <2>1. summary' = summary /\ chk' = chk
    BY <1>2, <1>7 DEF Left
  <2>2. files \subseteq {Snapshot, Latest}
    BY <1>2, <1>7 DEF BeingWritten
  <2>3. Readable' = Readable
    BY <1>3, <1>4, <2>1, <2>2 DEF Readable
  <2>. QED
    BY <1>1, <2>1, <2>3, AtRest DEF CampaignInv, OnGrid, Accounted
<1>. QED
  BY <1>5, <1>6, <1>7

-----------------------------------------------------------------------------
LEMMA SessionCampaign ==
  ASSUME CampaignInv, SessionStep
  PROVE  OnGrid' /\ Accounted' /\ BudgetKept' /\ NextFits'
<1>1. CASE TakeSnapshot
  BY <1>1, QuietAtRest DEF TakeSnapshot, Goes
<1>. QED
  BY <1>1, LoadCampaign, ManifestCampaign, MergeCampaign, FailCampaign, RunCampaign,
     CommitCampaign, AccountCampaign DEF SessionStep

LEMMA DirectoryNext ==
  ASSUME CampaignInv, [Next]_vars
  PROVE  OnGrid' /\ Accounted' /\ BudgetKept' /\ NextFits'
<1>1. CASE (\E c \in Commands : Launch(c)) \/ NotFound \/ Judge
  <2>1. pc = "idle" /\ UNCHANGED <<config, manifest, chk, summary, torn, pc>>
    BY <1>1 DEF Launch, NotFound, Judge, campaignVars, diskVars, memVars,
                CampaignInv, SoundInv, HonestInv, Known
  <2>. QED
    BY <2>1, QuietAtRest
<1>2. CASE Spawn
  <2>1. /\ pc' \in {"idle", "setup"} /\ UNCHANGED <<config, manifest, chk, summary, torn>>
    BY <1>2 DEF Spawn, Start, Resume, Begin, Refuses, Ends, diskVars
  <2>. QED
    BY <2>1, QuietAtRest
<1>3. CASE Conclude
  <2>1. pc = "idle" /\ UNCHANGED <<config, pc>>
    BY <1>3 DEF Conclude, memVars, CampaignInv, SoundInv, HonestInv, Known
  <2>2. CASE command.keep
    BY <1>3, <2>1, <2>2, QuietAtRest DEF Conclude, diskVars
  <2>3. CASE ~command.keep
    BY <1>3, <2>1, <2>3, EmptyAtRest DEF Conclude
  <2>. QED
    BY <2>2, <2>3
<1>4. CASE TimesOut \/ SessionKilled
  BY <1>4, KillCampaign DEF TimesOut, SessionKilled
<1>5. CASE Works
  BY <1>5, SessionCampaign DEF Works
<1>6. CASE MachineDown
  <2>1. CASE pc = "idle"
    BY <1>6, <2>1, QuietAtRest DEF MachineDown, campaignVars, diskVars, memVars
  <2>2. CASE pc # "idle"
    BY <1>6, <2>2, KillCampaign DEF MachineDown
  <2>. QED
    BY <2>1, <2>2
<1>7. CASE Cleared
  BY <1>7, EmptyAtRest DEF Cleared, FreshDirectory, memVars
<1>8. CASE UNCHANGED vars
  <2>1. UNCHANGED vars /\ UNCHANGED campaignVars
    BY <1>8 DEF vars
  <2>2. UNCHANGED <<config, manifest, chk, summary, torn, pc, opts, existing, agg>>
    BY <2>1 DEF campaignVars, diskVars, memVars
  <2>4. ChunksOf(opts.every)' = ChunksOf(opts.every)
    BY <2>2 DEF ChunksOf, RunIds
  <2>5. manifest # <<>> => ChunksOf(manifest[1].every)' = ChunksOf(manifest[1].every)
    BY <2>2 DEF ChunksOf, RunIds
  <2>6. Pending' = Pending /\ NextChunk' = NextChunk
    BY <2>2, <2>4 DEF Pending, NextChunk
  <2>7. OnGrid'
    BY <2>2, <2>5 DEF CampaignInv, OnGrid, InSession, ManifestOf, BudgetFor
  <2>8. Accounted'
    BY <2>2, <2>6 DEF CampaignInv, Accounted, RunIds, Newest
  <2>9. BudgetKept'
    BY <2>2 DEF CampaignInv, BudgetKept, RunIds
  <2>10. NextFits'
    BY <2>2, <2>6 DEF CampaignInv, NextFits, Limited, BudgetOf
  <2>. QED
    BY <2>7, <2>8, <2>9, <2>10
<1>. QED
  BY <1>1, <1>2, <1>3, <1>4, <1>5, <1>6, <1>7, <1>8 DEF Next, RunnerStep

-----------------------------------------------------------------------------
(***************************************************************************)
(* The statistics and the aggregate.                                       *)
(***************************************************************************)
LEMMA StatsNext ==
  ASSUME CampaignInv, [Next]_vars
  PROVE  StatsFit'
<1>1. config' = config
  BY StepIsSound DEF CampaignInv
<1>2. \A r \in RunIds : config[r].seeds * config[r].iters \in Nat
  <2>1. \A r \in RunIds : config[r].seeds \in Nat /\ config[r].iters \in Nat
    BY RunType DEF CampaignInv, SoundInv, HonestInv, SettingsOK
  <2>2. \A a, b \in Nat : a * b \in Nat
    OBVIOUS
  <2>. QED
    BY <2>1, <2>2
<1>3. CASE stats' = stats
  BY <1>1, <1>3 DEF CampaignInv, StatsFit, RunIds
<1>4. CASE Kill
  <2>1. stats' = stats \/ \E r \in RunIds : stats' = [stats EXCEPT ![r] = 0]
    BY <1>4 DEF Kill
  <2>. QED
    BY <1>1, <1>2, <1>3, <2>1 DEF CampaignInv, StatsFit, RunIds
<1>5. CASE Merge
  <2>1. pc = "merge" /\ InSession
    BY <1>5 DEF Merge, InSession
  <2>2. stats' = [r \in RunIds |-> IF Sums(RunIds, chk, summary)[r].iterations # 0
                                   THEN Sums(RunIds, chk, summary)[r].iterations ELSE stats[r]]
    BY <1>5, <2>1, MergedAll DEF Merge
  <2>3. \A r \in RunIds : /\ Sums(RunIds, chk, summary)[r].iterations \in Nat
                          /\ Sums(RunIds, chk, summary)[r].iterations <= config[r].seeds * config[r].iters
    BY <2>1, InTheSession, SumsType
  <2>. QED
    BY <1>1, <2>2, <2>3 DEF CampaignInv, StatsFit, RunIds
<1>6. CASE Account
  <2>1. pc = "account" /\ InSession
    BY <1>6 DEF Account, InSession
  <2>2. stats' = [stats EXCEPT ![Newest[1]] = Sums(RunIds, chk, summary)[Newest[1]].iterations]
    BY <1>6, <2>1, PlusNewest DEF Account, Newest
  <2>3. Newest[1] \in RunIds
    BY <2>1, PlusNewest
  <2>4. \A r \in RunIds : /\ Sums(RunIds, chk, summary)[r].iterations \in Nat
                          /\ Sums(RunIds, chk, summary)[r].iterations <= config[r].seeds * config[r].iters
    BY <2>1, InTheSession, SumsType
  <2>. HIDE DEF Newest
  <2>. QED
    BY <1>1, <2>2, <2>3, <2>4 DEF CampaignInv, StatsFit, RunIds
<1>7. CASE Conclude
  <2>1. stats' = stats \/ stats' = [r \in RunIds |-> 0]
    BY <1>7 DEF Conclude, diskVars
  <2>. QED
    BY <1>1, <1>2, <1>3, <2>1 DEF StatsFit, RunIds
<1>8. stats' = stats \/ Kill \/ Merge \/ Account \/ Conclude
  <2>1. CASE (\E c \in Commands : Launch(c)) \/ NotFound \/ Judge \/ UNCHANGED vars
    BY <2>1 DEF Launch, NotFound, Judge, vars, campaignVars, diskVars
  <2>2. CASE Spawn
    BY <2>2 DEF Spawn, Start, Resume, Begin, Refuses, diskVars
  <2>3. CASE TimesOut \/ SessionKilled
    BY <2>3 DEF TimesOut, SessionKilled
  <2>4. CASE MachineDown
    BY <2>4 DEF MachineDown, campaignVars, diskVars
  <2>5. CASE Cleared
    BY <2>5 DEF Cleared, FreshDirectory
  <2>6. CASE Works
    BY <2>6 DEF Works, SessionStep, TakeSnapshot, LoadChunks, Refuses, diskVars, WriteManifest,
                OutOfTime, RunChunk, ChunkFails, Commit, Finish
  <2>. QED
    BY <2>1, <2>2, <2>3, <2>4, <2>5, <2>6 DEF Next, RunnerStep
<1>. QED
  BY <1>3, <1>4, <1>5, <1>6, <1>7, <1>8

LEMMA FinishCounts ==
  ASSUME CampaignInv, Finish
  PROVE  \A r \in RunIds : report'.iterations[r] = config[r].seeds * config[r].iters
<1>1. pc = "loop" /\ Pending = {} /\ report' = AggregateOf(agg, stats, "completed")
  BY DEF Finish
<1>2. InSession
  BY <1>1 DEF InSession
<1>3. /\ config \in Configs /\ opts.every \in Nat /\ opts.every > 0 /\ IsFiniteSet(chk)
      /\ chk \subseteq ChunksOf(opts.every) /\ ElementsOf(existing) = chk
      /\ \A c \in chk : summary[c] \in Nat
  BY <1>2, InTheSession
<1>4. chk = ChunksOf(opts.every)
  BY <1>1, <1>3 DEF Pending
<1>5. agg = Sums(RunIds, chk, summary)
  BY <1>1 DEF CampaignInv, Accounted
<1>6. ASSUME NEW r \in RunIds
      PROVE  report'.iterations[r] = config[r].seeds * config[r].iters
  <2>1. agg[r].iterations = config[r].seeds * config[r].iters
    BY <1>3, <1>4, <1>5, SumsType
  <2>2. stats[r] \in Nat /\ stats[r] <= agg[r].iterations
    BY <2>1 DEF CampaignInv, StatsFit
  <2>3. agg[r].iterations \in Nat
    BY <1>3, <1>5, SumsType
  <2>4. report'.iterations[r] = IF stats[r] > agg[r].iterations THEN stats[r] ELSE agg[r].iterations
    BY <1>1 DEF AggregateOf
  <2>. QED
    BY <2>1, <2>2, <2>3, <2>4
<1>. QED
  BY <1>6

LEMMA CampaignNext ==
  ASSUME CampaignInv, [Next]_vars
  PROVE  CampaignInv'
<1>1. SoundInv'
  BY SoundNext DEF CampaignInv
<1>2. OnGrid' /\ Accounted' /\ BudgetKept' /\ NextFits'
  BY DirectoryNext
<1>3. StatsFit'
  BY StatsNext
<1>4. AllCounted'
  <2>1. config' = config /\ (report'.reason = "completed" => report' = report \/ Finish)
    BY StepIsSound DEF CampaignInv
  <2>. QED
    BY <2>1, FinishCounts DEF CampaignInv, AllCounted, RunIds
<1>. QED
  BY <1>1, <1>2, <1>3, <1>4 DEF CampaignInv

(***************************************************************************)
(* An aggregate that says "completed" counts every iteration of every run  *)
(* exactly once, and none of them fails, whatever sessions were killed,    *)
(* resumed and retried on the way and whatever was cleared away.           *)
(***************************************************************************)
THEOREM CountedExactly == Spec => []CompletedExactly
<1>1. StagedInit => CampaignInv
  BY CampaignInit
<1>2. CampaignInv /\ [Next]_vars => CampaignInv'
  BY CampaignNext
<1>3. CampaignInv => CompletedExactly
  BY DEF CampaignInv, AllCounted, SoundInv, NoneFails, CompletedExactly
<1>. QED
  BY <1>1, <1>2, <1>3, PTL DEF Spec

(***************************************************************************)
(* The chunks of a run without a cap compare no more states than its       *)
(* budget, over all the sessions that ran them.                            *)
(***************************************************************************)
THEOREM BudgetIsKept == Spec => []BudgetKept
<1>1. StagedInit => CampaignInv
  BY CampaignInit
<1>2. CampaignInv /\ [Next]_vars => CampaignInv'
  BY CampaignNext
<1>3. CampaignInv => BudgetKept
  BY DEF CampaignInv
<1>. QED
  BY <1>1, <1>2, <1>3, PTL DEF Spec
==============================================================================
