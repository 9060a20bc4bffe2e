--------------------------- MODULE CampaignCheckpoint ---------------------------
(***************************************************************************)
(* A campaign of the raw engine's test driver (run_campaign_case): runs of *)
(* iterations per seed, cut into chunks; each chunk leaves a summary file  *)
(* and then a ".chk" file in the checkpoint directory, next to the         *)
(* manifest latest.chk and a snapshot of the campaign's configuration.  A  *)
(* session that is killed is followed by others, which skip the chunks     *)
(* that are there.                                                         *)
(*                                                                         *)
(* All files are written in place: a session killed while it writes one    *)
(* may leave it torn.  Torn here is empty or cut off so that a required    *)
(* key is missing.  A chunk is <<run, seed index, first iteration, number  *)
(* of iterations>>.  The configuration does not change between sessions,   *)
(* comparing is on, the budget of exact audits is the default, none, and   *)
(* no session stops at a policy gate.                                      *)
(*                                                                         *)
(* Whether an iteration violates the oracle depends on the program under   *)
(* test, its seed and its number only (mix_seed), not on the chunk it is   *)
(* run in: the failing iterations <<seed index, number>> are part of the   *)
(* configuration.                                                          *)
(***************************************************************************)
EXTENDS Integers, Sequences, FiniteSets, FiniteSetsExt

CONSTANTS
  Configs,        \* the configurations, each a sequence of runs
  CommandLines    \* the settings a session may be started with

Unset == -1       \* a run without a budget of its own
Unlimited == 0    \* compareBudget 0

RunsOfCampaigns ==
  [seeds : Nat, iters : Nat, budget : Nat \cup {Unset}, cap : BOOLEAN,
   failing : SUBSET (Nat \X Nat)]
Settings ==
  [every : Nat, budget : Nat, maxPartial : Nat, stopAfter : BOOLEAN, wall : BOOLEAN]

ASSUME CampaignAssumption ==
  /\ Configs \subseteq Seq(RunsOfCampaigns) \ {<<>>}
  /\ CommandLines \subseteq Settings

VARIABLES
  config,     \* the campaign
  snapshot,   \* whether the directory has the snapshot of the configuration
  manifest,   \* <<>>, or <<m>> for the settings m in latest.chk
  chk,        \* the chunks with a .chk file
  summary,    \* chunk -> states compared, for the chunks with a summary file
  torn,       \* the files cut off by a kill
  stats,      \* run -> iterations in its merged statistics file
  report,     \* the aggregate file: iterations, and why the session ended
  pc,         \* where the session is; "idle" when there is none
  opts,       \* its settings
  existing,   \* the chunks it knows, as often as it came to know them
  agg,        \* run -> iterations and compared states merged so far
  exit        \* the exit code of the last session; Killed, or Running

diskVars == <<snapshot, manifest, chk, summary, torn, stats, report>>
memVars == <<pc, opts, existing, agg>>
campaignVars == <<config, diskVars, memVars, exit>>

Killed == -9
Running == -1
NoOpts == [every |-> 0, budget |-> 0, maxPartial |-> 0, stopAfter |-> FALSE, wall |-> FALSE]
NoReason == "none"

(***************************************************************************)
(* The names of the files that may be torn.                                *)
(***************************************************************************)
Latest == <<"latest">>
Snapshot == <<"snapshot">>
ChkFile(c) == <<"chk", c>>
SummaryFile(c) == <<"summary", c>>

RunIds == DOMAIN config
Nothing == [r \in RunIds |-> [iterations |-> 0, compared |-> 0]]

-----------------------------------------------------------------------------
(***************************************************************************)
(* The chunks of the campaign for a chunk size, and the order of the three *)
(* loops over runs, seeds and first iterations.                            *)
(***************************************************************************)
Least(a, b) == IF a < b THEN a ELSE b

ChunksOf(every) ==
  UNION { { <<r, s, k * every, Least(every, config[r].iters - k * every)>> :
              s \in 1 .. config[r].seeds,
              k \in {i \in 0 .. config[r].iters : i * every < config[r].iters} } :
          r \in RunIds }

Sooner(c, d) ==
  \/ c[1] < d[1]
  \/ c[1] = d[1] /\ c[2] < d[2]
  \/ c[1] = d[1] /\ c[2] = d[2] /\ c[3] < d[3]

ElementsOf(s) == {s[i] : i \in DOMAIN s}

Pending == {c \in ChunksOf(opts.every) : ~(c \in ElementsOf(existing) /\ c \in DOMAIN summary)}
NextChunk == CHOOSE c \in Pending : \A d \in Pending \ {c} : Sooner(c, d)

Failing(c) ==
  \E k \in c[3] .. c[3] + c[4] - 1 : <<c[2], k>> \in config[c[1]].failing

Overlapping(C) ==
  \E c, d \in C : c # d /\ c[1] = d[1] /\ c[2] = d[2] /\ c[3] <= d[3] /\ d[3] < c[3] + c[4]

-----------------------------------------------------------------------------
(***************************************************************************)
(* A setting of the run comes before one of the session.  The manifest     *)
(* records the settings of the first run.                                  *)
(***************************************************************************)
BudgetFor(o, r) == IF config[r].budget = Unset THEN o.budget ELSE config[r].budget

DefaultEvery == 100
EveryOf(o) == IF o.every = 0 THEN DefaultEvery ELSE o.every

ManifestOf(o) ==
  [every |-> o.every, budget |-> BudgetFor(o, 1), maxPartial |-> o.maxPartial]

(***************************************************************************)
(* What a chunk may compare: one state per iteration.  Once a run's budget *)
(* is used up comparing is switched off for the chunk; with a cap for      *)
(* exact keys the audits go on without it, and count as compared.          *)
(***************************************************************************)
Remaining(r) ==
  LET b == BudgetFor(opts, r) IN
  IF b > agg[r].compared THEN b - agg[r].compared ELSE 0

\* Mutant: every chunk has the whole budget.
MayCompareAfresh(c) ==
  LET b == BudgetFor(opts, c[1]) IN
  IF b = Unlimited THEN 0 .. c[4] ELSE 0 .. Least(c[4], b)

MayCompare(c) ==
  IF BudgetFor(opts, c[1]) = Unlimited THEN 0 .. c[4]
  ELSE IF Remaining(c[1]) > 0 THEN 0 .. Least(c[4], Remaining(c[1]))
  ELSE IF config[c[1]].cap THEN 0 .. c[4] ELSE {0}

(***************************************************************************)
(* Statistics merged from the chunks of one run.                           *)
(***************************************************************************)
Counted(r) == {c \in ElementsOf(existing) : c[1] = r /\ c \in DOMAIN summary}

Total(g) == MapThenSumSet(LAMBDA c : g[c], DOMAIN g)

MergedFrom(r) ==
  [iterations |-> Total([c \in Counted(r) |-> c[4]]),
   compared |-> Total([c \in Counted(r) |-> summary[c]])]

Plus(a, c) ==
  [a EXCEPT ![c[1]] = [iterations |-> @.iterations + c[4], compared |-> @.compared + summary[c]]]

(***************************************************************************)
(* write_campaign_aggregate_outputs: a run counts with its statistics file *)
(* when this has more iterations than the session knows of.                *)
(***************************************************************************)
AggregateOf(a, files, reason) ==
  [iterations |-> [r \in RunIds |-> IF files[r] > a[r].iterations THEN files[r] ELSE a[r].iterations],
   reason |-> reason]

-----------------------------------------------------------------------------
Init ==
  /\ config \in Configs
  /\ snapshot = FALSE /\ manifest = <<>> /\ chk = {} /\ summary = <<>> /\ torn = {}
  /\ stats = [r \in RunIds |-> 0]
  /\ report = [iterations |-> [r \in RunIds |-> 0], reason |-> NoReason]
  /\ pc = "idle" /\ opts = NoOpts /\ existing = <<>> /\ agg = Nothing /\ exit = 0

(***************************************************************************)
(* The end of a session.                                                   *)
(***************************************************************************)
Ends(code) ==
  /\ pc' = "idle" /\ opts' = NoOpts /\ existing' = <<>> /\ agg' = Nothing
  /\ exit' = code

Refuses == Ends(1) /\ UNCHANGED diskVars

Goes(place) == pc' = place /\ UNCHANGED exit

(***************************************************************************)
(* A session started with --campaign-config, or with --resume-from.  A     *)
(* manifest that cannot be read ends either; a session that resumes needs  *)
(* one, and the snapshot.                                                  *)
(***************************************************************************)
Begin(o) ==
  /\ pc' = "setup" /\ exit' = Running
  /\ opts' = [o EXCEPT !.every = EveryOf(o)]
  /\ existing' = <<>> /\ agg' = Nothing
  /\ UNCHANGED diskVars

Start(o) ==
  /\ pc = "idle"
  /\ UNCHANGED config
  /\ IF Latest \in torn THEN Refuses ELSE Begin(o)

Resume(o) ==
  /\ pc = "idle"
  /\ UNCHANGED config
  /\ IF manifest = <<>> \/ Latest \in torn \/ ~snapshot \/ Snapshot \in torn THEN Refuses
     ELSE Begin([o EXCEPT !.every = manifest[1].every, !.budget = manifest[1].budget,
                          !.maxPartial = manifest[1].maxPartial])

(***************************************************************************)
(* ensure_campaign_config_snapshot: copied unless the same is there.       *)
(***************************************************************************)
TakeSnapshot ==
  /\ pc = "setup"
  /\ snapshot' = TRUE /\ torn' = torn \ {Snapshot}
  /\ Goes("chunks")
  /\ UNCHANGED <<config, manifest, chk, summary, stats, report, opts, existing, agg>>

\* Mutant: the chunks and the settings found are taken as they are.
LoadableUnchecked == \A c \in chk : ChkFile(c) \notin torn

(***************************************************************************)
(* All .chk files are read; they must not overlap, and the settings must   *)
(* be those of the manifest that is there.                                 *)
(***************************************************************************)
Loadable ==
  /\ \A c \in chk : ChkFile(c) \notin torn
  /\ ~Overlapping(chk)
  /\ manifest # <<>> => manifest[1] = ManifestOf(opts)

LoadChunks ==
  /\ pc = "chunks"
  /\ UNCHANGED config
  /\ IF Loadable
     THEN /\ existing' = CHOOSE s \in [1 .. Cardinality(chk) -> chk] : ElementsOf(s) = chk
          /\ Goes("manifest")
          /\ UNCHANGED <<diskVars, opts, agg>>
     ELSE Refuses

WriteManifest ==
  /\ pc = "manifest"
  /\ manifest' = <<ManifestOf(opts)>> /\ torn' = torn \ {Latest}
  /\ Goes("merge")
  /\ UNCHANGED <<config, snapshot, chk, summary, stats, report, opts, existing, agg>>

(***************************************************************************)
(* The stop rule after a merge.                                            *)
(***************************************************************************)
EnoughChunks(known) == opts.maxPartial # 0 /\ Len(known) >= opts.maxPartial

(***************************************************************************)
(* The statistics of each run are merged from the chunks that have both    *)
(* files, and the aggregate is rewritten.                                  *)
(***************************************************************************)
Merge ==
  LET merged == [r \in RunIds |-> MergedFrom(r)]
      files == [r \in RunIds |-> IF merged[r].iterations # 0 THEN merged[r].iterations ELSE stats[r]]
  IN  /\ pc = "merge"
      /\ stats' = files
      /\ IF EnoughChunks(existing)
         THEN report' = AggregateOf(merged, files, "max_partial_runs") /\ Ends(0)
         ELSE /\ report' = AggregateOf(merged, files, NoReason)
              /\ agg' = merged
              /\ Goes("loop") /\ UNCHANGED <<opts, existing>>
      /\ UNCHANGED <<config, snapshot, manifest, chk, summary, torn>>

-----------------------------------------------------------------------------
(***************************************************************************)
(* The wall clock is looked at before a chunk and after one.               *)
(***************************************************************************)
OutOfTime ==
  /\ pc = "loop" /\ Pending # {} /\ opts.wall
  /\ report' = AggregateOf(agg, stats, "max_wall_seconds")
  /\ Ends(0)
  /\ UNCHANGED <<config, snapshot, manifest, chk, summary, torn, stats>>

(***************************************************************************)
(* The iterations of the next chunk, and its summary.                      *)
(***************************************************************************)
Summarised(n) ==
  /\ summary' = [c \in (DOMAIN summary) \cup {NextChunk} |-> IF c = NextChunk THEN n ELSE summary[c]]
  /\ torn' = torn \ {SummaryFile(NextChunk)}

RunChunk ==
  /\ pc = "loop" /\ Pending # {}
  /\ ~Failing(NextChunk)
  /\ \E n \in MayCompare(NextChunk) : Summarised(n)
  /\ Goes("commit")
  /\ UNCHANGED <<config, snapshot, manifest, chk, stats, report, opts, existing, agg>>

\* Mutant: the chunk is recorded although it failed.
ChunkFailsRecorded ==
  /\ pc = "loop" /\ Pending # {}
  /\ \E n \in MayCompare(NextChunk) : Summarised(n)
  /\ report' = AggregateOf(agg, stats, NoReason)
  /\ chk' = chk \cup {NextChunk}
  /\ Ends(1)
  /\ UNCHANGED <<config, snapshot, manifest, stats>>

(***************************************************************************)
(* An iteration violates the oracle, or something else throws: the         *)
(* statistics so far are flushed to the chunk's summary, the aggregate is  *)
(* rewritten and the session fails.                                        *)
(***************************************************************************)
ChunkFails ==
  /\ pc = "loop" /\ Pending # {}
  /\ \E n \in MayCompare(NextChunk) : Summarised(n)
  /\ report' = AggregateOf(agg, stats, NoReason)
  /\ Ends(1)
  /\ UNCHANGED <<config, snapshot, manifest, chk, stats>>

(***************************************************************************)
(* The chunk in hand after its summary is written is the next one still.   *)
(***************************************************************************)
Commit ==
  /\ pc = "commit"
  /\ chk' = chk \cup {NextChunk} /\ torn' = torn \ {ChkFile(NextChunk)}
  /\ existing' = Append(existing, NextChunk)
  /\ Goes("account")
  /\ UNCHANGED <<config, snapshot, manifest, summary, stats, report, opts, agg>>

(***************************************************************************)
(* The chunk is merged, the run's statistics file and the aggregate are    *)
(* rewritten, and the session may stop.                                    *)
(***************************************************************************)
ReasonsToStop ==
  IF EnoughChunks(existing) THEN {"max_partial_runs"}
  ELSE IF opts.stopAfter THEN {"stop_after_checkpoint"}
  ELSE IF opts.wall THEN {"max_wall_seconds", NoReason} ELSE {NoReason}

Account ==
  LET c == existing[Len(existing)]
      merged == Plus(agg, c)
      files == [stats EXCEPT ![c[1]] = merged[c[1]].iterations]
  IN  /\ pc = "account"
      /\ stats' = files
      /\ \E reason \in ReasonsToStop :
           /\ report' = AggregateOf(merged, files, reason)
           /\ IF reason = NoReason
              THEN agg' = merged /\ Goes("loop") /\ UNCHANGED <<opts, existing>>
              ELSE Ends(0)
      /\ UNCHANGED <<config, snapshot, manifest, chk, summary, torn>>

Finish ==
  /\ pc = "loop" /\ Pending = {}
  /\ report' = AggregateOf(agg, stats, "completed")
  /\ Ends(0)
  /\ UNCHANGED <<config, snapshot, manifest, chk, summary, torn, stats>>

SessionStep ==
  \/ TakeSnapshot \/ LoadChunks \/ WriteManifest \/ Merge
  \/ OutOfTime \/ RunChunk \/ ChunkFails \/ Commit \/ Account \/ Finish

-----------------------------------------------------------------------------
(***************************************************************************)
(* A session is killed.  The file it is about to write may be left torn; a *)
(* torn statistics file reads as one without iterations.  (The aggregate   *)
(* may be torn too; no session reads it.)                                  *)
(***************************************************************************)
BeingWritten ==
  CASE pc = "setup" -> IF snapshot /\ Snapshot \notin torn THEN {} ELSE {Snapshot}
    [] pc = "manifest" -> {Latest}
    [] pc = "loop" -> IF Pending = {} THEN {} ELSE {SummaryFile(NextChunk)}
    [] pc = "commit" -> {ChkFile(NextChunk)}
    [] OTHER -> {}

Left(files) ==
  /\ torn' = torn \cup files
  /\ snapshot' = (snapshot \/ Snapshot \in files)
  /\ chk' = IF pc = "commit" /\ files # {} THEN chk \cup {NextChunk} ELSE chk
  /\ summary' =
       IF pc = "loop" /\ files # {}
       THEN [c \in (DOMAIN summary) \cup {NextChunk} |-> IF c = NextChunk THEN 0 ELSE summary[c]]
       ELSE summary

Kill ==
  /\ pc # "idle"
  /\ \E files \in SUBSET BeingWritten : Left(files)
  /\ \/ UNCHANGED stats
     \/ pc \in {"merge", "account"} /\ \E r \in RunIds : stats' = [stats EXCEPT ![r] = 0]
  /\ Ends(Killed)
  /\ UNCHANGED <<config, manifest, report>>

(***************************************************************************)
(* Someone removes the checkpoint directory, as the refusals advise; the   *)
(* statistics and the aggregate are elsewhere.                             *)
(***************************************************************************)
EmptyDirectory ==
  snapshot' = FALSE /\ manifest' = <<>> /\ chk' = {} /\ summary' = <<>> /\ torn' = {}

FreshDirectory ==
  /\ pc = "idle" /\ (snapshot \/ manifest # <<>>)
  /\ EmptyDirectory
  /\ UNCHANGED <<config, stats, report, memVars, exit>>

-----------------------------------------------------------------------------
(***************************************************************************)
(* What the files say is so whatever was killed when: a chunk file that    *)
(* can be read has a whole summary beside it, and no iteration of the chunk*)
(* fails; a manifest that can be read has the snapshot it refers to.       *)
(* Sessions skip a chunk, and resume, on the strength of these files alone.*)
(***************************************************************************)
DirectoryHonest ==
  /\ \A c \in chk : ChkFile(c) \notin torn =>
        c \in DOMAIN summary /\ SummaryFile(c) \notin torn /\ ~Failing(c)
  /\ manifest # <<>> /\ Latest \notin torn => snapshot /\ Snapshot \notin torn

(***************************************************************************)
(* An aggregate that says "completed" counts every iteration of every run  *)
(* exactly once, however many sessions it took and however they ended, and *)
(* no iteration of the campaign fails.                                     *)
(***************************************************************************)
CompletedExactly ==
  report.reason = "completed" =>
    \A r \in RunIds :
      /\ report.iterations[r] = config[r].seeds * config[r].iters
      /\ \A s \in 1 .. config[r].seeds, k \in 0 .. config[r].iters - 1 :
           <<s, k>> \notin config[r].failing

(***************************************************************************)
(* The states compared in the chunks of a run do not exceed its budget,    *)
(* across sessions, kills and resumptions.  It is stated for the runs it   *)
(* is true of: those without a cap for exact keys, whose budget is their   *)
(* own or, for the first run, the one the manifest records.                *)
(***************************************************************************)
BudgetKept ==
  \A r \in RunIds :
    LET own == config[r].budget
        budget == IF own = Unset /\ r = 1 /\ manifest # <<>> THEN manifest[1].budget ELSE own
    IN  ~config[r].cap /\ budget \notin {Unset, Unlimited} =>
          Total([c \in {d \in chk : d[1] = r /\ ChkFile(d) \notin torn} |-> summary[c]]) <= budget
===============================================================================
