----------------------------- MODULE CloudRules -----------------------------
(* The rule sets that are kept on the network: a manifest with the digest of *)
(* every file, the files beside it, a cache with a record of what it holds,  *)
(* the snapshot that came with the application, and who reads them: the      *)
(* status, the update check, and a connect that copies them one by one.      *)
(* The files of a revision stand for their contents.                         *)
EXTENDS Naturals, Sequences

CONSTANTS
    Syncers,    \* calls of sync that may overlap: the window's, the update's
    MaxRemote   \* bound: revisions that are published
Nobody == "nobody"
ASSUME CloudAssumption == MaxRemote \in Nat /\ Nobody \notin Syncers

Catalog == <<"iran-domains", "iran-networks", "private">>
RuleFiles == {Catalog[i] : i \in 1..Len(Catalog)}
Absent == MaxRemote + 1
Revisions == 0..MaxRemote

VARIABLES
    served,     \* what the network answers with: caches let each lag by itself
    bundle,     \* the revision that is packaged with the application
    cached,     \* the files of the cache
    meta,       \* sync-meta.json: the revision it names
    holder,     \* of the sync lock
    sync,       \* each call
    copying,    \* a connect that copies the rule files: those it has
    torn,       \* history: a publication is in progress or was left
    disturbed   \* history: the same, at any time since the copying began

cloudVars == <<served, bundle, cached, meta, holder, sync, copying, torn, disturbed>>
network == served
cache == <<cached, meta>>
readers == <<copying, disturbed>>

NoSync == [at |-> "idle", of |-> 0, got |-> <<>>, published |-> 0]
NoCopies == [f \in RuleFiles |-> Absent]

CloudTypeOK ==
    /\ served \in [RuleFiles \union {"manifest"} -> Revisions]
    /\ bundle \in Revisions /\ cached \in [RuleFiles -> 0..Absent] /\ meta \in 0..Absent
    /\ holder \in Syncers \union {Nobody}
    /\ sync \in [Syncers -> [at : {"idle", "manifest", "download"}, of : Revisions,
                             got : Seq(Revisions), published : 0..Len(Catalog)]]
    /\ \A c \in Syncers : Len(sync[c].got) <= Len(Catalog)
    /\ copying \in [RuleFiles -> 0..Absent]
    /\ torn \in BOOLEAN /\ disturbed \in BOOLEAN

CloudInit ==
    /\ served = [f \in RuleFiles \union {"manifest"} |-> 0]
    /\ bundle = 0 /\ cached = NoCopies /\ meta = Absent /\ holder = Nobody
    /\ sync = [c \in Syncers |-> NoSync] /\ copying = NoCopies
    /\ torn = FALSE /\ disturbed = FALSE

-----------------------------------------------------------------------------
(* The network: each item is served as of some revision, newer ones later.  *)

Republishes(f) ==
    /\ served[f] < MaxRemote /\ served' = [served EXCEPT ![f] = @ + 1]
    /\ UNCHANGED <<bundle, cache, holder, sync, readers, torn>>

-----------------------------------------------------------------------------
(* Synchronization.                                                         *)

Begins(c) ==
    /\ sync[c].at = "idle" /\ sync' = [sync EXCEPT ![c].at = "manifest"]
    /\ UNCHANGED <<network, bundle, cache, holder, readers, torn>>

\* Mutation of TakesLock: two calls run side by side.
RunsBeside(c) == UNCHANGED holder

\* sync_lock is held until the call returns.
TakesLock(c) == holder = Nobody /\ holder' = c

\* The manifest's format is right; its revision is that of its digests.
FetchManifest(c) ==
    /\ sync[c].at = "manifest" /\ TakesLock(c)
    /\ sync' = [sync EXCEPT ![c] = [NoSync EXCEPT !.at = "download", !.of = served["manifest"]]]
    /\ UNCHANGED <<network, bundle, cache, readers, torn>>

NextFile(c) == Catalog[Len(sync[c].got) + 1]

\* A file is taken when it has the digest and the entries the manifest names.
Download(c) ==
    /\ sync[c].at = "download" /\ Len(sync[c].got) < Len(Catalog)
    /\ served[NextFile(c)] = sync[c].of
    /\ sync' = [sync EXCEPT ![c].got = Append(@, served[NextFile(c)])]
    /\ UNCHANGED <<network, bundle, cache, holder, readers, torn>>

\* When all were taken, each is staged, then renamed into the cache.
PublishFile(c) ==
    /\ Len(sync[c].got) = Len(Catalog) /\ sync[c].published < Len(Catalog)
    /\ sync' = [sync EXCEPT ![c].published = @ + 1]
    /\ LET i == sync[c].published + 1 IN cached' = [cached EXCEPT ![Catalog[i]] = sync[c].got[i]]
    /\ torn' = TRUE /\ disturbed' = TRUE
    /\ UNCHANGED <<network, bundle, meta, holder, copying>>

SyncReturns(c) ==
    /\ sync' = [sync EXCEPT ![c] = NoSync]
    /\ holder' = IF holder = c THEN Nobody ELSE holder

\* The record goes last.
PublishMeta(c) ==
    /\ sync[c].published = Len(Catalog)
    /\ meta' = sync[c].of /\ torn' = FALSE /\ SyncReturns(c)
    /\ UNCHANGED <<network, bundle, cached, readers>>

\* A download that fails three times, another digest, a full disk.
SyncFails(c) ==
    /\ sync[c].at # "idle" /\ (sync[c].at = "manifest" => holder = Nobody) /\ SyncReturns(c)
    /\ UNCHANGED <<network, bundle, cache, readers, torn>>

\* The application ends at any step; the next may be another release.
AppRestarts ==
    /\ sync' = [c \in Syncers |-> NoSync] /\ holder' = Nobody /\ copying' = NoCopies
    /\ \E r \in bundle..served["manifest"] : bundle' = r
    /\ disturbed' = FALSE /\ UNCHANGED <<network, cache, torn>>

-----------------------------------------------------------------------------
(* The readers.                                                             *)

\* The update check: cached_revision against that of the manifest.
RulesAvailable == meta # served["manifest"]

\* A cached file goes before the bundled one.
Resolve(f) == IF cached[f] # Absent THEN cached[f] ELSE bundle

\* prepare_runtime copies file by file and takes no lock.
CopyRule(f) ==
    /\ copying[f] = Absent /\ copying' = [copying EXCEPT ![f] = Resolve(f)]
    /\ disturbed' = IF copying = NoCopies THEN torn ELSE disturbed
    /\ UNCHANGED <<network, bundle, cache, holder, sync, torn>>
CopyEnds ==
    /\ copying # NoCopies /\ copying' = NoCopies
    /\ UNCHANGED <<network, bundle, cache, holder, sync, disturbed, torn>>

\* What the window shows: the record of a complete cache, or the bundle.
Status ==
    IF meta # Absent /\ \A f \in RuleFiles : cached[f] # Absent THEN meta ELSE bundle

SyncStep(c) ==
    \/ Begins(c) \/ FetchManifest(c) \/ Download(c) \/ PublishFile(c) \/ PublishMeta(c) \/ SyncFails(c)
CloudNext ==
    \/ \E f \in RuleFiles \union {"manifest"} : Republishes(f)
    \/ \E c \in Syncers : SyncStep(c)
    \/ AppRestarts \/ CopyEnds
    \/ \E f \in RuleFiles : CopyRule(f)

CloudSpec == CloudInit /\ [][CloudNext]_cloudVars

-----------------------------------------------------------------------------

\* A cache whose files are not all of the revision its record names, which a
\* failure or a crash may leave, is never called current: the next check offers
\* the rules again.
MixIsOffered ==
    (\E f \in RuleFiles : cached[f] # meta) => RulesAvailable

\* A connect beside which nothing was published copies one whole revision, the
\* one the window shows.
ShownIsUsed ==
    (\A f \in RuleFiles : copying[f] # Absent) /\ ~disturbed =>
        \A f \in RuleFiles : copying[f] = Status

\* What the copies of the rule sets on a machine keep.
CloudInvariant == CloudTypeOK /\ MixIsOffered /\ ShownIsUsed
=============================================================================
