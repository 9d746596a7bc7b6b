--------------------------- MODULE BoundaryProofs ---------------------------
(***************************************************************************)
(* Proofs about what the desktop and the engine see of the world outside   *)
(* them: the rule sets kept on the network, for any revisions and any      *)
(* overlapping calls; the helper's protocol, for any requests; and the     *)
(* Windows taskbar, for any bars, layouts and delays.                      *)
(***************************************************************************)
EXTENDS CloudRules, HelperProtocol, Taskbar, FiniteSetTheorems, TLAPS

-----------------------------------------------------------------------------
(* The cloud rules.                                                        *)

\* What each synchronization knows while it holds the lock: it brings no older
\* revision than the record names, and the files it has published are of it.
SyncFits(c) ==
    /\ sync[c].at # "download" => sync[c].got = <<>> /\ sync[c].published = 0
    /\ sync[c].at = "download" =>
         /\ holder = c /\ sync[c].of <= served["manifest"]
         /\ meta # Absent => meta <= sync[c].of
    /\ \A i \in 1..Len(sync[c].got) : sync[c].got[i] = sync[c].of
    /\ sync[c].published > 0 => torn /\ Len(sync[c].got) = Len(Catalog)
    /\ \A i \in 1..sync[c].published : cached[Catalog[i]] = sync[c].of

\* The record and the files of the cache.
CacheFits ==
    /\ meta # Absent => meta <= served["manifest"]
    /\ ~torn \/ meta = served["manifest"] => \A f \in RuleFiles : cached[f] = meta

\* What an undisturbed connect has copied.
CopiesFit ==
    ~disturbed /\ copying # NoCopies =>
        ~torn /\ \A f \in RuleFiles : copying[f] \in {Absent, Status}

CloudInv == CloudTypeOK /\ (\A c \in Syncers : SyncFits(c)) /\ CacheFits /\ CopiesFit

\* The catalogue names three files, and each of them once.
LEMMA CatalogIs ==
  /\ Len(Catalog) = 3 /\ RuleFiles = {Catalog[1], Catalog[2], Catalog[3]}
  /\ \A i \in 1..3 : Catalog[i] \in RuleFiles
  /\ \A i, j \in 1..3 : Catalog[i] = Catalog[j] => i = j
  /\ "manifest" \notin RuleFiles
<1>1. /\ Len(Catalog) = 3 /\ Catalog[1] = "iran-domains" /\ Catalog[2] = "iran-networks"
      /\ Catalog[3] = "private"
  BY DEF Catalog
<1>2. RuleFiles = {Catalog[1], Catalog[2], Catalog[3]}
  BY <1>1 DEF RuleFiles
<1> QED
  BY <1>1, <1>2

\* The types of the synchronizations.
SyncRecords == [at : {"idle", "manifest", "download"}, of : 0..MaxRemote,
                got : Seq(0..MaxRemote), published : 0..3]
LEMMA SyncTyped ==
  /\ CloudTypeOK => /\ sync \in [Syncers -> SyncRecords]
                     /\ \A c \in Syncers : Len(sync[c].got) <= 3
  /\ \A s : s \in [Syncers -> SyncRecords] =>
         s \in [Syncers -> [at : {"idle", "manifest", "download"}, of : Revisions,
                            got : Seq(Revisions), published : 0..Len(Catalog)]]
  /\ \A e \in SyncRecords :
         /\ e.at \in {"idle", "manifest", "download"} /\ e.of \in 0..MaxRemote
         /\ e.got \in Seq(0..MaxRemote) /\ Len(e.got) \in Nat /\ e.published \in 0..3
  /\ NoSync \in SyncRecords /\ NoSync.at = "idle" /\ NoSync.got = <<>> /\ NoSync.published = 0
<1>1. SyncRecords = [at : {"idle", "manifest", "download"}, of : Revisions,
                     got : Seq(Revisions), published : 0..Len(Catalog)]
  BY CatalogIs DEF SyncRecords, Revisions
<1>2. \A e \in SyncRecords :
         /\ e.at \in {"idle", "manifest", "download"} /\ e.of \in 0..MaxRemote
         /\ e.got \in Seq(0..MaxRemote) /\ Len(e.got) \in Nat /\ e.published \in 0..3
  BY DEF SyncRecords
<1>3. NoSync \in SyncRecords /\ NoSync.at = "idle" /\ NoSync.got = <<>> /\ NoSync.published = 0
  BY CloudAssumption DEF SyncRecords, NoSync
<1> QED
  BY <1>1, <1>2, <1>3, CatalogIs DEF CloudTypeOK

\* One item of the network is served as of a newer revision.
LEMMA RepublishKeeps ==
  ASSUME CloudInv, NEW f \in RuleFiles \union {"manifest"}, Republishes(f)
  PROVE  CloudInv'
<1>1. /\ served[f] < MaxRemote /\ served' = [served EXCEPT ![f] = @ + 1]
      /\ bundle' = bundle /\ cached' = cached /\ meta' = meta /\ holder' = holder /\ sync' = sync
      /\ copying' = copying /\ disturbed' = disturbed /\ torn' = torn
  BY DEF Republishes, cache, readers
<1>2. /\ MaxRemote \in Nat /\ served \in [RuleFiles \union {"manifest"} -> 0..MaxRemote] /\ meta \in 0..MaxRemote + 1
  BY CloudAssumption DEF CloudInv, CloudTypeOK, Revisions, Absent
<1>3. /\ served' \in [RuleFiles \union {"manifest"} -> 0..MaxRemote]
      /\ served["manifest"] <= served'["manifest"]
      /\ meta = served'["manifest"] => meta = served["manifest"]
  BY <1>1, <1>2 DEF CloudInv, CacheFits, Absent
<1>4. CloudTypeOK'
  BY <1>1, <1>3 DEF CloudInv, CloudTypeOK, Revisions
<1>5. ASSUME NEW c \in Syncers PROVE SyncFits(c)'
  <2>1. SyncFits(c) /\ sync[c].of \in 0..MaxRemote
    <3>1. sync[c] \in SyncRecords
      BY SyncTyped DEF CloudInv
    <3> QED
      BY <3>1, SyncTyped DEF CloudInv
  <2> QED
    BY <1>1, <1>2, <1>3, <2>1 DEF SyncFits
<1>6. CacheFits'
  BY <1>1, <1>2, <1>3 DEF CloudInv, CacheFits, Absent
<1>7. CopiesFit'
  BY <1>1 DEF CloudInv, CopiesFit, Status
<1> QED
  BY <1>4, <1>5, <1>6, <1>7 DEF CloudInv

\* A synchronization that reads, gives up or ends without publishing leaves the
\* cache alone.
LEMMA QuietSyncKeeps ==
  ASSUME CloudInv, NEW c \in Syncers,
         UNCHANGED <<served, bundle, cached, meta, copying, disturbed, torn>>,
         \E e : sync' = [sync EXCEPT ![c] = e],
         sync'[c] \in SyncRecords,
         Len(sync'[c].got) <= 3, SyncFits(c)',
         holder' \in Syncers \union {Nobody},
         \A d \in Syncers : d # c /\ holder = d => holder' = d
  PROVE  CloudInv'
<1>1. \A d \in Syncers : d # c => sync'[d] = sync[d]
  BY DEF CloudInv, CloudTypeOK
<1>2. CloudTypeOK'
  <2>1. sync' \in [Syncers -> SyncRecords]
    BY SyncTyped DEF CloudInv
  <2>2. \A d \in Syncers : Len(sync'[d].got) <= Len(Catalog)
    BY <1>1, CatalogIs DEF CloudInv, CloudTypeOK
  <2> QED
    BY <2>1, <2>2, SyncTyped DEF CloudInv, CloudTypeOK
<1>3. ASSUME NEW d \in Syncers PROVE SyncFits(d)'
  BY <1>1 DEF CloudInv, SyncFits
<1>4. CacheFits' /\ CopiesFit'
  BY DEF CloudInv, CacheFits, CopiesFit, Status
<1> QED
  BY <1>2, <1>3, <1>4 DEF CloudInv

\* A call begins, fetches the manifest, takes a file, or gives up.
LEMMA SyncReads ==
  ASSUME CloudInv, NEW c \in Syncers, Begins(c) \/ FetchManifest(c) \/ Download(c) \/ SyncFails(c)
  PROVE  CloudInv'
<1>1. UNCHANGED <<served, bundle, cached, meta, copying, disturbed, torn>>
  BY DEF Begins, FetchManifest, Download, SyncFails, network, cache, readers
<1>2. /\ MaxRemote \in Nat /\ served["manifest"] \in 0..MaxRemote /\ meta \in 0..MaxRemote + 1
      /\ served \in [RuleFiles \union {"manifest"} -> 0..MaxRemote] /\ Nobody \notin Syncers
      /\ holder \in Syncers \union {Nobody}
      /\ sync \in [Syncers -> SyncRecords]
  BY CloudAssumption, SyncTyped DEF CloudInv, CloudTypeOK, Revisions, Absent
<1>3. SyncFits(c) /\ CacheFits /\ Len(sync[c].got) <= 3
  BY CatalogIs DEF CloudInv, CloudTypeOK
<1> DEFINE typed == sync'[c] \in SyncRecords
           held == /\ holder' \in Syncers \union {Nobody}
                   /\ \A d \in Syncers : d # c /\ holder = d => holder' = d
<1>4. CASE Begins(c)
  <2>1. /\ sync[c].at = "idle" /\ sync' = [sync EXCEPT ![c].at = "manifest"] /\ holder' = holder
    BY <1>4 DEF Begins
  <2>2. sync'[c] = [sync[c] EXCEPT !.at = "manifest"] /\ \E e : sync' = [sync EXCEPT ![c] = e]
    BY <1>2, <2>1
  <2>3. /\ typed /\ sync'[c].at = "manifest" /\ sync'[c].got = <<>> /\ sync'[c].published = 0
    BY <1>2, <1>3, <2>1, <2>2 DEF SyncFits, SyncRecords
  <2>4. SyncFits(c)' /\ Len(sync'[c].got) <= 3
    BY <2>3 DEF SyncFits
  <2> QED
    BY <1>1, <1>2, <2>1, <2>2, <2>3, <2>4, QuietSyncKeeps
<1>5. CASE FetchManifest(c)
  <2>1. /\ holder = Nobody /\ holder' = c
        /\ sync' = [sync EXCEPT ![c] = [NoSync EXCEPT !.at = "download", !.of = served["manifest"]]]
    BY <1>5 DEF FetchManifest, TakesLock
  <2>2. sync'[c] = [at |-> "download", of |-> served["manifest"], got |-> <<>>, published |-> 0]
    BY <1>2, <2>1 DEF NoSync
  <2>3. /\ typed /\ sync'[c].at = "download" /\ sync'[c].got = <<>> /\ sync'[c].published = 0
        /\ sync'[c].of = served["manifest"] /\ Len(sync'[c].got) <= 3
    BY <1>2, <2>2 DEF SyncRecords
  <2>4. SyncFits(c)'
    BY <1>1, <1>2, <1>3, <2>1, <2>3 DEF SyncFits, CacheFits
  <2>5. held /\ \E e : sync' = [sync EXCEPT ![c] = e]
    BY <1>2, <2>1
  <2> QED
    BY <1>1, <2>3, <2>4, <2>5, QuietSyncKeeps
<1>6. CASE Download(c)
  <2> DEFINE next == served[NextFile(c)]
  <2>1. /\ sync[c].at = "download" /\ Len(sync[c].got) < 3 /\ next = sync[c].of
        /\ sync' = [sync EXCEPT ![c].got = Append(@, next)] /\ holder' = holder
    BY <1>6, CatalogIs DEF Download
  <2>2. sync'[c] = [sync[c] EXCEPT !.got = Append(sync[c].got, next)] /\ \E e : sync' = [sync EXCEPT ![c] = e]
    BY <1>2, <2>1
  <2> HIDE DEF next
  <2>3. next \in 0..MaxRemote
    <3>1. sync[c].of \in 0..MaxRemote
      BY <1>2, SyncTyped
    <3> QED
      BY <2>1, <3>1
  <2>4. /\ sync'[c].at = "download" /\ sync'[c].of = sync[c].of
        /\ sync'[c].got = Append(sync[c].got, next) /\ sync'[c].published = sync[c].published
    BY <1>2, <2>1, <2>2 DEF SyncRecords
  <2>5. /\ Append(sync[c].got, next) \in Seq(0..MaxRemote)
        /\ Len(Append(sync[c].got, next)) = Len(sync[c].got) + 1
        /\ \A i \in 1..Len(sync[c].got) + 1 :
              Append(sync[c].got, next)[i] = IF i = Len(sync[c].got) + 1 THEN next ELSE sync[c].got[i]
        /\ Len(sync[c].got) \in Nat
    <3>1. sync[c].got \in Seq(0..MaxRemote)
      BY <1>2, SyncTyped
    <3> QED
      BY <2>3, <3>1
  <2>6. typed
    BY <1>2, <2>2, <2>5 DEF SyncRecords
  <2>7. sync[c].published = 0
    <3>1. sync[c].published \in 0..3
      BY <1>2, SyncTyped
    <3>2. sync[c].published > 0 => Len(sync[c].got) = 3
      BY <1>3, CatalogIs DEF SyncFits
    <3>3. Len(sync[c].got) < 3
      BY <2>1
    <3> QED
      BY <3>1, <3>2, <3>3
  <2>8. SyncFits(c)'
    BY <1>1, <1>3, <2>1, <2>4, <2>5, <2>7 DEF SyncFits
  <2>9. Len(sync'[c].got) <= 3
    BY <2>1, <2>4, <2>5
  <2> QED
    BY <1>1, <1>2, <2>1, <2>2, <2>6, <2>8, <2>9, QuietSyncKeeps
<1>7. CASE SyncFails(c)
  <2>1. sync' = [sync EXCEPT ![c] = NoSync] /\ holder' = IF holder = c THEN Nobody ELSE holder
    BY <1>7 DEF SyncFails, SyncReturns
  <2>2. sync'[c] = NoSync
    BY <1>2, <2>1
  <2>3. /\ typed /\ sync'[c].at = "idle" /\ sync'[c].got = <<>> /\ sync'[c].published = 0
        /\ Len(sync'[c].got) <= 3
    BY <2>2, SyncTyped
  <2>4. SyncFits(c)'
    BY <2>3 DEF SyncFits
  <2>5. held /\ \E e : sync' = [sync EXCEPT ![c] = e]
    BY <1>2, <2>1
  <2> QED
    BY <1>1, <2>3, <2>4, <2>5, QuietSyncKeeps
<1> QED
  BY <1>4, <1>5, <1>6, <1>7

\* A file of the revision that is brought replaces the one in the cache.
LEMMA PublishFileKeeps == ASSUME CloudInv, NEW c \in Syncers, PublishFile(c) PROVE CloudInv'
<1> DEFINE i == sync[c].published + 1
<1>1. /\ Len(sync[c].got) = 3 /\ sync[c].published < 3
      /\ sync' = [sync EXCEPT ![c].published = @ + 1]
      /\ cached' = [cached EXCEPT ![Catalog[i]] = sync[c].got[i]]
      /\ torn' = TRUE /\ disturbed' = TRUE
      /\ served' = served /\ bundle' = bundle /\ meta' = meta /\ holder' = holder /\ copying' = copying
  BY CatalogIs DEF PublishFile, network
<1>2. /\ MaxRemote \in Nat /\ served["manifest"] \in 0..MaxRemote /\ meta \in 0..MaxRemote + 1
      /\ served \in [RuleFiles \union {"manifest"} -> 0..MaxRemote]
      /\ cached \in [RuleFiles -> 0..MaxRemote + 1]
      /\ sync \in [Syncers -> SyncRecords]
  BY CloudAssumption, SyncTyped DEF CloudInv, CloudTypeOK, Revisions, Absent
<1>3. SyncFits(c) /\ CacheFits
  BY DEF CloudInv
<1>a. /\ sync[c] \in SyncRecords /\ sync[c].published \in 0..3 /\ sync[c].of \in 0..MaxRemote
      /\ sync[c].at \in {"idle", "manifest", "download"}
  BY <1>2, SyncTyped
<1>4. /\ i \in 1..3 /\ Catalog[i] \in RuleFiles /\ sync[c].got[i] = sync[c].of
      /\ sync[c].at = "download" /\ holder = c
  <2>1. i \in 1..3
    BY <1>1, <1>a
  <2>2. sync[c].got # <<>>
    BY <1>1
  <2> QED
    BY <1>1, <1>3, <2>1, <2>2, CatalogIs DEF SyncFits
<1>5. /\ sync'[c] = [sync[c] EXCEPT !.published = i]
      /\ \A d \in Syncers : d # c => sync'[d] = sync[d]
  BY <1>1, <1>2
<1>6. /\ sync'[c].at = "download" /\ sync'[c].of = sync[c].of /\ sync'[c].got = sync[c].got
      /\ sync'[c].published = i
  BY <1>4, <1>5, <1>a DEF SyncRecords
<1>7. \A f \in RuleFiles : cached'[f] = IF f = Catalog[i] THEN sync[c].of ELSE cached[f]
  BY <1>1, <1>2, <1>4
<1>8. CloudTypeOK'
  <2>1. cached' \in [RuleFiles -> 0..Absent]
    BY <1>1, <1>2, <1>4, <1>a DEF Absent
  <2>2. sync' \in [Syncers -> SyncRecords]
    <3>1. sync'[c] \in SyncRecords
      BY <1>4, <1>5, <1>a DEF SyncRecords
    <3> QED
      BY <1>1, <1>2, <3>1
  <2>3. \A d \in Syncers : Len(sync'[d].got) <= Len(Catalog)
    BY <1>1, <1>5, <1>6, CatalogIs DEF CloudInv, CloudTypeOK
  <2>4. torn' \in BOOLEAN /\ disturbed' \in BOOLEAN
    BY <1>1
  <2> QED
    BY <1>1, <2>1, <2>2, <2>3, <2>4, SyncTyped DEF CloudInv, CloudTypeOK
<1>9. ASSUME NEW d \in Syncers PROVE SyncFits(d)'
  <2>1. CASE d = c
    <3>1. ASSUME NEW j \in 1..i PROVE cached'[Catalog[j]] = sync[c].of
      <4>1. j \in 1..3 /\ Catalog[j] \in RuleFiles /\ (j = i \/ j \in 1..sync[c].published)
        BY <1>4, <1>a, CatalogIs
      <4> QED
        BY <1>3, <1>7, <4>1 DEF SyncFits
    <3>2. i > 0 /\ i \in 1..3
      BY <1>4
    <3> HIDE DEF i
    <3> QED
      BY <1>1, <1>3, <1>4, <1>6, <2>1, <3>1, <3>2, CatalogIs DEF SyncFits
  <2>2. CASE d # c
    <3>1. SyncFits(d) /\ sync'[d] = sync[d] /\ sync[d].at # "download"
      BY <1>4, <1>5, <2>2 DEF CloudInv, SyncFits
    <3> QED
      BY <3>1 DEF SyncFits
  <2> QED
    BY <2>1, <2>2
<1>10. CacheFits'
  <2>1. meta = served["manifest"] => sync[c].of = meta
    BY <1>2, <1>3, <1>4, <1>a DEF SyncFits, Absent
  <2> QED
    BY <1>1, <1>3, <1>7, <2>1 DEF CacheFits
<1>11. CopiesFit'
  BY <1>1 DEF CopiesFit
<1> QED
  BY <1>8, <1>9, <1>10, <1>11 DEF CloudInv

\* The record is written when every file is of the revision it names.
LEMMA PublishMetaKeeps == ASSUME CloudInv, NEW c \in Syncers, PublishMeta(c) PROVE CloudInv'
<1>1. /\ sync[c].published = 3 /\ meta' = sync[c].of /\ torn' = FALSE
      /\ sync' = [sync EXCEPT ![c] = NoSync] /\ holder' = IF holder = c THEN Nobody ELSE holder
      /\ served' = served /\ bundle' = bundle /\ cached' = cached /\ copying' = copying
      /\ disturbed' = disturbed
  BY CatalogIs DEF PublishMeta, SyncReturns, network, readers
<1>2. /\ MaxRemote \in Nat /\ served["manifest"] \in 0..MaxRemote
      /\ holder \in Syncers \union {Nobody} /\ Nobody \notin Syncers
      /\ sync \in [Syncers -> SyncRecords]
  BY CloudAssumption, SyncTyped DEF CloudInv, CloudTypeOK, Revisions
<1>3. SyncFits(c) /\ CacheFits
  BY DEF CloudInv
<1>4. /\ sync[c].at = "download" /\ holder = c /\ torn /\ sync[c].of <= served["manifest"]
      /\ sync[c].of \in 0..MaxRemote
      /\ \A f \in RuleFiles : cached[f] = sync[c].of
  <2>1. sync[c].of \in 0..MaxRemote /\ sync[c].published > 0
    BY <1>1, <1>2, SyncTyped
  <2> QED
    BY <1>1, <1>3, <2>1, CatalogIs DEF SyncFits
<1>5. sync'[c] = NoSync /\ \A d \in Syncers : d # c => sync'[d] = sync[d]
  BY <1>1, <1>2
<1>6. CloudTypeOK'
  <2>1. sync' \in [Syncers -> SyncRecords]
    BY <1>1, <1>2, SyncTyped
  <2>2. Len(NoSync.got) = 0
    BY SyncTyped
  <2>3. \A d \in Syncers : Len(sync'[d].got) <= Len(Catalog)
    BY <1>5, <2>2, CatalogIs DEF CloudInv, CloudTypeOK
  <2>4. meta' \in 0..Absent /\ holder' \in Syncers \union {Nobody} /\ torn' \in BOOLEAN
    <3>1. meta' \in 0..Absent
      BY <1>1, <1>2, <1>4 DEF Absent
    <3>2. holder' \in Syncers \union {Nobody}
      BY <1>1, <1>2
    <3>3. torn' \in BOOLEAN
      BY <1>1
    <3> QED
      BY <3>1, <3>2, <3>3
  <2> QED
    BY <1>1, <2>1, <2>3, <2>4, SyncTyped DEF CloudInv, CloudTypeOK
<1>7. ASSUME NEW d \in Syncers PROVE SyncFits(d)'
  <2>1. CASE d = c
    BY <1>5, <2>1, SyncTyped DEF SyncFits
  <2>2. CASE d # c
    <3>1. /\ sync'[d] = sync[d] /\ sync[d].at # "download" /\ sync[d].got = <<>>
          /\ sync[d].published = 0
      BY <1>4, <1>5, <2>2 DEF CloudInv, SyncFits
    <3> QED
      BY <3>1 DEF SyncFits
  <2> QED
    BY <2>1, <2>2
<1>8. CacheFits'
  BY <1>1, <1>4 DEF CacheFits
<1>9. CopiesFit'
  BY <1>1, <1>4 DEF CloudInv, CopiesFit
<1> QED
  BY <1>6, <1>7, <1>8, <1>9 DEF CloudInv

\* An application that ends leaves the cache as it is.
LEMMA RestartKeeps == ASSUME CloudInv, AppRestarts PROVE CloudInv'
<1>1. /\ sync' = [c \in Syncers |-> NoSync] /\ holder' = Nobody /\ copying' = NoCopies
      /\ disturbed' = FALSE /\ served' = served /\ cached' = cached /\ meta' = meta /\ torn' = torn
      /\ bundle' \in bundle..served["manifest"]
  BY DEF AppRestarts, network, cache
<1>2. MaxRemote \in Nat /\ bundle \in 0..MaxRemote /\ served["manifest"] \in 0..MaxRemote
  BY CloudAssumption DEF CloudInv, CloudTypeOK, Revisions
<1>3. CloudTypeOK'
  <2>1. bundle' \in Revisions
    BY <1>1, <1>2 DEF Revisions
  <2>2. sync' \in [Syncers -> SyncRecords] /\ \A c \in Syncers : Len(sync'[c].got) <= Len(Catalog)
    BY <1>1, SyncTyped, CatalogIs
  <2>3. copying' \in [RuleFiles -> 0..Absent]
    BY <1>1, <1>2 DEF NoCopies, Absent
  <2>4. disturbed' \in BOOLEAN
    BY <1>1
  <2> QED
    BY <1>1, <2>1, <2>2, <2>3, <2>4, SyncTyped DEF CloudInv, CloudTypeOK
<1>4. ASSUME NEW c \in Syncers PROVE SyncFits(c)'
  BY <1>1, SyncTyped DEF SyncFits
<1>5. CacheFits'
  BY <1>1 DEF CloudInv, CacheFits
<1>6. CopiesFit'
  BY <1>1 DEF CopiesFit
<1> QED
  BY <1>3, <1>4, <1>5, <1>6 DEF CloudInv

\* A connect copies what the window shows, unless a publication is in its way.
LEMMA ReadersKeep ==
  ASSUME CloudInv, CopyEnds \/ \E f \in RuleFiles : CopyRule(f)
  PROVE  CloudInv'
<1>1. /\ served' = served /\ bundle' = bundle /\ cached' = cached /\ meta' = meta
      /\ holder' = holder /\ sync' = sync /\ torn' = torn
  BY DEF CopyEnds, CopyRule, network, cache
<1>2. /\ MaxRemote \in Nat /\ bundle \in 0..MaxRemote /\ meta \in 0..MaxRemote + 1
      /\ cached \in [RuleFiles -> 0..MaxRemote + 1] /\ copying \in [RuleFiles -> 0..MaxRemote + 1]
      /\ torn \in BOOLEAN /\ disturbed \in BOOLEAN
  BY CloudAssumption DEF CloudInv, CloudTypeOK, Revisions, Absent
<1>3. (\A c \in Syncers : SyncFits(c)') /\ CacheFits'
  BY <1>1 DEF CloudInv, SyncFits, CacheFits
<1>4. Status' = Status
  BY <1>1 DEF Status
<1>5. CASE CopyEnds
  <2>1. copying' = NoCopies /\ disturbed' = disturbed
    BY <1>5 DEF CopyEnds
  <2>2. copying' \in [RuleFiles -> 0..Absent]
    BY <1>2, <2>1 DEF NoCopies, Absent
  <2>3. CloudTypeOK' /\ CopiesFit'
    BY <1>1, <2>1, <2>2 DEF CloudInv, CloudTypeOK, CopiesFit
  <2> QED
    BY <1>3, <2>3 DEF CloudInv
<1>6. ASSUME NEW f \in RuleFiles, CopyRule(f) PROVE CloudInv'
  <2>1. /\ copying' = [copying EXCEPT ![f] = Resolve(f)]
        /\ disturbed' = IF copying = NoCopies THEN torn ELSE disturbed
    BY <1>6 DEF CopyRule
  <2>2. Resolve(f) \in 0..MaxRemote
    BY <1>2 DEF Resolve, Absent
  <2>3. CloudTypeOK'
    <3>1. copying' \in [RuleFiles -> 0..Absent]
      BY <1>2, <2>1, <2>2 DEF Absent
    <3>2. disturbed' \in BOOLEAN
      BY <1>2, <2>1
    <3> QED
      BY <1>1, <3>1, <3>2 DEF CloudInv, CloudTypeOK
  <2>4. ASSUME ~disturbed'
        PROVE  ~torn /\ \A g \in RuleFiles : copying'[g] \in {Absent, Status}
    <3>1. ~torn
      BY <2>1, <2>4 DEF CloudInv, CopiesFit
    <3>2. \A g \in RuleFiles : cached[g] = meta
      BY <3>1 DEF CloudInv, CacheFits
    <3>3. Resolve(f) = Status
      BY <3>2 DEF Resolve, Status
    <3>4. \A g \in RuleFiles : copying[g] \in {Absent, Status}
      BY <2>1, <2>4 DEF CloudInv, CopiesFit, NoCopies
    <3> QED
      BY <1>2, <2>1, <3>1, <3>3, <3>4
  <2>5. CopiesFit'
    BY <1>1, <1>4, <2>4 DEF CopiesFit
  <2> QED
    BY <1>3, <2>3, <2>5 DEF CloudInv
<1> QED
  BY <1>5, <1>6

\* Every step of the network, the calls, the readers and the application.
LEMMA CloudStep == CloudInv /\ [CloudNext]_cloudVars => CloudInv'
<1> SUFFICES ASSUME CloudInv, [CloudNext]_cloudVars PROVE CloudInv'
  OBVIOUS
<1>1. ASSUME NEW c \in Syncers, SyncStep(c) PROVE CloudInv'
  BY <1>1, SyncReads, PublishFileKeeps, PublishMetaKeeps DEF SyncStep
<1>2. CASE UNCHANGED cloudVars
  <2>1. /\ served' = served /\ bundle' = bundle /\ cached' = cached /\ meta' = meta
        /\ holder' = holder /\ sync' = sync /\ copying' = copying /\ torn' = torn
        /\ disturbed' = disturbed
    BY <1>2 DEF cloudVars
  <2> QED
    BY <2>1 DEF CloudInv, CloudTypeOK, SyncFits, CacheFits, CopiesFit, Status
<1> QED
  BY <1>1, <1>2, RepublishKeeps, RestartKeeps, ReadersKeep DEF CloudNext

\* Whatever the network serves, however calls overlap, fail or are cut off by the end
\* of the application: a cache that is not one whole revision is offered again, and an
\* undisturbed connect uses one whole revision, the one the window shows.
THEOREM CloudInvariantHolds == CloudSpec => []CloudInvariant
<1>1. CloudInit => CloudInv
  <2> SUFFICES ASSUME CloudInit PROVE CloudInv
    OBVIOUS
  <2>1. MaxRemote \in Nat /\ Absent = MaxRemote + 1 /\ NoCopies \in [RuleFiles -> 0..Absent]
        /\ \A f \in RuleFiles : NoCopies[f] = Absent
    BY CloudAssumption DEF NoCopies, Absent
  <2>2. sync \in [Syncers -> SyncRecords] /\ \A c \in Syncers : Len(sync[c].got) <= Len(Catalog)
    BY SyncTyped, CatalogIs DEF CloudInit
  <2>3. CloudTypeOK
    <3>1. torn \in BOOLEAN /\ disturbed \in BOOLEAN
      BY DEF CloudInit
    <3>2. served \in [RuleFiles \union {"manifest"} -> Revisions] /\ bundle \in Revisions /\ meta \in 0..Absent
      BY <2>1 DEF CloudInit, Revisions
    <3> QED
      BY <2>1, <2>2, <3>1, <3>2, SyncTyped DEF CloudInit, CloudTypeOK
  <2>4. ASSUME NEW c \in Syncers PROVE SyncFits(c)
    <3>1. sync[c].at = "idle" /\ sync[c].got = <<>> /\ sync[c].published = 0
      BY SyncTyped DEF CloudInit
    <3> QED
      BY <3>1 DEF SyncFits
  <2>5. CacheFits /\ CopiesFit
    BY <2>1 DEF CloudInit, CacheFits, CopiesFit
  <2> QED
    BY <2>3, <2>4, <2>5 DEF CloudInv
<1>2. CloudInv => CloudInvariant
  <2> SUFFICES ASSUME CloudInv PROVE MixIsOffered /\ ShownIsUsed
    BY DEF CloudInv, CloudInvariant
  <2>1. MixIsOffered
    BY DEF CloudInv, CacheFits, MixIsOffered, RulesAvailable
  <2>2. ShownIsUsed
    BY CatalogIs DEF CloudInv, CopiesFit, ShownIsUsed, NoCopies
  <2> QED
    BY <2>1, <2>2
<1> QED
  BY <1>1, <1>2, CloudStep, PTL DEF CloudSpec

-----------------------------------------------------------------------------
(* The helper's protocol.                                                  *)

\* The desktop sends a command once, and believes only a reply to it.
RequestFits(r) ==
    /\ request[r].at \in {"idle", "connect", "hello", "hearHello", "command"} => ~request[r].sent
    /\ toHelper[r] = "command" => request[r].sent /\ begun[r] = 0
    /\ ~request[r].sent => begun[r] = 0
    /\ request[r].result \in {"ok", "error"} => finished[r] = 1

\* A helper of the desktop's protocol executes a command once, and only then
\* replies to it.
ServingFits(r) ==
    /\ begun[r] <= 1 /\ finished[r] <= begun[r]
    /\ serving[r] = "execute" => begun[r] = 1 /\ finished[r] = 0
    /\ serving[r] \in {"ok", "error"} \/ toDesktop[r] \in {"ok", "error"} => finished[r] = 1
    /\ serving[r] \in {"command", "execute", "ok", "error"} => version = "same"
    /\ helper = "down" => serving[r] \in {"none", "ended"}

Executing == {r \in Requests : serving[r] = "execute"}

ProtocolInv ==
    /\ ProtocolTypeOK /\ \A r \in Requests : RequestFits(r) /\ ServingFits(r)
    /\ inFlight = Cardinality(Executing)

RequestRecords == [at : {"idle", "connect", "hello", "hearHello", "command", "hearReply", "ended"},
                   result : {"none", "ok", "error", "failed"}, sent : BOOLEAN]

DesktopPlaces == {"idle", "connect", "hello", "hearHello", "command", "hearReply", "ended"}

\* Going on changes only the request's own place.
LEMMA RequestGoes ==
  ASSUME ProtocolTypeOK, NEW r \in Requests, NEW place \in DesktopPlaces,
         request' = [request EXCEPT ![r].at = place]
  PROVE  /\ request' \in [Requests -> RequestRecords]
         /\ request'[r].at = place /\ request'[r].result = request[r].result
         /\ request'[r].sent = request[r].sent
         /\ \A q \in Requests : q # r => request'[q] = request[q]
<1>1. request \in [Requests -> RequestRecords]
  BY DEF ProtocolTypeOK, RequestRecords
<1>2. request'[r] = [request[r] EXCEPT !.at = place]
  BY <1>1
<1>3. /\ request'[r] \in RequestRecords
      /\ request'[r].at = place /\ request'[r].result = request[r].result
      /\ request'[r].sent = request[r].sent
  BY <1>1, <1>2 DEF RequestRecords, DesktopPlaces
<1> QED
  BY <1>1, <1>3

\* Returning changes its result too.
LEMMA RequestReturns ==
  ASSUME ProtocolTypeOK, NEW r \in Requests, NEW result \in {"ok", "error", "failed"},
         Returns(r, result)
  PROVE  /\ request' \in [Requests -> RequestRecords]
         /\ request'[r].at = "ended" /\ request'[r].result = result
         /\ request'[r].sent = request[r].sent
         /\ \A q \in Requests : q # r => request'[q] = request[q]
<1>1. request \in [Requests -> RequestRecords]
  BY DEF ProtocolTypeOK, RequestRecords
<1>2. request'[r] = [request[r] EXCEPT !.at = "ended", !.result = result]
  BY <1>1 DEF Returns
<1>3. /\ request'[r] \in RequestRecords
      /\ request'[r].at = "ended" /\ request'[r].result = result
      /\ request'[r].sent = request[r].sent
  BY <1>1, <1>2 DEF RequestRecords
<1> QED
  BY <1>1, <1>3 DEF Returns

\* Sending marks the request as sent.
LEMMA RequestSends ==
  ASSUME ProtocolTypeOK, NEW r \in Requests,
         request' = [request EXCEPT ![r].at = "hearReply", ![r].sent = TRUE]
  PROVE  /\ request' \in [Requests -> RequestRecords]
         /\ request'[r].at = "hearReply" /\ request'[r].result = request[r].result
         /\ request'[r].sent
         /\ \A q \in Requests : q # r => request'[q] = request[q]
<1>1. request \in [Requests -> RequestRecords]
  BY DEF ProtocolTypeOK, RequestRecords
<1>2. request'[r] = [request[r] EXCEPT !.at = "hearReply", !.sent = TRUE]
  BY <1>1
<1>3. \A e \in RequestRecords : [e EXCEPT !.at = "hearReply"] \in RequestRecords
  BY DEF RequestRecords
<1>4. \A e \in RequestRecords, b \in BOOLEAN : [e EXCEPT !.sent = b] \in RequestRecords
  BY DEF RequestRecords
<1>5. request'[r] = [[request[r] EXCEPT !.at = "hearReply"] EXCEPT !.sent = TRUE]
  BY <1>2
<1>6. request'[r] \in RequestRecords
  BY <1>1, <1>3, <1>4, <1>5
<1>7. /\ request'[r].at = "hearReply" /\ request'[r].result = request[r].result
      /\ request'[r].sent = TRUE
  BY <1>1, <1>2 DEF RequestRecords
<1> QED
  BY <1>1, <1>6, <1>7

\* A step of one connection that neither begins nor ends a command.
LEMMA OneConnection ==
  ASSUME ProtocolInv, NEW r \in Requests,
         UNCHANGED <<machine, begun, finished>>,
         request' \in [Requests -> RequestRecords],
         toHelper' \in [Requests -> {"none", "hello", "command"}],
         toDesktop' \in [Requests -> {"none", "hello", "ok", "error"}],
         serving' \in [Requests -> {"none", "waiting", "hello", "command", "execute", "ok", "error", "ended"}],
         \A q \in Requests : q # r => /\ request'[q] = request[q] /\ toHelper'[q] = toHelper[q]
                                       /\ toDesktop'[q] = toDesktop[q] /\ serving'[q] = serving[q],
         inFlight' = inFlight, serving'[r] = "execute" <=> serving[r] = "execute",
         RequestFits(r)', ServingFits(r)'
  PROVE  ProtocolInv'
<1>1. ProtocolTypeOK'
  BY DEF ProtocolInv, ProtocolTypeOK, machine, RequestRecords
<1>2. ASSUME NEW q \in Requests PROVE RequestFits(q)' /\ ServingFits(q)'
  <2>1. CASE q = r
    BY <2>1
  <2>2. CASE q # r
    BY <2>2 DEF ProtocolInv, RequestFits, ServingFits, machine
  <2> QED
    BY <2>1, <2>2
<1>3. Executing' = Executing
  BY DEF Executing
<1> QED
  BY <1>1, <1>2, <1>3 DEF ProtocolInv

\* The desktop's side.
LEMMA DesktopKeepsIt == ASSUME ProtocolInv, NEW r \in Requests, DesktopStep(r) PROVE ProtocolInv'
<1>1. /\ ProtocolTypeOK /\ RequestFits(r) /\ ServingFits(r) /\ request \in [Requests -> RequestRecords]
      /\ toHelper \in [Requests -> {"none", "hello", "command"}]
      /\ toDesktop \in [Requests -> {"none", "hello", "ok", "error"}]
      /\ serving \in [Requests -> {"none", "waiting", "hello", "command", "execute", "ok", "error", "ended"}]
  BY DEF ProtocolInv, ProtocolTypeOK, RequestRecords
<1>2. UNCHANGED <<machine, begun, finished, inFlight>>
  BY DEF DesktopStep, BeginRequest, OpenConnection, ConnectFails, SendHello, SendCommand, HearHello,
         HearReply, Disconnected, TimesOut, DesktopKeeps, effects
<1>a. /\ transport' = transport /\ authorized' = authorized /\ helper' = helper /\ version' = version
      /\ begun' = begun /\ finished' = finished /\ inFlight' = inFlight
  BY <1>2 DEF machine
<1> USE DEF DesktopPlaces
<1>3. CASE OpenConnection(r)
  <2>1. /\ request[r].at = "connect" /\ helper = "up"
        /\ request' = [request EXCEPT ![r].at = "hello"]
        /\ serving' = [serving EXCEPT ![r] = "waiting"]
        /\ toHelper' = toHelper /\ toDesktop' = toDesktop
    BY <1>3 DEF OpenConnection, Goes
  <2>2. /\ request' \in [Requests -> RequestRecords]
        /\ request'[r].at = "hello" /\ request'[r].result = request[r].result
        /\ request'[r].sent = request[r].sent
        /\ \A q \in Requests : q # r => request'[q] = request[q]
    BY <1>1, <2>1, RequestGoes
  <2>3. begun[r] = 0
    BY <1>1, <2>1 DEF RequestFits
  <2>4. serving[r] # "execute"
    BY <1>1, <2>3 DEF ServingFits
  <2>5. /\ serving' \in [Requests -> {"none", "waiting", "hello", "command", "execute", "ok", "error", "ended"}]
        /\ serving'[r] = "waiting" /\ \A q \in Requests : q # r => serving'[q] = serving[q]
    BY <1>1, <2>1
  <2>6. RequestFits(r)' /\ ServingFits(r)'
    BY <1>1, <1>a, <2>1, <2>2, <2>5 DEF RequestFits, ServingFits
  <2> QED
    BY <1>1, <1>2, <1>a, <2>1, <2>2, <2>4, <2>5, <2>6, OneConnection
<1>4. ASSUME NEW from \in DesktopPlaces, NEW place \in DesktopPlaces,
             request[r].at = from, Goes(r, place), serving' = serving,
             place = "ended" \/ from \in {"idle", "connect", "hello", "hearHello", "command"},
             \/ toHelper' = toHelper
             \/ \E frame \in {"none", "hello"} : toHelper' = [toHelper EXCEPT ![r] = frame],
             toDesktop' = toDesktop \/ toDesktop' = [toDesktop EXCEPT ![r] = "none"]
      PROVE  ProtocolInv'
  <2>2. /\ request' \in [Requests -> RequestRecords]
        /\ request'[r].at = place /\ request'[r].result = request[r].result
        /\ request'[r].sent = request[r].sent
        /\ \A q \in Requests : q # r => request'[q] = request[q]
    BY <1>1, <1>4, RequestGoes DEF Goes
  <2>3. /\ toHelper' \in [Requests -> {"none", "hello", "command"}]
        /\ \A q \in Requests : q # r => toHelper'[q] = toHelper[q]
        /\ toHelper'[r] = "command" => toHelper[r] = "command"
    BY <1>1, <1>4
  <2>4. /\ toDesktop' \in [Requests -> {"none", "hello", "ok", "error"}]
        /\ \A q \in Requests : q # r => toDesktop'[q] = toDesktop[q]
        /\ toDesktop'[r] \in {"ok", "error"} => toDesktop[r] \in {"ok", "error"}
    BY <1>1, <1>4
  <2>5. RequestFits(r)'
    BY <1>1, <1>a, <1>4, <2>2, <2>3 DEF RequestFits
  <2>6. ServingFits(r)'
    BY <1>1, <1>a, <1>4, <2>4 DEF ServingFits
  <2> QED
    BY <1>1, <1>2, <1>a, <1>4, <2>2, <2>3, <2>4, <2>5, <2>6, OneConnection
<1>5. ASSUME NEW result \in {"ok", "error", "failed"}, Returns(r, result), serving' = serving,
             toHelper' = toHelper,
             toDesktop' = toDesktop \/ toDesktop' = [toDesktop EXCEPT ![r] = "none"],
             result \in {"ok", "error"} => toDesktop[r] \in {"ok", "error"}
      PROVE  ProtocolInv'
  <2>2. /\ request' \in [Requests -> RequestRecords]
        /\ request'[r].at = "ended" /\ request'[r].result = result
        /\ request'[r].sent = request[r].sent
        /\ \A q \in Requests : q # r => request'[q] = request[q]
    BY <1>1, <1>5, RequestReturns
  <2>4. /\ toDesktop' \in [Requests -> {"none", "hello", "ok", "error"}]
        /\ \A q \in Requests : q # r => toDesktop'[q] = toDesktop[q]
        /\ toDesktop'[r] \in {"ok", "error"} => toDesktop[r] \in {"ok", "error"}
    BY <1>1, <1>5
  <2>5. RequestFits(r)'
    BY <1>1, <1>a, <1>5, <2>2 DEF RequestFits, ServingFits
  <2>6. ServingFits(r)'
    BY <1>1, <1>a, <1>5, <2>4 DEF ServingFits
  <2> QED
    BY <1>1, <1>2, <1>a, <1>5, <2>2, <2>4, <2>5, <2>6, OneConnection
<1>6. CASE SendCommand(r)
  <2>1. /\ request[r].at = "command" /\ serving' = serving /\ toDesktop' = toDesktop
        /\ request' = [request EXCEPT ![r].at = "hearReply", ![r].sent = TRUE]
        /\ WriteFrame(r, "command")
    BY <1>6 DEF SendCommand, DesktopKeeps
  <2>2. /\ request' \in [Requests -> RequestRecords]
        /\ request'[r].at = "hearReply" /\ request'[r].result = request[r].result
        /\ request'[r].sent
        /\ \A q \in Requests : q # r => request'[q] = request[q]
    BY <1>1, <2>1, RequestSends
  <2>3. /\ toHelper' \in [Requests -> {"none", "hello", "command"}]
        /\ \A q \in Requests : q # r => toHelper'[q] = toHelper[q]
    BY <1>1, <2>1 DEF WriteFrame
  <2>4. begun[r] = 0
    BY <1>1, <2>1 DEF RequestFits
  <2>5. RequestFits(r)' /\ ServingFits(r)'
    BY <1>1, <1>a, <2>1, <2>2, <2>4 DEF RequestFits, ServingFits
  <2> QED
    BY <1>1, <1>2, <1>a, <2>1, <2>2, <2>3, <2>5, OneConnection
<1>7. CASE BeginRequest(r)
  BY <1>4, <1>7 DEF BeginRequest, DesktopKeeps
<1>8. CASE SendHello(r)
  <2>1. \E frame \in {"none", "hello"} : toHelper' = [toHelper EXCEPT ![r] = frame]
    BY <1>8 DEF SendHello, WriteFrame
  <2> QED
    BY <1>4, <1>8, <2>1 DEF SendHello, DesktopKeeps
<1>9. CASE HearHello(r)
  BY <1>4, <1>9 DEF HearHello, DesktopKeeps
<1>10. CASE HearReply(r)
  BY <1>5, <1>10 DEF HearReply, DesktopKeeps
<1>11. CASE ConnectFails(r) \/ Disconnected(r) \/ TimesOut(r)
  BY <1>5, <1>11 DEF ConnectFails, Disconnected, TimesOut, DesktopKeeps
<1> QED
  BY <1>3, <1>6, <1>7, <1>8, <1>9, <1>10, <1>11 DEF DesktopStep

ServingStates == {"none", "waiting", "hello", "command", "execute", "ok", "error", "ended"}

\* The helper's side, but for the execution itself.
LEMMA HelperTalks ==
  ASSUME ProtocolInv, NEW r \in Requests, Accept(r) \/ TakeHello(r) \/ StopsReading(r) \/ SendReply(r)
  PROVE  ProtocolInv'
<1>1. /\ RequestFits(r) /\ ServingFits(r) /\ request \in [Requests -> RequestRecords]
      /\ toHelper \in [Requests -> {"none", "hello", "command"}]
      /\ toDesktop \in [Requests -> {"none", "hello", "ok", "error"}]
      /\ serving \in [Requests -> {"none", "waiting", "hello", "command", "execute", "ok", "error", "ended"}]
  BY DEF ProtocolInv, ProtocolTypeOK, RequestRecords
<1>2. /\ UNCHANGED <<machine, begun, finished>> /\ inFlight' = inFlight /\ request' = request
      /\ helper' = helper /\ version' = version /\ begun' = begun /\ finished' = finished
  BY DEF Accept, TakeHello, StopsReading, SendReply, HelperKeeps, effects, machine
<1>3. /\ toHelper' \in [Requests -> {"none", "hello", "command"}]
      /\ \A q \in Requests : q # r => toHelper'[q] = toHelper[q]
      /\ toHelper'[r] \in {toHelper[r], "none"}
  BY <1>1 DEF Accept, TakeHello, StopsReading, SendReply, Takes
<1>4. /\ toDesktop' \in [Requests -> {"none", "hello", "ok", "error"}]
      /\ \A q \in Requests : q # r => toDesktop'[q] = toDesktop[q]
      /\ toDesktop'[r] \in {"ok", "error"} => toDesktop[r] \in {"ok", "error"} \/ serving[r] \in {"ok", "error"}
  <2>1. CASE SendReply(r)
    BY <1>1, <2>1 DEF SendReply
  <2>2. CASE ~SendReply(r)
    BY <1>1, <2>2 DEF Accept, TakeHello, StopsReading
  <2> QED
    BY <2>1, <2>2
<1>5. /\ serving[r] # "execute"
      /\ \E state \in {"hello", "command", "ended"} :
            /\ serving' = [serving EXCEPT ![r] = state]
            /\ state = "command" => version = "same" /\ helper # "down"
      /\ helper = "down" => serving'[r] = "ended"
  BY <1>1 DEF Accept, TakeHello, StopsReading, SendReply, Serves, ServingFits
<1>6. /\ serving' \in [Requests -> {"none", "waiting", "hello", "command", "execute", "ok", "error", "ended"}]
      /\ \A q \in Requests : q # r => serving'[q] = serving[q]
      /\ serving'[r] \in {"hello", "command", "ended"}
      /\ serving'[r] = "command" => version = "same"
  BY <1>1, <1>5
<1>7. RequestFits(r)'
  BY <1>1, <1>2, <1>3 DEF RequestFits
<1>8. ServingFits(r)'
  BY <1>1, <1>2, <1>4, <1>5, <1>6 DEF ServingFits
<1> QED
  BY <1>1, <1>2, <1>3, <1>4, <1>5, <1>6, <1>7, <1>8, OneConnection

\* The commands in flight can be counted.
LEMMA ExecutingIsFinite ==
  ASSUME ProtocolInv
  PROVE  IsFiniteSet(Executing) /\ Cardinality(Executing) \in Nat
<1>1. IsFiniteSet(Requests) /\ Executing \subseteq Requests
  BY RequestsAssumption DEF Executing
<1> QED
  BY <1>1, FS_Subset, FS_CardinalityType

\* The execution: the watch counts it from its beginning to its end.
LEMMA HelperExecutes ==
  ASSUME ProtocolInv, NEW r \in Requests, TakeCommand(r) \/ Execute(r)
  PROVE  ProtocolInv'
<1>1. /\ RequestFits(r) /\ ServingFits(r) /\ request \in [Requests -> RequestRecords]
      /\ toHelper \in [Requests -> {"none", "hello", "command"}]
      /\ serving \in [Requests -> ServingStates]
      /\ begun \in [Requests -> 0..2] /\ finished \in [Requests -> 0..2]
      /\ IsFiniteSet(Executing) /\ Cardinality(Executing) \in Nat /\ inFlight = Cardinality(Executing)
  BY ExecutingIsFinite DEF ProtocolInv, ProtocolTypeOK, RequestRecords, ServingStates
<1>2. /\ transport' = transport /\ authorized' = authorized /\ helper' = helper /\ version' = version
      /\ request' = request /\ toDesktop' = toDesktop
  BY DEF TakeCommand, Execute, HelperKeeps, machine
<1>3. CASE TakeCommand(r)
  <2>1. /\ serving[r] = "command" /\ toHelper[r] = "command" /\ finished' = finished
        /\ toHelper' = [toHelper EXCEPT ![r] = "none"] /\ serving' = [serving EXCEPT ![r] = "execute"]
        /\ inFlight' = inFlight + 1 /\ begun' = [begun EXCEPT ![r] = @ + 1]
    BY <1>3 DEF TakeCommand, Takes, Serves
  <2>2. /\ serving'[r] = "execute" /\ toHelper'[r] = "none" /\ begun[r] = 0 /\ finished[r] = 0
        /\ begun'[r] = 1 /\ request[r].sent
        /\ \A q \in Requests : q # r => /\ serving'[q] = serving[q] /\ toHelper'[q] = toHelper[q]
                                        /\ begun'[q] = begun[q]
    BY <1>1, <2>1 DEF RequestFits, ServingFits
  <2>3. Executing' = Executing \union {r} /\ r \notin Executing
    BY <2>1, <2>2 DEF Executing
  <2>4. inFlight' = Cardinality(Executing')
    BY <1>1, <2>1, <2>3, FS_AddElement
  <2>5. inFlight' \in 0..Cardinality(Requests)
    <3>1. IsFiniteSet(Requests) /\ Executing' \subseteq Requests
      BY RequestsAssumption DEF Executing
    <3>2. Cardinality(Executing') <= Cardinality(Requests) /\ IsFiniteSet(Executing')
      BY <3>1, FS_Subset
    <3>3. Cardinality(Executing') \in Nat /\ Cardinality(Requests) \in Nat
      BY <3>1, <3>2, FS_CardinalityType
    <3> QED
      BY <2>4, <3>2, <3>3
  <2>6. ProtocolTypeOK'
    <3>1. begun' \in [Requests -> 0..2] /\ serving' \in [Requests -> ServingStates]
      BY <1>1, <2>1, <2>2 DEF ServingStates
    <3>2. toHelper' \in [Requests -> {"none", "hello", "command"}]
      BY <1>1, <2>1
    <3> QED
      BY <1>1, <1>2, <2>1, <2>5, <3>1, <3>2 DEF ProtocolInv, ProtocolTypeOK, ServingStates
  <2>7. ASSUME NEW q \in Requests PROVE RequestFits(q)' /\ ServingFits(q)'
    <3>1. CASE q = r
      BY <1>1, <1>2, <2>1, <2>2, <3>1 DEF RequestFits, ServingFits
    <3>2. CASE q # r
      BY <1>2, <2>1, <2>2, <3>2 DEF ProtocolInv, RequestFits, ServingFits
    <3> QED
      BY <3>1, <3>2
  <2> QED
    BY <2>4, <2>6, <2>7 DEF ProtocolInv
<1>4. CASE Execute(r)
  <2>1. PICK answer \in {"ok", "error"} :
          /\ serving[r] = "execute" /\ toHelper' = toHelper /\ begun' = begun
          /\ serving' = [serving EXCEPT ![r] = answer]
          /\ inFlight' = inFlight - 1 /\ finished' = [finished EXCEPT ![r] = @ + 1]
    BY <1>4 DEF Execute, Serves
  <2>2. /\ serving'[r] = answer /\ begun[r] = 1 /\ finished[r] = 0 /\ finished'[r] = 1
        /\ version = "same" /\ helper # "down"
        /\ \A q \in Requests : q # r => serving'[q] = serving[q] /\ finished'[q] = finished[q]
    BY <1>1, <2>1 DEF ServingFits
  <2>3. Executing' = Executing \ {r} /\ r \in Executing
    BY <2>1, <2>2 DEF Executing
  <2>4. inFlight' = Cardinality(Executing')
    BY <1>1, <2>1, <2>3, FS_RemoveElement
  <2>5. inFlight' \in 0..Cardinality(Requests)
    <3>1. IsFiniteSet(Requests) /\ Executing' \subseteq Requests
      BY RequestsAssumption DEF Executing
    <3>2. Cardinality(Executing') <= Cardinality(Requests) /\ IsFiniteSet(Executing')
      BY <3>1, FS_Subset
    <3>3. Cardinality(Executing') \in Nat /\ Cardinality(Requests) \in Nat
      BY <3>1, <3>2, FS_CardinalityType
    <3> QED
      BY <2>4, <3>2, <3>3
  <2>6. ProtocolTypeOK'
    <3>1. finished' \in [Requests -> 0..2] /\ serving' \in [Requests -> ServingStates]
      BY <1>1, <2>1, <2>2 DEF ServingStates
    <3> QED
      BY <1>1, <1>2, <2>1, <2>5, <3>1 DEF ProtocolInv, ProtocolTypeOK, ServingStates
  <2>7. ASSUME NEW q \in Requests PROVE RequestFits(q)' /\ ServingFits(q)'
    <3>1. CASE q = r
      BY <1>1, <1>2, <2>1, <2>2, <3>1 DEF RequestFits, ServingFits
    <3>2. CASE q # r
      BY <1>2, <2>1, <2>2, <3>2 DEF ProtocolInv, RequestFits, ServingFits
    <3> QED
      BY <3>1, <3>2
  <2> QED
    BY <2>4, <2>6, <2>7 DEF ProtocolInv
<1> QED
  BY <1>3, <1>4

\* A helper that dies leaves every connection ended; the next one may be of another
\* release.
LEMMA HelperComesAndGoes == ASSUME ProtocolInv, HelperDies \/ HelperStarts PROVE ProtocolInv'
<1>1. CASE HelperDies
  <2>1. /\ helper' = "down" /\ inFlight' = 0 /\ version' = version /\ request' = request
        /\ transport' = transport /\ authorized' = authorized
        /\ toDesktop' = toDesktop /\ begun' = begun /\ finished' = finished
        /\ \A r \in Requests : toHelper'[r] = "none" /\ serving'[r] \in {"none", "ended"}
        /\ toHelper' \in [Requests -> {"none"}] /\ serving' \in [Requests -> {"none", "ended"}]
    BY <1>1 DEF HelperDies
  <2>2. Executing' = {}
    BY <2>1 DEF Executing
  <2>3. Cardinality(Executing') = 0 /\ inFlight' \in 0..Cardinality(Requests)
    BY <2>1, <2>2, FS_EmptySet, FS_CardinalityType, RequestsAssumption
  <2>4. ProtocolTypeOK'
    BY <2>1, <2>3 DEF ProtocolInv, ProtocolTypeOK
  <2>5. ASSUME NEW r \in Requests PROVE RequestFits(r)' /\ ServingFits(r)'
    BY <2>1 DEF ProtocolInv, RequestFits, ServingFits
  <2> QED
    BY <2>1, <2>3, <2>4, <2>5 DEF ProtocolInv
<1>2. CASE HelperStarts
  <2>1. /\ helper = "down" /\ helper' = "up" /\ version' \in {"same", "other"}
        /\ request' = request /\ toHelper' = toHelper /\ toDesktop' = toDesktop /\ serving' = serving
        /\ inFlight' = inFlight /\ begun' = begun /\ finished' = finished
        /\ transport' = transport /\ authorized' = authorized
    BY <1>2 DEF HelperStarts, effects
  <2>2. ASSUME NEW r \in Requests PROVE RequestFits(r)' /\ ServingFits(r)'
    BY <2>1 DEF ProtocolInv, RequestFits, ServingFits
  <2>3. ProtocolTypeOK' /\ Executing' = Executing
    BY <2>1 DEF ProtocolInv, ProtocolTypeOK, Executing
  <2> QED
    BY <2>1, <2>2, <2>3 DEF ProtocolInv
<1> QED
  BY <1>1, <1>2

\* Every step of both sides.
LEMMA ProtocolStep == ProtocolInv /\ [ProtocolNext]_protocolVars => ProtocolInv'
<1> SUFFICES ASSUME ProtocolInv, [ProtocolNext]_protocolVars PROVE ProtocolInv'
  OBVIOUS
<1>1. CASE UNCHANGED protocolVars
  BY <1>1 DEF protocolVars, ProtocolInv, ProtocolTypeOK, RequestFits, ServingFits, Executing
<1> QED
  BY <1>1, DesktopKeepsIt, HelperTalks, HelperExecutes, HelperComesAndGoes DEF ProtocolNext, HelperStep

\* Whatever a helper does, dies or is replaced by: a success means that this command
\* was executed, once, by a helper of the desktop's protocol; a command that was not
\* sent never runs, none runs twice, and the watch counts exactly those that run.
THEOREM ProtocolInvariantHolds == ProtocolSpec => []ProtocolInvariant
<1>1. ProtocolInit => ProtocolInv
  <2> SUFFICES ASSUME ProtocolInit PROVE ProtocolInv
    OBVIOUS
  <2>1. Executing = {} /\ Cardinality(Requests) \in Nat
    BY FS_CardinalityType, RequestsAssumption DEF ProtocolInit, Executing
  <2>2. inFlight = Cardinality(Executing) /\ inFlight \in 0..Cardinality(Requests)
    BY <2>1, FS_EmptySet DEF ProtocolInit
  <2>3. NewRequest \in RequestRecords /\ ~NewRequest.sent /\ NewRequest.result = "none"
    BY DEF NewRequest, RequestRecords
  <2>4. request \in [Requests -> RequestRecords] /\ authorized \in BOOLEAN
    BY <2>3 DEF ProtocolInit
  <2>5. ProtocolTypeOK
    BY <2>2, <2>4 DEF ProtocolInit, ProtocolTypeOK, RequestRecords
  <2>6. ASSUME NEW r \in Requests PROVE RequestFits(r) /\ ServingFits(r)
    BY <2>3 DEF ProtocolInit, RequestFits, ServingFits
  <2> QED
    BY <2>2, <2>5, <2>6 DEF ProtocolInv
<1>2. ProtocolInv => ProtocolInvariant
  BY DEF ProtocolInv, ProtocolInvariant, ResultsAreTrue, RequestFits, ServingFits, Executing
<1> QED
  BY <1>1, <1>2, ProtocolStep, PTL DEF ProtocolSpec

-----------------------------------------------------------------------------
(* The taskbar.                                                            *)

\* What the pump may hold.
Displays == [on : Nat, at : NoGap..BarWidth, visible : BOOLEAN, heard : BOOLEAN]
PumpStates == [up : BOOLEAN, display : Displays, hooked : 0..MaxChanges + 1, pending : BOOLEAN,
               epoch : Nat, enabled : BOOLEAN, forced : BOOLEAN]
Answers == [epoch : Nat \union {Stop}, bar : Nat, at : NoGap..BarWidth, heard : BOOLEAN]

\* The types of all that is in flight, with the bounds of the changes.
BarShape ==
    /\ bar \in [id : 1..MaxChanges + 1, controls : Layouts] /\ changes \in 0..MaxChanges
    /\ bar.id <= changes + 1
    /\ mailbox \in [enabled : BOOLEAN, stopped : BOOLEAN] /\ event \in BOOLEAN
    /\ posted \in Seq(Messages) /\ pump \in PumpStates
    /\ asked \in Seq(Nat \union {Stop}) /\ found \in Seq(Answers)

\* No answer and no window is of a bar that is still to come, or of an epoch.
NoneAhead ==
    /\ pump.display.on <= bar.id
    /\ \A i \in 1..Len(asked) : asked[i] <= pump.epoch
    /\ \A i \in 1..Len(found) : found[i].bar <= bar.id /\ found[i].epoch <= pump.epoch

\* Hooks are those of the window's bar.
HooksFollow == pump.hooked \in {0, pump.display.on}

Reported == event \/ "layout" \in {posted[i] : i \in 1..Len(posted)}
Covers(span, at) == span[1] < at + Requested /\ at < span[2]
ClearAt(at) == \A s \in Spans(bar.controls) : ~Covers(s, at)

\* A look that was heard of is of the bar whose hooks are installed, and what it
\* saw is still so, or the report is on its way, or the pump has asked again.
AnswersFollow ==
    \A i \in 1..Len(found) :
        found[i].heard /\ found[i].bar = bar.id /\ pump.up =>
            /\ pump.hooked = bar.id
            /\ found[i].at # NoGap /\ found[i].epoch = pump.epoch => Reported \/ ClearAt(found[i].at)

\* A window whose place was heard of has its hooks.
WindowIsHeard ==
    pump.display.heard /\ pump.display.visible /\ Owns(pump) => pump.hooked = bar.id

TaskbarInv ==
    /\ BarShape /\ NoneAhead /\ HooksFollow /\ AnswersFollow /\ WindowIsHeard
    /\ CoversNothing /\ RequestIsKept /\ NothingIsLeft

-----------------------------------------------------------------------------
(* Where there is room.                                                     *)

\* A set of natural numbers that is not empty has a least element.
LEMMA NatsAreOrdered ==
    \A U \in SUBSET Nat : U # {} => \E x \in U : \A y \in U : x <= y
<1>1. IsWellFoundedOn({ss \in Nat \X Nat : ss[1] < ss[2]}, Nat)
    BY NatLessThanWellFounded DEF OpToRel
<1> SUFFICES ASSUME NEW U \in SUBSET Nat, U # {}
             PROVE  \E x \in U : \A y \in U : x <= y
    OBVIOUS
<1>2. PICK x \in U : \A y \in U : ~ (<<y, x>> \in {ss \in Nat \X Nat : ss[1] < ss[2]})
    BY <1>1, WFMin
<1>3. \A y \in U : ~(y < x)
    BY <1>2
<1> QED
    BY <1>3

\* One that is bounded has a greatest.
LEMMA BoundedHasMax ==
    ASSUME NEW n \in Nat, NEW U \in SUBSET 0..n, U # {}
    PROVE  Max(U) \in U
<1> DEFINE Mirror == {n - u : u \in U}
<1>1. Mirror \in SUBSET Nat
    OBVIOUS
<1> Mirror # {}
    OBVIOUS
<1>2. PICK m \in Mirror : \A y \in Mirror : m <= y
    BY <1>1, NatsAreOrdered
<1>3. PICK u \in U : m = n - u
    OBVIOUS
<1>4. \A y \in U : u >= y
    BY <1>2, <1>3
<1> QED
    BY <1>4 DEF Max

\* find_gap: what it returns lies in the bar, and nothing of a layout that is
\* trusted lies there.
LEMMA GapsAreInside ==
    ASSUME NEW controls \in Layouts, Trusted(controls)
    PROVE  Gaps(Spans(controls)) \in SUBSET 0..BarWidth
<1> SUFFICES ASSUME NEW g \in Gaps(Spans(controls)) PROVE g \in 0..BarWidth
    OBVIOUS
<1>1. {BarWidth, Requested, Margin} \subseteq Nat
    BY TaskbarAssumption
<1>2. g = BarWidth \/ \E s \in Spans(controls) : g = s[1]
    BY DEF Gaps
<1>3. ASSUME NEW s \in Spans(controls) PROVE s[1] \in Int /\ s[1] <= BarWidth
    <2>1. CASE s \in controls
        BY <1>1, <2>1, TaskbarAssumption DEF Trusted
    <2>2. CASE s = Weather \/ s = Notifications
        BY <1>1, <2>2, TaskbarAssumption DEF Weather, Notifications
    <2> QED
        BY <2>1, <2>2 DEF Spans
<1>4. g \in Int /\ g <= BarWidth
    BY <1>1, <1>2, <1>3
<1>5. 0 + Margin + (Requested + Margin) <= g
    BY DEF Gaps
<1> QED
    BY <1>1, <1>4, <1>5

LEMMA GapIsInside ==
    ASSUME NEW controls \in Layouts, Trusted(controls)
    PROVE  /\ FindGap(Spans(controls)) \in NoGap..BarWidth
           /\ FindGap(Spans(controls)) # NoGap =>
                \A s \in Spans(controls) : ~Covers(s, FindGap(Spans(controls)))
<1> DEFINE gaps == Gaps(Spans(controls))
           at == FindGap(Spans(controls))
<1>1. {BarWidth, Requested, Margin} \subseteq Nat
    BY TaskbarAssumption
<1>2. CASE gaps = {}
    BY <1>1, <1>2 DEF FindGap, NoGap
<1>3. CASE gaps # {}
    <2>1. Max(gaps) \in gaps
        <3> HIDE DEF gaps
        <3> QED
            BY <1>1, <1>3, GapsAreInside, BoundedHasMax DEF gaps
    <2>2. Max(gaps) \in 0..BarWidth
        BY <2>1, GapsAreInside
    <2> DEFINE g == Max(gaps)
    <2>3. at = g - Requested - Margin
        BY <1>3 DEF FindGap
    <2> HIDE DEF g
    <2>4. \A end \in {0} \union {s[2] : s \in {o \in Spans(controls) : o[1] < g}} :
              end + Margin + (Requested + Margin) <= g
        BY <2>1 DEF Gaps, g
    <2>5. g \in 0..BarWidth
        BY <2>2 DEF g
    <2>6. 0 + Margin + (Requested + Margin) <= g
        BY <2>4
    <2>7. at \in 0..BarWidth
        BY <1>1, <2>3, <2>5, <2>6
    <2>8. ASSUME NEW s \in Spans(controls) PROVE ~Covers(s, at)
        <3>1. s[1] \in Int /\ s[2] \in Int
            BY <1>1, TaskbarAssumption DEF Spans, Weather, Notifications
        <3>2. CASE s[1] < g
            <4>1. s[2] + Margin + (Requested + Margin) <= g
                BY <2>4, <3>2
            <4>2. s[2] <= at
                BY <1>1, <2>3, <2>5, <3>1, <4>1
            <4> HIDE DEF at
            <4> QED
                BY <2>7, <3>1, <4>2 DEF Covers
        <3>3. CASE ~(s[1] < g)
            <4>1. at + Requested <= s[1]
                BY <1>1, <2>3, <2>5, <3>1, <3>3
            <4> HIDE DEF at
            <4> QED
                BY <1>1, <2>7, <3>1, <4>1 DEF Covers
        <3> QED
            BY <3>2, <3>3
    <2> QED
        BY <2>7, <2>8 DEF NoGap
<1> QED
    BY <1>2, <1>3

-----------------------------------------------------------------------------
(* The invariant is inductive.                                              *)

LEMMA TaskbarStarts == TaskbarInit => TaskbarInv
<1> SUFFICES ASSUME TaskbarInit PROVE TaskbarInv
    OBVIOUS
<1>1. MaxChanges \in Nat /\ BarWidth \in Nat
    BY TaskbarAssumption
<1>2. NoWindow \in Displays
    BY <1>1 DEF NoWindow, Displays, NoGap
<1>3. pump \in PumpStates
    BY <1>1, <1>2 DEF TaskbarInit, PumpStates
<1>a. bar \in [id : 1..MaxChanges + 1, controls : Layouts] /\ bar.id = 1
    BY <1>1 DEF TaskbarInit
<1>b. posted = <<>> /\ asked = <<>> /\ found = <<>>
    BY DEF TaskbarInit
<1>c. posted \in Seq(Messages) /\ asked \in Seq(Nat \union {Stop}) /\ found \in Seq(Answers)
    BY <1>b
<1>4. BarShape
    <2>1. /\ mailbox \in [enabled : BOOLEAN, stopped : BOOLEAN]
          /\ event \in BOOLEAN /\ changes = 0
        BY DEF TaskbarInit
    <2> QED
        BY <1>1, <1>3, <1>a, <1>c, <2>1 DEF BarShape
<1>5. NoneAhead /\ HooksFollow /\ AnswersFollow /\ WindowIsHeard
    BY DEF TaskbarInit, NoneAhead, HooksFollow, AnswersFollow, WindowIsHeard, NoWindow, Owns
<1>6. CoversNothing /\ RequestIsKept /\ NothingIsLeft
    BY DEF TaskbarInit, CoversNothing, RequestIsKept, NothingIsLeft, NoWindow, Owns
<1> QED
    BY <1>4, <1>5, <1>6 DEF TaskbarInv

\* What covers nothing, with the place of the window as an argument.
LEMMA CoversIsClear ==
    CoversNothing <=>
        (pump.display.visible /\ Owns(pump) /\ pump.display.heard =>
            Reported \/ ClearAt(pump.display.at))
BY DEF CoversNothing, Reported, ClearAt, Covers, Overlaps

LEMMA PreferenceKeeps ==
    TaskbarInv /\ (SetEnabled \/ DropDisplay) => TaskbarInv'
<1> SUFFICES ASSUME TaskbarInv, SetEnabled \/ DropDisplay PROVE TaskbarInv'
    OBVIOUS
<1>1. UNCHANGED <<bar, event, posted, pump, asked, found>>
    BY DEF SetEnabled, DropDisplay, discovery
<1>2. mailbox' \in [enabled : BOOLEAN, stopped : BOOLEAN]
    BY DEF TaskbarInv, BarShape, SetEnabled, DropDisplay
<1>3. changes' \in 0..MaxChanges /\ changes <= changes'
    BY TaskbarAssumption DEF TaskbarInv, BarShape, SetEnabled, DropDisplay, Changes
<1>4. BarShape'
    BY <1>1, <1>2, <1>3, TaskbarAssumption DEF TaskbarInv, BarShape
<1>5. NoneAhead' /\ HooksFollow' /\ AnswersFollow' /\ WindowIsHeard'
    BY <1>1 DEF TaskbarInv, NoneAhead, HooksFollow, AnswersFollow, WindowIsHeard, Owns, Reported, ClearAt
<1>6. CoversNothing' /\ RequestIsKept' /\ NothingIsLeft'
    BY <1>1 DEF TaskbarInv, CoversNothing, Overlaps, RequestIsKept, NothingIsLeft, Owns
<1> QED
    BY <1>4, <1>5, <1>6 DEF TaskbarInv

\* A bar whose hooks are installed reports that it moved.
LEMMA BarMovesKeeps == TaskbarInv /\ BarMoves => TaskbarInv'
<1> SUFFICES ASSUME TaskbarInv, BarMoves PROVE TaskbarInv'
    OBVIOUS
<1>1. UNCHANGED <<mailbox, posted, pump, asked, found>>
    BY DEF BarMoves, discovery
<1>2. bar' \in [id : 1..MaxChanges + 1, controls : Layouts] /\ bar'.id = bar.id
    BY DEF TaskbarInv, BarShape, BarMoves
<1>3. changes' \in 0..MaxChanges /\ changes <= changes'
    BY TaskbarAssumption DEF TaskbarInv, BarShape, BarMoves, Changes
<1>4. event' \in BOOLEAN /\ (pump.hooked = bar.id => event' = TRUE)
    BY DEF TaskbarInv, BarShape, BarMoves
<1>5. BarShape'
    BY <1>1, <1>2, <1>3, <1>4, TaskbarAssumption DEF TaskbarInv, BarShape
<1>6. NoneAhead' /\ HooksFollow'
    BY <1>1, <1>2 DEF TaskbarInv, NoneAhead, HooksFollow
<1>7. AnswersFollow'
    BY <1>1, <1>2, <1>4 DEF TaskbarInv, AnswersFollow, Reported
<1>8. WindowIsHeard'
    BY <1>1, <1>2 DEF TaskbarInv, WindowIsHeard, Owns
<1>9. CoversNothing'
    BY <1>1, <1>2, <1>4 DEF TaskbarInv, CoversNothing, Overlaps, Owns, WindowIsHeard
<1>10. RequestIsKept' /\ NothingIsLeft'
    BY <1>1 DEF TaskbarInv, RequestIsKept, NothingIsLeft
<1> QED
    BY <1>5, <1>6, <1>7, <1>8, <1>9, <1>10 DEF TaskbarInv

\* Nothing is of the bar that comes.
LEMMA BarRestartsKeeps == TaskbarInv /\ BarRestarts => TaskbarInv'
<1> SUFFICES ASSUME TaskbarInv, BarRestarts PROVE TaskbarInv'
    OBVIOUS
<1>1. UNCHANGED <<mailbox, pump, asked, found>>
    BY DEF BarRestarts, discovery
<1>2. changes < MaxChanges /\ changes' = changes + 1 /\ changes \in Nat /\ MaxChanges \in Nat
    BY TaskbarAssumption DEF TaskbarInv, BarShape, BarRestarts, Changes
<1>3. bar.id \in 1..MaxChanges + 1 /\ bar.id <= changes + 1
    BY DEF TaskbarInv, BarShape
<1>4. bar' \in [id : 1..MaxChanges + 1, controls : Layouts] /\ bar'.id = bar.id + 1
    BY <1>2, <1>3 DEF BarRestarts
<1>5. posted' \in Seq(Messages)
    <2>1. posted \in Seq(Messages) /\ "broadcast" \in Messages
        BY DEF TaskbarInv, BarShape, Messages
    <2>2. Append(posted, "broadcast") \in Seq(Messages)
        BY <2>1
    <2> QED
        BY <2>1, <2>2 DEF BarRestarts
<1>6. BarShape'
    <2>1. event' \in BOOLEAN
        BY DEF BarRestarts
    <2>2. changes' \in 0..MaxChanges /\ bar'.id <= changes' + 1
        BY <1>2, <1>3, <1>4
    <2> QED
        BY <1>1, <1>4, <1>5, <2>1, <2>2 DEF TaskbarInv, BarShape
<1>7. pump.display.on \in Nat /\ (\A i \in 1..Len(found) : found[i].bar \in Nat)
    <2>1. pump \in PumpStates /\ found \in Seq(Answers)
        BY DEF TaskbarInv, BarShape
    <2>2. pump.display \in Displays
        BY <2>1 DEF PumpStates
    <2>3. \A i \in 1..Len(found) : found[i] \in Answers
        BY <2>1
    <2> QED
        BY <2>2, <2>3 DEF Displays, Answers
<1>8. pump.display.on < bar'.id /\ (\A i \in 1..Len(found) : found[i].bar < bar'.id)
    BY <1>3, <1>4, <1>7 DEF TaskbarInv, NoneAhead
<1>9. NoneAhead'
    BY <1>1, <1>3, <1>4, <1>7, <1>8 DEF TaskbarInv, NoneAhead
<1>10. HooksFollow' /\ RequestIsKept' /\ NothingIsLeft'
    BY <1>1 DEF TaskbarInv, HooksFollow, RequestIsKept, NothingIsLeft
<1>11. pump.display.on # bar'.id /\ (\A i \in 1..Len(found) : found[i].bar # bar'.id)
    BY <1>3, <1>4, <1>7, <1>8
<1>12. AnswersFollow'
    BY <1>1, <1>11 DEF AnswersFollow
<1>13. WindowIsHeard' /\ CoversNothing'
    BY <1>1, <1>11 DEF WindowIsHeard, CoversNothing, Owns
<1> QED
    BY <1>6, <1>9, <1>10, <1>12, <1>13 DEF TaskbarInv

\* What the thread sees is so: it is told whether somebody would hear of a change.
LEMMA DiscoverKeeps == TaskbarInv /\ Discover => TaskbarInv'
<1> SUFFICES ASSUME TaskbarInv, Discover PROVE TaskbarInv'
    OBVIOUS
<1>1. UNCHANGED <<bar, changes, mailbox, event, posted, pump>>
    BY DEF Discover
<1>2. asked \in Seq(Nat \union {Stop}) /\ found \in Seq(Answers) /\ pump \in PumpStates
    BY DEF TaskbarInv, BarShape
<1>3. bar.id \in Nat /\ bar.controls \in Layouts /\ pump.epoch \in Nat /\ pump.hooked \in Nat
    BY <1>2, TaskbarAssumption DEF TaskbarInv, BarShape, PumpStates
<1> PICK heard \in BOOLEAN : heard <=> pump.hooked = bar.id
    OBVIOUS
<1>4. PICK at \in {NoGap} \union
                  (IF Trusted(bar.controls) THEN {FindGap(Spans(bar.controls))} ELSE {}) :
          found' = Append(found, [epoch |-> Head(asked), bar |-> bar.id, at |-> at, heard |-> heard])
    BY DEF Discover
<1> DEFINE answer == [epoch |-> Head(asked), bar |-> bar.id, at |-> at, heard |-> heard]
<1>5. at \in NoGap..BarWidth /\ (at # NoGap => ClearAt(at))
    BY <1>3, <1>4, GapIsInside, TaskbarAssumption DEF ClearAt, NoGap
<1>6. asked # <<>> /\ asked' = Tail(asked)
    BY DEF Discover
<1>7. /\ Head(asked) \in Nat \union {Stop} /\ Head(asked) = asked[1] /\ 1 \in 1..Len(asked)
      /\ asked' \in Seq(Nat \union {Stop}) /\ Len(asked') = Len(asked) - 1
      /\ \A i \in 1..Len(asked') : asked'[i] = asked[i + 1] /\ i + 1 \in 1..Len(asked)
    BY <1>2, <1>6
<1>8. answer \in Answers
    BY <1>3, <1>5, <1>7 DEF Answers
<1>9. /\ found' \in Seq(Answers) /\ Len(found') = Len(found) + 1
      /\ \A i \in 1..Len(found) : found'[i] = found[i]
      /\ found'[Len(found) + 1] = answer
    BY <1>2, <1>4, <1>8
<1>10. \A i \in 1..Len(found') : i \in 1..Len(found) \/ i = Len(found) + 1
    BY <1>2, <1>9
<1>11. BarShape'
    BY <1>1, <1>7, <1>9 DEF TaskbarInv, BarShape
<1>12. answer.epoch <= pump.epoch /\ answer.bar <= bar.id
    BY <1>3, <1>7 DEF TaskbarInv, NoneAhead
<1>13. NoneAhead'
    <2>1. \A i \in 1..Len(asked') : asked'[i] <= pump.epoch
        BY <1>7 DEF TaskbarInv, NoneAhead
    <2>2. \A i \in 1..Len(found') : found'[i].bar <= bar.id /\ found'[i].epoch <= pump.epoch
        BY <1>9, <1>10, <1>12 DEF TaskbarInv, NoneAhead
    <2> QED
        BY <1>1, <2>1, <2>2 DEF TaskbarInv, NoneAhead
<1>14. AnswersFollow'
    <2> SUFFICES ASSUME NEW i \in 1..Len(found'), found'[i].heard, found'[i].bar = bar.id, pump.up
                 PROVE  /\ pump.hooked = bar.id
                        /\ found'[i].at # NoGap /\ found'[i].epoch = pump.epoch
                              => Reported \/ ClearAt(found'[i].at)
        BY <1>1 DEF AnswersFollow, Reported, ClearAt
    <2>1. CASE i \in 1..Len(found)
        BY <1>9, <2>1 DEF TaskbarInv, AnswersFollow
    <2>2. CASE i = Len(found) + 1
        <3>3. answer.heard = heard /\ answer.at = at
            OBVIOUS
        <3>4. found'[i] = answer
            BY <1>9, <2>2
        <3> HIDE DEF answer
        <3>1. found'[i].heard = heard /\ found'[i].at = at
            BY <3>3, <3>4
        <3>2. pump.hooked = bar.id
            BY <3>1
        <3> QED
            BY <1>5, <3>1, <3>2
    <2> QED
        BY <1>10, <2>1, <2>2
<1>15. HooksFollow' /\ WindowIsHeard' /\ CoversNothing' /\ NothingIsLeft'
    BY <1>1 DEF TaskbarInv, HooksFollow, WindowIsHeard, CoversNothing, Overlaps, NothingIsLeft, Owns
<1>16. RequestIsKept'
    BY <1>1, <1>2, <1>7, <1>9 DEF TaskbarInv, RequestIsKept
<1> QED
    BY <1>11, <1>13, <1>14, <1>15, <1>16 DEF TaskbarInv

\* The report hides the window until there is a new layout.
LEMMA HookKeeps == TaskbarInv /\ HookRuns => TaskbarInv'
<1> SUFFICES ASSUME TaskbarInv, HookRuns PROVE TaskbarInv'
    OBVIOUS
<1>1. UNCHANGED <<bar, changes, mailbox, asked, found>> /\ event' = FALSE
    BY DEF HookRuns, discovery
<1>2. pump \in PumpStates /\ posted \in Seq(Messages)
    BY DEF TaskbarInv, BarShape
<1>3. posted' \in Seq(Messages) /\ Reported'
    <2>1. "layout" \in Messages /\ posted' = Append(posted, "layout")
        BY DEF HookRuns, Messages
    <2>2. posted' \in Seq(Messages) /\ Len(posted) + 1 \in 1..Len(posted') /\ posted'[Len(posted) + 1] = "layout"
        BY <1>2, <2>1
    <2> QED
        BY <2>2 DEF Reported
<1>4. pump' = Hidden(pump)
    BY DEF HookRuns
<1>5. pump.display \in Displays /\ [pump.display EXCEPT !.visible = FALSE] \in Displays
    BY <1>2 DEF PumpStates, Displays
<1>6. pump' \in PumpStates
    BY <1>2, <1>4, <1>5 DEF Hidden, PumpStates
<1>7. /\ pump'.up = pump.up /\ pump'.hooked = pump.hooked /\ pump'.pending = pump.pending
      /\ pump'.epoch = pump.epoch /\ pump'.enabled = pump.enabled
      /\ pump'.display.on = pump.display.on
    BY <1>2, <1>4, <1>5 DEF Hidden, PumpStates, Displays
<1>8. ~(pump'.display.visible /\ pump'.display.on = bar.id)
    BY <1>2, <1>4, <1>5 DEF Hidden, PumpStates, Displays, Owns
<1>9. pump.display = NoWindow => pump'.display = NoWindow
    <2>1. pump.display = NoWindow => ~Owns(pump)
        BY DEF TaskbarInv, BarShape, NoWindow, Owns
    <2> QED
        BY <1>4, <2>1 DEF Hidden
<1>10. BarShape'
    BY <1>1, <1>3, <1>6 DEF TaskbarInv, BarShape
<1>11. NoneAhead' /\ HooksFollow' /\ RequestIsKept' /\ NothingIsLeft'
    BY <1>1, <1>7, <1>9 DEF TaskbarInv, NoneAhead, HooksFollow, RequestIsKept, NothingIsLeft
<1>12. AnswersFollow'
    BY <1>1, <1>3, <1>7 DEF TaskbarInv, AnswersFollow
<1>13. WindowIsHeard' /\ CoversNothing'
    BY <1>1, <1>8 DEF WindowIsHeard, CoversNothing, Owns
<1> QED
    BY <1>10, <1>11, <1>12, <1>13 DEF TaskbarInv

\* The window goes first.
LEMMA PumpEndsKeeps == TaskbarInv /\ PumpEnds => TaskbarInv'
<1> SUFFICES ASSUME TaskbarInv, PumpEnds PROVE TaskbarInv'
    OBVIOUS
<1>1. UNCHANGED <<bar, changes, mailbox, posted, found>> /\ event' = FALSE
    BY DEF PumpEnds
<1>2. pump \in PumpStates /\ asked \in Seq(Nat \union {Stop}) /\ bar.id \in 1..MaxChanges + 1
    BY DEF TaskbarInv, BarShape
<1>3. MaxChanges \in Nat /\ BarWidth \in Nat
    BY TaskbarAssumption
<1>4. NoWindow \in Displays
    BY <1>3 DEF NoWindow, Displays, NoGap
<1>5. pump' = [[pump EXCEPT !.display = NoWindow, !.hooked = 0] EXCEPT !.up = FALSE]
    BY DEF PumpEnds, Destroyed
<1>a. 0 \in 0..MaxChanges + 1
    BY <1>3
<1>6. /\ pump' \in PumpStates /\ pump'.display = NoWindow /\ pump'.hooked = 0
      /\ pump'.epoch = pump.epoch
    BY <1>2, <1>4, <1>5, <1>a DEF PumpStates
<1>7. pump'.up = FALSE
    BY <1>2, <1>5 DEF PumpStates
<1>8. asked' = Append(asked, Stop)
    BY DEF PumpEnds
<1>9. /\ asked' \in Seq(Nat \union {Stop}) /\ Len(asked') = Len(asked) + 1
      /\ \A i \in 1..Len(asked) : asked'[i] = asked[i]
      /\ asked'[Len(asked) + 1] = Stop
    BY <1>2, <1>8
<1>10. BarShape'
    BY <1>1, <1>6, <1>9 DEF TaskbarInv, BarShape
<1>11. \A i \in 1..Len(asked') : asked'[i] <= pump.epoch
    <2>1. pump.epoch \in Nat
        BY <1>2 DEF PumpStates
    <2>2. \A i \in 1..Len(asked') : i \in 1..Len(asked) \/ i = Len(asked) + 1
        BY <1>2, <1>9
    <2> QED
        BY <1>9, <2>1, <2>2 DEF TaskbarInv, NoneAhead, Stop
<1>12. pump'.display.on = 0
    BY <1>6 DEF NoWindow
<1>13. NoneAhead'
    BY <1>1, <1>2, <1>6, <1>11, <1>12 DEF TaskbarInv, NoneAhead
<1>14. HooksFollow' /\ NothingIsLeft'
    BY <1>6, <1>12 DEF HooksFollow, NothingIsLeft
<1>15. AnswersFollow' /\ RequestIsKept'
    BY <1>7 DEF AnswersFollow, RequestIsKept
<1>16. WindowIsHeard' /\ CoversNothing'
    BY <1>1, <1>2, <1>12 DEF WindowIsHeard, CoversNothing, Owns
<1> QED
    BY <1>10, <1>13, <1>14, <1>15, <1>16 DEF TaskbarInv

-----------------------------------------------------------------------------
(* One turn of the pump.                                                    *)

\* A window that may be there, when what is reported is as given.
WindowFits(w, reported) ==
    /\ w \in PumpStates /\ w.display.on <= bar.id /\ w.hooked \in {0, w.display.on}
    /\ w.display.heard /\ w.display.visible /\ Owns(w) =>
          w.hooked = bar.id /\ (reported \/ ClearAt(w.display.at))

LEMMA HiddenFits ==
    ASSUME TaskbarInv, NEW w, w = Hidden(pump), NEW reported \in BOOLEAN
    PROVE  /\ WindowFits(w, reported) /\ ~(w.display.visible /\ Owns(w))
           /\ w.up = pump.up /\ w.hooked = pump.hooked /\ w.pending = pump.pending
           /\ w.epoch = pump.epoch /\ w.enabled = pump.enabled
           /\ (pump.display = NoWindow => w.display = NoWindow)
<1>1. pump \in PumpStates
    BY DEF TaskbarInv, BarShape
<1>2. pump.display \in Displays /\ [pump.display EXCEPT !.visible = FALSE] \in Displays
    BY <1>1 DEF PumpStates, Displays
<1>3. w \in PumpStates
    BY <1>1, <1>2 DEF Hidden, PumpStates
<1>4. /\ w.up = pump.up /\ w.hooked = pump.hooked /\ w.pending = pump.pending
      /\ w.epoch = pump.epoch /\ w.enabled = pump.enabled
      /\ w.display.on = pump.display.on
    BY <1>1, <1>2 DEF Hidden, PumpStates, Displays
<1>5. ~(w.display.visible /\ Owns(w))
    BY <1>1, <1>2 DEF Hidden, PumpStates, Displays, Owns
<1>6. pump.display = NoWindow => w.display = NoWindow
    <2>1. pump.display = NoWindow => ~Owns(pump)
        BY DEF TaskbarInv, BarShape, NoWindow, Owns
    <2> QED
        BY <2>1 DEF Hidden
<1>7. WindowFits(w, reported)
    BY <1>3, <1>4, <1>5 DEF TaskbarInv, NoneAhead, HooksFollow, WindowFits
<1> QED
    BY <1>4, <1>5, <1>6, <1>7

LEMMA DestroyedFits ==
    ASSUME TaskbarInv, NEW w \in PumpStates, NEW reported \in BOOLEAN
    PROVE  /\ WindowFits(Destroyed(w), reported)
           /\ Destroyed(w).display = NoWindow /\ Destroyed(w).hooked = 0
           /\ Destroyed(w).up = w.up /\ Destroyed(w).pending = w.pending
           /\ Destroyed(w).epoch = w.epoch /\ Destroyed(w).enabled = w.enabled
           /\ Destroyed(w).forced = w.forced
<1>1. MaxChanges \in Nat /\ BarWidth \in Nat /\ bar.id \in 1..MaxChanges + 1
    BY TaskbarAssumption DEF TaskbarInv, BarShape
<1>2. NoWindow \in Displays
    BY <1>1 DEF NoWindow, Displays, NoGap
<1>a. 0 \in 0..MaxChanges + 1
    BY <1>1
<1>3. /\ Destroyed(w) \in PumpStates /\ Destroyed(w).display = NoWindow /\ Destroyed(w).hooked = 0
      /\ Destroyed(w).up = w.up /\ Destroyed(w).pending = w.pending
      /\ Destroyed(w).epoch = w.epoch /\ Destroyed(w).enabled = w.enabled
      /\ Destroyed(w).forced = w.forced
    BY <1>2, <1>a DEF Destroyed, PumpStates
<1>4. Destroyed(w).display.on = 0 /\ ~Destroyed(w).display.visible
    BY <1>3 DEF NoWindow
<1> QED
    BY <1>1, <1>3, <1>4 DEF WindowFits

\* The pump asks once, and has at most one answer.
LEMMA OneAnswer ==
    ASSUME TaskbarInv, pump.up, found # <<>>
    PROVE  /\ Len(found) = 1 /\ asked = <<>> /\ pump.pending /\ Tail(found) = <<>>
           /\ 1 \in 1..Len(found) /\ Head(found) = found[1] /\ found[1] \in Answers
<1>1. found \in Seq(Answers) /\ asked \in Seq(Nat \union {Stop})
    BY DEF TaskbarInv, BarShape
<1>2. Len(found) \in Nat /\ Len(found) # 0 /\ Len(asked) \in Nat
    BY <1>1
<1>3. Len(asked) + Len(found) = (IF pump.pending THEN 1 ELSE 0)
    BY DEF TaskbarInv, RequestIsKept
<1>4. pump.pending
    BY <1>2, <1>3
<1>a. Len(asked) + Len(found) = 1
    BY <1>3, <1>4, Zenon
<1>b. \A m, n \in Nat : m + n = 1 /\ n # 0 => n = 1 /\ m = 0
    OBVIOUS
<1>5. Len(found) = 1 /\ Len(asked) = 0
    BY <1>2, <1>a, <1>b, Zenon
<1>6. asked = <<>>
    BY <1>1, <1>5
<1>7. Tail(found) = <<>>
    <2> PICK rest : rest = Tail(found)
        OBVIOUS
    <2>1. rest \in Seq(Answers) /\ Len(rest) = 0
        BY <1>1, <1>5
    <2> QED
        BY <2>1
<1> QED
    BY <1>1, <1>4, <1>5, <1>6, <1>7

\* Geometry of this epoch, in a turn without a message.
LEMMA AttachFits ==
    ASSUME TaskbarInv, pump.up, posted = <<>>, found # <<>>,
           found[1].epoch = pump.epoch, NEW hooks \in BOOLEAN,
           NEW w, w = [pump EXCEPT !.pending = FALSE],
           NEW f, f = Attach(w, found[1], hooks)
    PROVE  /\ WindowFits(f, event) /\ f.up = pump.up /\ f.pending = FALSE
           /\ f.epoch = pump.epoch /\ f.enabled = pump.enabled
<1>1. pump \in PumpStates /\ bar.id \in 1..MaxChanges + 1 /\ MaxChanges \in Nat
    BY TaskbarAssumption DEF TaskbarInv, BarShape
<1>2. found[1] \in Answers /\ 1 \in 1..Len(found)
    BY OneAnswer
<1>3. /\ w \in PumpStates /\ w.up = pump.up /\ w.pending = FALSE /\ w.hooked = pump.hooked
      /\ w.epoch = pump.epoch /\ w.enabled = pump.enabled /\ w.display = pump.display
    BY <1>1 DEF PumpStates
<1>4. event \in BOOLEAN
    BY DEF TaskbarInv, BarShape
<1>5. CASE found[1].at = NoGap \/ found[1].bar # bar.id
    <2>1. f = Destroyed(w)
        BY <1>5 DEF Attach
    <2> QED
        BY <1>3, <1>4, <2>1, DestroyedFits
<1>6. CASE ~(found[1].at = NoGap \/ found[1].bar # bar.id)
    <2> DEFINE hooked == IF Owns(w) THEN w.hooked ELSE IF hooks THEN bar.id ELSE 0
               shown == [on |-> bar.id, at |-> found[1].at, visible |-> TRUE, heard |-> found[1].heard]
    <2>1. f = [w EXCEPT !.display = shown, !.hooked = hooked]
        BY <1>6 DEF Attach
    <2>2. shown \in Displays /\ shown.on = bar.id /\ shown.at = found[1].at
        BY <1>1, <1>2 DEF Displays, Answers
    <2>3. hooked \in 0..MaxChanges + 1 /\ hooked \in {0, bar.id}
        BY <1>1, <1>3 DEF TaskbarInv, HooksFollow, PumpStates, Owns
    <2>4. found[1].heard => hooked = bar.id /\ (event \/ ClearAt(found[1].at))
        <3> SUFFICES ASSUME found[1].heard PROVE hooked = bar.id /\ (event \/ ClearAt(found[1].at))
            OBVIOUS
        <3>1. pump.hooked = bar.id /\ (Reported \/ ClearAt(found[1].at))
            BY <1>2, <1>6 DEF TaskbarInv, AnswersFollow
        <3>2. Owns(w)
            BY <1>1, <1>3, <3>1 DEF TaskbarInv, HooksFollow, Owns
        <3>3. Reported <=> event
            BY DEF Reported
        <3> QED
            BY <1>3, <3>1, <3>2, <3>3
    <2>5. shown.heard = found[1].heard
        OBVIOUS
    <2> HIDE DEF shown, hooked
    <2>6. /\ f \in PumpStates /\ f.display = shown /\ f.hooked = hooked /\ f.up = w.up
          /\ f.pending = w.pending /\ f.epoch = w.epoch /\ f.enabled = w.enabled
        BY <1>3, <2>1, <2>2, <2>3 DEF PumpStates
    <2>7. WindowFits(f, event)
        BY <1>1, <2>2, <2>3, <2>4, <2>5, <2>6 DEF WindowFits
    <2> QED
        BY <1>3, <2>6, <2>7
<1> QED
    BY <1>5, <1>6

\* A message or another preference: what was captured before is dropped.
LEMMA NotedFits ==
    ASSUME TaskbarInv, pump.up, NEW hooks \in BOOLEAN,
           NEW w, w = [Hidden(pump) EXCEPT !.epoch = @ + 1],
           NEW f, f = FinishLayout(w, hooks)
    PROVE  /\ WindowFits(f, event) /\ f.up = pump.up /\ ~(f.display.visible /\ Owns(f))
           /\ f.pending = (IF found = <<>> THEN pump.pending ELSE FALSE)
           /\ f.epoch = pump.epoch + 1 /\ f.enabled = pump.enabled
           /\ (pump.display = NoWindow /\ pump.hooked = 0 => f.display = NoWindow /\ f.hooked = 0)
<1>1. event \in BOOLEAN /\ pump.epoch \in Nat
    BY DEF TaskbarInv, BarShape, PumpStates
<1> DEFINE h == Hidden(pump)
<1>2. /\ h \in PumpStates /\ h.up = pump.up /\ h.pending = pump.pending /\ h.epoch = pump.epoch
      /\ h.enabled = pump.enabled /\ h.hooked = pump.hooked
    BY <1>1, HiddenFits DEF WindowFits
<1>3. /\ w \in PumpStates /\ w.up = pump.up /\ w.pending = pump.pending /\ w.epoch = pump.epoch + 1
      /\ w.enabled = pump.enabled /\ w.display = h.display /\ w.hooked = pump.hooked
    <2>1. w = [h EXCEPT !.epoch = @ + 1]
        OBVIOUS
    <2> HIDE DEF h
    <2>2. h.epoch + 1 \in Nat
        BY <1>1, <1>2
    <2> QED
        BY <1>2, <2>1, <2>2 DEF PumpStates
<1>4. ~(w.display.visible /\ Owns(w)) /\ w.display.on <= bar.id /\ w.hooked \in {0, w.display.on}
      /\ (pump.display = NoWindow => w.display = NoWindow)
    BY <1>1, <1>2, <1>3, HiddenFits DEF WindowFits, Owns
<1>5. CASE found = <<>>
    <2>1. f = w
        BY <1>5 DEF FinishLayout
    <2> QED
        BY <1>3, <1>4, <1>5, <2>1 DEF WindowFits
<1>6. CASE found # <<>>
    <2>1. Head(found).epoch <= pump.epoch /\ Head(found).epoch \in Int
        BY <1>6, OneAnswer DEF TaskbarInv, NoneAhead, Answers, Stop
    <2>2. Head(found).epoch # w.epoch
        BY <1>1, <1>3, <2>1
    <2>3. f = [w EXCEPT !.pending = FALSE, !.forced = TRUE]
        BY <1>6, <2>2 DEF FinishLayout
    <2>4. /\ f \in PumpStates /\ f.up = w.up /\ f.pending = FALSE /\ f.epoch = w.epoch
          /\ f.enabled = w.enabled /\ f.display = w.display /\ f.hooked = w.hooked
        BY <1>3, <2>3 DEF PumpStates
    <2> QED
        BY <1>3, <1>4, <1>6, <2>4 DEF WindowFits, Owns
<1> QED
    BY <1>5, <1>6

\* Neither message nor preference.
LEMMA QuietFits ==
    ASSUME TaskbarInv, pump.up, posted = <<>>, NEW hooks \in BOOLEAN,
           NEW f, f = FinishLayout(pump, hooks)
    PROVE  /\ WindowFits(f, event) /\ f.up = pump.up
           /\ f.pending = (IF found = <<>> THEN pump.pending ELSE FALSE)
           /\ f.epoch = pump.epoch /\ f.enabled = pump.enabled
           /\ (~mailbox.enabled => f.display = pump.display /\ f.hooked = pump.hooked)
<1>1. event \in BOOLEAN /\ pump \in PumpStates
    BY DEF TaskbarInv, BarShape
<1>2. WindowFits(pump, event)
    BY <1>1, CoversIsClear DEF TaskbarInv, WindowFits, NoneAhead, HooksFollow, WindowIsHeard, Reported
<1>3. CASE found = <<>>
    BY <1>1, <1>2, <1>3 DEF FinishLayout
<1>4. CASE found # <<>> /\ (~mailbox.enabled \/ found[1].epoch # pump.epoch)
    <2>1. f = [pump EXCEPT !.pending = FALSE, !.forced = TRUE]
        BY <1>4, OneAnswer DEF FinishLayout
    <2>2. /\ f \in PumpStates /\ f.up = pump.up /\ f.pending = FALSE /\ f.epoch = pump.epoch
          /\ f.enabled = pump.enabled /\ f.display = pump.display /\ f.hooked = pump.hooked
        BY <1>1, <2>1 DEF PumpStates
    <2>3. WindowFits(f, event)
        BY <1>2, <2>2 DEF WindowFits, Owns
    <2> QED
        BY <1>4, <2>2, <2>3
<1>5. CASE found # <<>> /\ mailbox.enabled /\ found[1].epoch = pump.epoch
    <2>1. f = Attach([pump EXCEPT !.pending = FALSE], found[1], hooks)
        BY <1>5, OneAnswer DEF FinishLayout
    <2> QED
        BY <1>5, <2>1, AttachFits
<1> QED
    BY <1>3, <1>4, <1>5

LEMMA PumpsKeeps == TaskbarInv /\ Pumps => TaskbarInv'
<1> SUFFICES ASSUME TaskbarInv, Pumps PROVE TaskbarInv'
    OBVIOUS
<1>1. UNCHANGED <<bar, changes, mailbox>> /\ pump.up
    BY DEF Pumps
<1>2. /\ posted \in Seq(Messages) /\ asked \in Seq(Nat \union {Stop}) /\ found \in Seq(Answers)
      /\ pump \in PumpStates /\ event \in BOOLEAN /\ mailbox \in [enabled : BOOLEAN, stopped : BOOLEAN]
      /\ bar.id \in 1..MaxChanges + 1
    BY DEF TaskbarInv, BarShape
<1> DEFINE changed == mailbox.enabled # pump.enabled
           noted == IF Message # "timer" \/ changed
                    THEN [Hidden(pump) EXCEPT !.epoch = @ + 1] ELSE pump
<1>3. PICK due \in BOOLEAN, hooks \in BOOLEAN :
          /\ Message = "broadcast" \/ changed \/ FinishLayout(noted, hooks).forced => due
          /\ pump' = IF due THEN Layout(FinishLayout(noted, hooks)) ELSE FinishLayout(noted, hooks)
          /\ asked' = IF due /\ mailbox.enabled /\ ~FinishLayout(noted, hooks).pending
                      THEN Append(asked, FinishLayout(noted, hooks).epoch) ELSE asked
    BY DEF Pumps
<1> DEFINE f == FinishLayout(noted, hooks)
<1>4. posted' = (IF posted # <<>> THEN Tail(posted) ELSE posted) /\ found' = <<>>
    BY <1>1, OneAnswer DEF Pumps
<1>5. posted # <<>> => Message # "timer"
    <2>1. posted # <<>> => Head(posted) \in Messages
        BY <1>2
    <2> QED
        BY <2>1 DEF Message, Messages
<1>6. /\ WindowFits(f, event) /\ f.up = TRUE
      /\ f.pending = (IF found = <<>> THEN pump.pending ELSE FALSE)
      /\ f.epoch \in Nat /\ pump.epoch <= f.epoch /\ f.enabled = pump.enabled
      /\ (posted # <<>> => ~(f.display.visible /\ Owns(f)))
      /\ (~mailbox.enabled /\ pump.display = NoWindow /\ pump.hooked = 0
            => f.display = NoWindow /\ f.hooked = 0)
    <2>1. pump.epoch \in Nat /\ pump.up = TRUE
        BY <1>1, <1>2 DEF PumpStates
    <2>2. CASE Message # "timer" \/ changed
        <3>1. noted = [Hidden(pump) EXCEPT !.epoch = @ + 1]
            BY <2>2
        <3>2. f = FinishLayout(noted, hooks)
            OBVIOUS
        <3> HIDE DEF f, noted, changed
        <3>3. /\ WindowFits(f, event) /\ f.up = pump.up /\ ~(f.display.visible /\ Owns(f))
              /\ f.pending = (IF found = <<>> THEN pump.pending ELSE FALSE)
              /\ f.epoch = pump.epoch + 1 /\ f.enabled = pump.enabled
              /\ (pump.display = NoWindow /\ pump.hooked = 0 => f.display = NoWindow /\ f.hooked = 0)
            BY <1>1, <3>1, <3>2, NotedFits
        <3>4. f.epoch \in Nat /\ pump.epoch <= f.epoch
            BY <2>1, <3>3
        <3> QED
            BY <2>1, <3>3, <3>4
    <2>3. CASE ~(Message # "timer" \/ changed)
        <3>1. noted = pump /\ posted = <<>>
            BY <1>5, <2>3
        <3>2. f = FinishLayout(pump, hooks)
            BY <3>1
        <3> HIDE DEF f, noted, changed
        <3>3. /\ WindowFits(f, event) /\ f.up = pump.up
              /\ f.pending = (IF found = <<>> THEN pump.pending ELSE FALSE)
              /\ f.epoch = pump.epoch /\ f.enabled = pump.enabled
              /\ (~mailbox.enabled => f.display = pump.display /\ f.hooked = pump.hooked)
            BY <1>1, <3>1, <3>2, QuietFits
        <3> QED
            BY <2>1, <3>1, <3>3
    <2> QED
        BY <2>2, <2>3
<1>7. ~due => mailbox.enabled = pump.enabled
    BY <1>3
<1>8. pump' = (IF due THEN Layout(f) ELSE f)
      /\ asked' = (IF due /\ mailbox.enabled /\ ~f.pending THEN Append(asked, f.epoch) ELSE asked)
    BY <1>3
<1> HIDE DEF f, noted, changed
<1>9. f \in PumpStates /\ f.display.on <= bar.id /\ f.hooked \in {0, f.display.on}
    BY <1>6 DEF WindowFits
\* The window that the turn leaves.
<1>10. /\ WindowFits(pump', event) /\ pump'.up = TRUE /\ pump'.epoch = f.epoch
       /\ (posted # <<>> => ~(pump'.display.visible /\ Owns(pump')))
       /\ (~pump'.enabled => pump'.display = NoWindow /\ pump'.hooked = 0)
       /\ pump'.pending = (IF due /\ mailbox.enabled THEN TRUE ELSE f.pending)
    <2>1. CASE ~due
        <3>1. pump' = f
            BY <1>8, <2>1
        <3>2. ~f.enabled => ~mailbox.enabled /\ pump.display = NoWindow /\ pump.hooked = 0
            BY <1>6, <1>7, <2>1 DEF TaskbarInv, NothingIsLeft
        <3> QED
            BY <1>6, <2>1, <3>1, <3>2
    <2>2. CASE due /\ mailbox.enabled
        <3>1. pump' = [[f EXCEPT !.pending = TRUE] EXCEPT !.forced = FALSE, !.enabled = mailbox.enabled]
            BY <1>8, <2>2 DEF Layout
        <3>2. /\ pump' \in PumpStates /\ pump'.display = f.display /\ pump'.hooked = f.hooked
              /\ pump'.up = f.up /\ pump'.epoch = f.epoch /\ pump'.pending = TRUE
              /\ pump'.enabled = mailbox.enabled
            BY <1>2, <1>9, <3>1 DEF PumpStates
        <3>3. WindowFits(pump', event)
            BY <1>6, <3>2 DEF WindowFits, Owns
        <3>4. ~(pump'.display.visible /\ Owns(pump')) <=> ~(f.display.visible /\ Owns(f))
            BY <3>2 DEF Owns
        <3>5. pump'.enabled
            BY <2>2, <3>2
        <3>6. pump'.pending = (IF due /\ mailbox.enabled THEN TRUE ELSE f.pending)
            BY <2>2, <3>2
        <3> QED
            BY <1>6, <3>2, <3>3, <3>4, <3>5, <3>6
    <2>3. CASE due /\ ~mailbox.enabled
        <3> DEFINE d == Destroyed(f)
        <3>1. pump' = [d EXCEPT !.forced = FALSE, !.enabled = mailbox.enabled]
            BY <1>8, <2>3 DEF Layout
        <3>2. WindowFits(d, event) /\ d.display = NoWindow /\ d.hooked = 0 /\ d.up = f.up
              /\ d.pending = f.pending /\ d.epoch = f.epoch
            BY <1>2, <1>9, DestroyedFits
        <3>3. d \in PumpStates
            BY <3>2 DEF WindowFits
        <3> HIDE DEF d
        <3>4. /\ pump' \in PumpStates /\ pump'.display = NoWindow /\ pump'.hooked = 0
              /\ pump'.up = f.up /\ pump'.epoch = f.epoch /\ pump'.pending = f.pending
            BY <1>2, <3>1, <3>2, <3>3 DEF PumpStates
        <3>5. WindowFits(pump', event) /\ ~pump'.display.visible
            BY <1>2, <3>4 DEF WindowFits, NoWindow
        <3> QED
            BY <1>6, <2>3, <3>4, <3>5
    <2> QED
        BY <2>1, <2>2, <2>3
<1>11. /\ asked' \in Seq(Nat \union {Stop})
       /\ \A i \in 1..Len(asked') : asked'[i] <= f.epoch
       /\ Len(asked') = (IF pump'.pending THEN 1 ELSE 0)
    <2>1. \A i \in 1..Len(asked) : asked[i] <= pump.epoch /\ asked[i] \in Int
        BY <1>2 DEF TaskbarInv, NoneAhead, Stop
    <2>2. \A i \in 1..Len(asked) : asked[i] <= f.epoch
        <3>1. pump.epoch \in Nat
            BY <1>2 DEF PumpStates
        <3> QED
            BY <1>6, <2>1, <3>1
    <2>3. Len(asked) = (IF f.pending THEN 1 ELSE 0)
        <3>1. CASE found = <<>>
            BY <1>1, <1>2, <1>6, <3>1 DEF TaskbarInv, RequestIsKept
        <3>2. CASE found # <<>>
            BY <1>1, <1>6, <3>2, OneAnswer
        <3> QED
            BY <3>1, <3>2
    <2>4. CASE due /\ mailbox.enabled /\ ~f.pending
        <3>1. asked' = Append(asked, f.epoch) /\ Len(asked) = 0 /\ pump'.pending
            BY <1>8, <1>10, <2>3, <2>4
        <3>2. Len(asked') = 1 /\ asked'[1] = f.epoch /\ asked' \in Seq(Nat \union {Stop})
            BY <1>2, <1>6, <3>1
        <3> QED
            BY <1>6, <3>1, <3>2
    <2>5. CASE ~(due /\ mailbox.enabled /\ ~f.pending)
        <3>1. asked' = asked
            BY <1>8, <2>5
        <3>2. pump'.pending <=> f.pending
            BY <1>10, <2>5
        <3> QED
            BY <1>2, <2>2, <2>3, <3>1, <3>2
    <2> QED
        BY <2>4, <2>5
<1>12. posted' \in Seq(Messages)
    BY <1>2, <1>4
<1>13. event' \in BOOLEAN /\ (event /\ pump'.hooked = bar.id => event')
    BY DEF Pumps
<1>14. BarShape'
    BY <1>1, <1>4, <1>10, <1>11, <1>12, <1>13 DEF TaskbarInv, BarShape, WindowFits
<1>15. Len(found') = 0
    BY <1>4
<1>16. NoneAhead' /\ HooksFollow' /\ AnswersFollow'
    BY <1>1, <1>10, <1>11, <1>15 DEF WindowFits, NoneAhead, HooksFollow, AnswersFollow
<1>17. WindowIsHeard'
    BY <1>1, <1>10 DEF WindowFits, WindowIsHeard, Owns
<1>18. CoversNothing'
    <2> SUFFICES ASSUME pump'.display.visible, pump'.display.on = bar.id, pump'.display.heard
                 PROVE  event' \/ ClearAt(pump'.display.at)
        BY <1>1 DEF CoversNothing, Overlaps, Covers, ClearAt, Owns
    <2>1. event \/ ClearAt(pump'.display.at)
        BY <1>10 DEF WindowFits, Owns
    <2>2. pump'.hooked = bar.id
        BY <1>10 DEF WindowFits, Owns
    <2> QED
        BY <1>13, <2>1, <2>2
<1>19. RequestIsKept' /\ NothingIsLeft'
    BY <1>10, <1>11, <1>15 DEF RequestIsKept, NothingIsLeft
<1> QED
    BY <1>14, <1>16, <1>17, <1>18, <1>19 DEF TaskbarInv

LEMMA TaskbarStepKeeps == TaskbarInv /\ [TaskbarNext]_taskbarVars => TaskbarInv'
<1> SUFFICES ASSUME TaskbarInv, [TaskbarNext]_taskbarVars PROVE TaskbarInv'
    OBVIOUS
<1>1. CASE UNCHANGED taskbarVars
    BY <1>1 DEF taskbarVars, TaskbarInv, BarShape, NoneAhead, HooksFollow, AnswersFollow, Reported,
                ClearAt, WindowIsHeard, CoversNothing, Overlaps, RequestIsKept, NothingIsLeft, Owns
<1> QED
    BY <1>1, BarMovesKeeps, BarRestartsKeeps, PreferenceKeeps, DiscoverKeeps, HookKeeps, PumpsKeeps,
       PumpEndsKeeps DEF TaskbarNext

LEMMA TaskbarInvSays == TaskbarInv => TaskbarInvariant
<1> SUFFICES ASSUME TaskbarInv PROVE TaskbarTypeOK
    BY DEF TaskbarInv, TaskbarInvariant
<1>1. /\ posted \in Seq(Messages) /\ pump \in PumpStates
    BY DEF TaskbarInv, BarShape
<1>2. /\ pump.display.at \in NoGap..BarWidth /\ pump.hooked \in 0..MaxChanges + 1
      /\ {pump.up, pump.pending, pump.forced, pump.enabled} \subseteq BOOLEAN /\ pump.epoch \in Nat
    BY <1>1 DEF PumpStates, Displays
<1>3. \A i \in 1..Len(posted) : posted[i] \in Messages
    BY <1>1
<1> QED
    BY <1>2, <1>3 DEF TaskbarInv, BarShape, TaskbarTypeOK

\* The display covers no control that it could have heard of, never loses the
\* request it waits for, and leaves no window behind, whatever the layouts.
THEOREM TaskbarInvariantHolds == TaskbarSpec => []TaskbarInvariant
<1>1. TaskbarSpec => []TaskbarInv
    BY TaskbarStarts, TaskbarStepKeeps, PTL DEF TaskbarSpec
<1> QED
    BY <1>1, TaskbarInvSays, PTL
===============================================================================
