-------------------------------- MODULE Sync --------------------------------
(***************************************************************************)
(* Synchronisation of one account (apps/api/routes/sync.py and             *)
(* scripts/sync_worker.py): a snapshot of the account is exported, pushed  *)
(* to a provider or kept by a client, and imported back, possibly later    *)
(* and more than once, while the handlers of Study and Records go on.      *)
(*                                                                         *)
(* An import reads the checkpoints and the rows of its scopes and writes   *)
(* everything in one commit, which fails as a whole when one of its        *)
(* inserts meets a row or one of its updates meets none.                   *)
(***************************************************************************)
EXTENDS Study, Records

CONSTANTS
    RequestId,     \* the request ids clients use; a retry repeats one
    Device,        \* where imports and checkpoint requests come from
    ScopeChoices,  \* the sets of scopes requests ask for
    MaxCopies      \* bound on the snapshots kept outside

ASSUME SyncAssumption == MaxCopies \in Nat

VARIABLES
    checkpoints,   \* sync_records: checkpoints[scope] or None
    copies,        \* the snapshots that left the server
    importing,     \* importing[d]: the import or checkpoint request in flight, or None
    preferences,   \* users.preferences, as the number of the change that made them
    crossings,     \* history: imports of the same scope that were in flight together
    advances       \* history: advances[scope]: the request ids that advanced its version

syncOwn == <<checkpoints, copies, importing, preferences, crossings, advances>>
syncVars == <<studyVars, recordVars, syncOwn>>

Scope == {"profile", "recommendation_reports", "learning_plans", "job_favorites",
          "learning_records"}
Checkpoint == [version : Nat, last : {None} \cup RequestId]
Strategy == {"remote_wins", "keep_local"}

SyncInit ==
    /\ StudyInit /\ RecordInit
    /\ checkpoints = [s \in Scope |-> None] /\ copies = {}
    /\ importing = [d \in Device |-> None] /\ preferences = 0 /\ crossings = 0
    /\ advances = [s \in Scope |-> <<>>]

-----------------------------------------------------------------------------
(* Out: export, and the push to the provider. *)

\* What identifies a plan or a report elsewhere: the fingerprint stored with an imported
\* one, that of its present content for one made here.
PrintOf(row, content) == IF row.print # None THEN row.print ELSE content
PlanContent(p) == [status |-> p.status, items |-> p.items, analysed |-> p.analysed]
ReportContent(r) == [version |-> r.version, stale |-> r.stale, of |-> r.of]

Snapshot ==
    [preferences |-> preferences,
     profile |-> IF Current = None THEN None ELSE Current.content,
     plans |-> {[items |-> plans[n].items, analysed |-> plans[n].analysed,
                 print |-> PrintOf(plans[n], PlanContent(plans[n]))] : n \in DOMAIN plans},
     reports |-> {[version |-> reports[n].version, of |-> reports[n].of,
                   print |-> PrintOf(reports[n], ReportContent(reports[n]))] :
                        n \in DOMAIN reports},
     favorite |-> rows["favorite"] # None,
     record |-> IF rows["record"] = None THEN None ELSE rows["record"].by]

Leaves(snap) ==
    /\ copies' = copies \cup {snap}
    /\ Cardinality(copies') <= MaxCopies

ExportSnapshot ==
    /\ Leaves(Snapshot)
    /\ UNCHANGED <<studyVars, recordVars, checkpoints, importing, preferences, crossings,
                   advances>>

\* A push inserts the checkpoints that are missing, at version 0, and stores the provider's
\* answer on all of them, which nothing reads but the status page.  The commit is refused,
\* after the snapshot has left, if a checkpoint it was to insert appeared meanwhile.
Push(scopes, leaves, refused) ==
    /\ IF leaves THEN Leaves(Snapshot) ELSE UNCHANGED copies
    /\ checkpoints' = [s \in Scope |->
          IF s \in scopes /\ ~refused /\ checkpoints[s] = None
          THEN [version |-> 0, last |-> None] ELSE checkpoints[s]]
    /\ UNCHANGED <<studyVars, recordVars, importing, preferences, crossings, advances>>

\* The worker pushes every scope, and only when a provider is configured; a client names
\* its scopes, and nothing leaves without a provider.
SyncWorker == \E refused \in BOOLEAN : Push(Scope, TRUE, refused)
PushSyncProvider ==
    \E scopes \in ScopeChoices, leaves, refused \in BOOLEAN : Push(scopes, leaves, refused)

\* The user changes a preference (preferences.py, knowledge.py).
ChangePreferences ==
    /\ requests < MaxRequests
    /\ requests' = requests + 1 /\ preferences' = requests + 1
    /\ UNCHANGED <<profiles, reports, plans, flight, history, recordVars, checkpoints, copies,
                   importing, crossings, advances>>

-----------------------------------------------------------------------------
(* In: the import of a snapshot, and the request that only moves checkpoints. *)

StartImport(d, rid, scopes, strategy, snap) ==
    /\ importing[d] = None /\ requests < MaxRequests
    /\ requests' = requests + 1
    /\ importing' = [importing EXCEPT ![d] =
          [rid |-> rid, scopes |-> scopes, strategy |-> strategy, snap |-> snap,
           number |-> requests + 1, checkpoints |-> checkpoints, profile |-> Current,
           planPrints |-> {plans[n].print : n \in DOMAIN plans},
           reportPrints |-> {reports[n].print : n \in DOMAIN reports}, rows |-> rows]]
    /\ UNCHANGED <<profiles, reports, plans, flight, history, recordVars,
                   checkpoints, copies, preferences, crossings, advances>>

\* sync_data: the same without data.
StartSyncData(d, rid, scopes) == StartImport(d, rid, scopes, "keep_local", None)

\* A scope whose last request was this one is left out.
IsDuplicateRequest(i, s) == i.checkpoints[s] # None /\ i.checkpoints[s].last = i.rid
Imports(i, s) == s \in i.scopes /\ ~IsDuplicateRequest(i, s)
ImportsData(i, s) == i.snap # None /\ Imports(i, s)
Overwrites(i) == i.snap # None /\ i.strategy = "remote_wins"

UpdatesProfile_AnyStrategy(i) ==
    ImportsData(i, "profile") /\ i.snap.profile # None /\ i.profile # None

UpdatesProfile(i) ==
    ImportsData(i, "profile") /\ i.snap.profile # None /\ i.profile # None /\ Overwrites(i)
AddsProfile(i) ==
    ImportsData(i, "profile") /\ i.snap.profile # None /\ i.profile = None
AddsFavorite(i) ==
    ImportsData(i, "job_favorites") /\ i.snap.favorite /\ i.rows["favorite"] = None
AddsRecord(i) ==
    /\ ImportsData(i, "learning_records") /\ i.snap.record # None
    /\ i.rows["record"] = None
UpdatesRecord(i) ==
    /\ ImportsData(i, "learning_records") /\ i.snap.record # None
    /\ i.rows["record"] # None /\ Overwrites(i)

\* A row the import is to update is gone.
GoneBy(i) ==
    \/ UpdatesRecord(i) /\ (rows["record"] = None \/ rows["record"].id # i.rows["record"].id)
    \/ UpdatesProfile(i) /\ \A n \in DOMAIN profiles : profiles[n].id # i.profile.id

\* What the database refuses at the commit: a second checkpoint or row of one key, an
\* update of a row that is gone.
Refused(i) ==
    \/ \E s \in i.scopes : i.checkpoints[s] = None /\ checkpoints[s] # None
    \/ AddsFavorite(i) /\ rows["favorite"] # None
    \/ AddsRecord(i) /\ rows["record"] # None
    \/ GoneBy(i)

\* The profile: replaced with the version of the row that was read plus one, or added.
\* No report is marked stale.
ProfilesAfter(i) ==
    IF UpdatesProfile(i) THEN Written(i.profile, i.snap.profile)
    ELSE IF AddsProfile(i)
      THEN Append(profiles, [id |-> i.number, version |-> 1, content |-> i.snap.profile])
      ELSE profiles

\* By fingerprint, the first item that carries it, of those no row and no earlier item
\* carried; the order is that of the snapshot, which is any order here.
Firsts(items, known) ==
    LET prints == {x.print : x \in items} \ known IN
    {first \in [prints -> items] : \A p \in prints : first[p].print = p}

NewPlans_Always(i) ==
    IF ImportsData(i, "learning_plans") THEN Firsts(i.snap.plans, {}) ELSE {<<>>}

NewPlans(i) ==
    IF ImportsData(i, "learning_plans") THEN Firsts(i.snap.plans, i.planPrints) ELSE {<<>>}

NewReports(i) ==
    IF ImportsData(i, "recommendation_reports") THEN Firsts(i.snap.reports, i.reportPrints)
    ELSE {<<>>}

Ids(i, added) == {<<i.number, p>> : p \in DOMAIN added}

\* Plans come in as drafts, with the fingerprint they came with.
PlansAfter(i, added) ==
    [n \in DOMAIN plans \cup Ids(i, added) |->
        IF n \in DOMAIN plans THEN plans[n]
        ELSE [status |-> "draft", items |-> added[n[2]].items,
              analysed |-> added[n[2]].analysed, print |-> n[2]]]

\* Reports come in stale.
ReportsAfter(i, added) ==
    [n \in DOMAIN reports \cup Ids(i, added) |->
        IF n \in DOMAIN reports THEN reports[n]
        ELSE [version |-> added[n[2]].version, stale |-> TRUE, of |-> added[n[2]].of,
              print |-> n[2]]]

RowsAfter(i) ==
    LET new == [id |-> -i.number, by |-> -i.number, left |-> FALSE] IN
    [t \in Table |->
        CASE t = "favorite" /\ AddsFavorite(i) -> new
          [] t = "record" /\ AddsRecord(i) -> new
          [] t = "record" /\ UpdatesRecord(i) -> [new EXCEPT !.id = rows[t].id]
          [] OTHER -> rows[t]]

\* One more than the version that was read.
CheckpointsAfter(i) ==
    [s \in Scope |->
        IF ~Imports(i, s) THEN checkpoints[s]
        ELSE IF i.checkpoints[s] = None
               THEN [version |-> 1, last |-> i.rid]
               ELSE [checkpoints[s] EXCEPT !.version = i.checkpoints[s].version + 1,
                                           !.last = i.rid]]

VersionOf(checkpoint) == IF checkpoint = None THEN 0 ELSE checkpoint.version
Crosses(d) == \E e \in Device \ {d} :
    importing[e] # None /\ importing[e].scopes \cap importing[d].scopes # {}

FinishImport(d) ==
    /\ importing[d] # None
    /\ LET i == importing[d] IN
         IF Refused(i)
           THEN UNCHANGED <<profiles, plans, reports, rows, checkpoints, preferences,
                            overlooked, crossings, advances>>
           ELSE /\ profiles' = ProfilesAfter(i)
                /\ \E added \in NewPlans(i) : plans' = PlansAfter(i, added)
                /\ \E added \in NewReports(i) : reports' = ReportsAfter(i, added)
                /\ rows' = RowsAfter(i)
                /\ checkpoints' = CheckpointsAfter(i)
                /\ overlooked' = IF UpdatesProfile(i) \/ AddsProfile(i)
                                 THEN overlooked \cup Fresh ELSE overlooked
                /\ preferences' = IF Overwrites(i) THEN i.snap.preferences ELSE preferences
                /\ crossings' = IF Crosses(d) THEN crossings + 1 ELSE crossings
                /\ advances' = [s \in Scope |->
                      IF Imports(i, s) /\ VersionOf(checkpoints'[s]) > VersionOf(checkpoints[s])
                      THEN Append(advances[s], i.rid) ELSE advances[s]]
    /\ importing' = [importing EXCEPT ![d] = None]
    /\ UNCHANGED <<flight, requests, overlaps, pending, writes, copies>>

SyncNext ==
    \/ ExportSnapshot \/ SyncWorker \/ PushSyncProvider \/ ChangePreferences
    \/ \E d \in Device :
          \/ \E rid \in RequestId, scopes \in ScopeChoices :
                \/ StartSyncData(d, rid, scopes)
                \/ \E strategy \in Strategy, snap \in copies :
                      StartImport(d, rid, scopes, strategy, snap)
          \/ FinishImport(d)
    \/ StudyNext /\ UNCHANGED <<recordVars, syncOwn>>
    \/ RecordNext /\ UNCHANGED <<studyVars, syncOwn>>

SyncSpec == SyncInit /\ [][SyncNext]_syncVars

-----------------------------------------------------------------------------
SyncTypeOK ==
    /\ StudyTypeOK /\ RecordTypeOK
    /\ checkpoints \in [Scope -> {None} \cup Checkpoint]
    /\ preferences \in Number

Copies(table, print) == {n \in DOMAIN table : table[n].print = print}
OnlyOnce(table) ==
    \A print \in {table[n].print : n \in DOMAIN table} \ {None} :
        Cardinality(Copies(table, print)) <= 1 + crossings

\* A plan or a report of a snapshot is imported once, however often the snapshot comes back
\* and under whatever request id, but for imports that were in flight together
\* (import_sync_snapshot).
ImportedOnce == OnlyOnce(plans) /\ OnlyOnce(reports)

\* The end of an import that keeps local data.
KeepsLocal(d) ==
    /\ importing[d] # None /\ importing'[d] = None
    /\ importing[d].snap = None \/ importing[d].strategy = "keep_local"

\* An import under keep_local changes nothing the account has when it commits, what was
\* added or changed since the import read it included (import_sync_snapshot).
LocalKept ==
    [][\A d \in Device : KeepsLocal(d) =>
        /\ IsPrefix(profiles, profiles')
        /\ \A n \in DOMAIN plans : plans'[n] = plans[n]
        /\ \A n \in DOMAIN reports : reports'[n] = reports[n]
        /\ \A t \in Table : rows[t] # None => rows'[t] = rows[t]
        /\ preferences' = preferences]_syncVars

\* "同步请求已增加请求幂等键…网络重试不会重复推进同一批次版本"
\* (docs/backend-gap-checklist.md:177): one request id advances the version of a scope once,
\* however often the request is sent (sync_data, import_sync_snapshot).
AdvancesOnce ==
    \A s \in Scope : \A m, n \in DOMAIN advances[s] :
        advances[s][m] = advances[s][n] => m = n

=============================================================================
